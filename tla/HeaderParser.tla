---------------------------- MODULE HeaderParser ----------------------------
(***************************************************************************)
(* How Parser (http/parser.h) gathers the header lines and trailers that   *)
(* http_parser hands it in pieces, and how IncomingMessage                 *)
(* (http/incoming_message.h) keeps them by name.  http_parser is external: *)
(* it calls back for each field and each piece of a value as they arrive,  *)
(* and when a read ends within a name it calls back for both its parts.    *)
(*                                                                         *)
(* A value is the sequence of its pieces; pieces are numbered as they      *)
(* arrive.  A header has the sequence of the values that were sent for it, *)
(* be they kept as a list (set-cookie) or joined by commas.                *)
(***************************************************************************)
EXTENDS HeaderScanner

CONSTANTS
  Names,        \* the header names that are sent, in lower case
  MaxLines,     \* bound: header lines and trailers, of all messages
  MaxPieces,    \* bound: pieces of one value
  MaxHeaders    \* maxHeadersCount_, where 0 stands for no limit

ASSUME ParserAssumption ==
  /\ IsFiniteSet(Names) /\ MaxLines \in Nat
  /\ MaxPieces \in Nat \ {0} /\ MaxHeaders \in Nat

VARIABLES
  phase,      \* of http_parser: where it is in the message
  fields,     \* fields_
  values,     \* values_
  headers,    \* headers_ of the message, a function of the names it has
  trailers,   \* trailers_
  sent,       \* history: the lines of the message on the wire
  pieces,     \* pieces of values so far
  lines,      \* lines so far, of all messages
  split,      \* history: a name came in two parts
  broken      \* an assertion has failed

parserVars == <<phase, fields, values, headers, trailers, sent, pieces, lines,
                split, broken>>

(* The headers of which every value counts: the others keep the last.      *)
Joined ==
  {"accept", "accept-charset", "accept-encoding", "accept-language",
   "connection", "cookie", "pragma", "link", "www-authenticate",
   "proxy-authenticate", "sec-websocket-extensions", "sec-websocket-protocol"}
IsJoined(name) == name \in Joined \/ IsPrefix("x-", name)

(* map with values for name: put() *)
Put(map, name, vals) == (name :> vals) @@ map

(* Mutant: a header that may be sent many times keeps the last value only. *)
AddOver(h, t, complete, name, value) ==
  IF complete THEN [h |-> h, t |-> Put(t, name, <<value>>)]
              ELSE [h |-> Put(h, name, <<value>>), t |-> t]

(* addHeaderLine(): what to append to is always looked up in the headers,  *)
(* and a list found there grows there, trailer or not.                     *)
AddHeaderLine(h, t, complete, name, value) ==
  LET found == name \in DOMAIN h /\ (IsJoined(name) \/ name = "set-cookie")
      vals  == IF found THEN Append(h[name], value) ELSE <<value>>
  IN  IF complete /\ ~(found /\ name = "set-cookie")
      THEN [h |-> h, t |-> Put(t, name, vals)]
      ELSE [h |-> Put(h, name, vals), t |-> t]

(* The first n fields and values, one after the other. *)
AddLines(h, t, complete, n) ==
  FoldLeft(LAMBDA m, i : AddHeaderLine(m.h, m.t, complete, fields[i], values[i]),
           [h |-> h, t |-> t], [i \in 1..n |-> i])

-----------------------------------------------------------------------------
MessageBegin ==
  /\ phase = "idle" /\ lines < MaxLines
  /\ phase' = "head"
  /\ fields' = <<>> /\ values' = <<>>
  /\ headers' = <<>> /\ trailers' = <<>>    \* of the message to come
  /\ sent' = [head |-> <<>>, tail |-> <<>>]
  /\ UNCHANGED <<pieces, lines, split, broken>>

(* A field of the head or of the trailers begins on the wire. *)
Begins(name) ==
  /\ phase \in {"head", "tail"} /\ lines < MaxLines
  /\ lines' = lines + 1
  /\ LET line == [name |-> name, value |-> <<>>]
     IN  sent' = [sent EXCEPT ![phase] = Append(@, line)]
  /\ phase' = [head |-> "field", tail |-> "trailer"][phase]

(* onHeaderField() *)
HeaderField(name) ==
  /\ Begins(name)
  /\ broken' = (broken \/ Len(fields) # Len(values))
  /\ fields' = Append(fields, Scan(name))
  /\ UNCHANGED <<values, headers, trailers, pieces, split>>

(* onHeaderField() twice, for the two parts of one name. *)
HeaderFieldSplit(name) ==
  LET i == Len(name) \div 2
  IN  /\ Begins(name)
      /\ fields' = fields \o <<Scan(Upto(name, i)),
                               Scan(SubSeq(name, i + 1, Len(name)))>>
      /\ split' = TRUE /\ broken' = TRUE
      /\ UNCHANGED <<values, headers, trailers, pieces>>

(* Mutant: a piece takes the place of the pieces before it. *)
LastPiece(vals, piece) ==
  IF Len(vals) # Len(fields) THEN Append(vals, <<piece>>)
  ELSE [vals EXCEPT ![Len(vals)] = <<piece>>]

(* A new value, or more of the value of the last field. *)
AddPiece(vals, piece) ==
  IF Len(vals) # Len(fields) THEN Append(vals, <<piece>>)
  ELSE [vals EXCEPT ![Len(vals)] = Append(@, piece)]

(* onHeaderValue(): the values never get ahead of the fields. *)
HeaderValue ==
  LET part == IF phase \in {"field", "value"} THEN "head" ELSE "tail"
      last == Len(sent[part])
  IN  /\ phase \in {"field", "value", "trailer", "trailervalue"}
      /\ Len(sent[part][last].value) < MaxPieces
      /\ pieces' = pieces + 1
      /\ values' = AddPiece(values, pieces')
      /\ broken' = (broken \/ Len(values') # Len(fields))
      /\ sent' = [sent EXCEPT ![part][last].value = Append(@, pieces')]
      /\ phase' = IF part = "head" THEN "value" ELSE "trailervalue"
      /\ UNCHANGED <<fields, headers, trailers, lines, split>>

(* The line is complete. *)
LineEnds ==
  /\ phase \in {"value", "trailervalue"}
  /\ phase' = IF phase = "value" THEN "head" ELSE "tail"
  /\ UNCHANGED <<fields, values, headers, trailers, sent, pieces, lines, split,
                 broken>>

(* Parser::onHeadersComplete(): at most maxHeadersCount_ lines are taken. *)
HeadersComplete ==
  LET n == IF MaxHeaders = 0 THEN Len(values) ELSE Min({Len(values), MaxHeaders})
      m == AddLines(<<>>, <<>>, FALSE, n)
  IN  /\ phase = "head"
      /\ broken' = (broken \/ Len(fields) \notin {Len(values), Len(values) + 1})
      /\ headers' = m.h /\ trailers' = m.t
      /\ fields' = <<>> /\ values' = <<>>
      /\ phase' = "tail"
      /\ UNCHANGED <<sent, pieces, lines, split>>

(* Parser::onMessageComplete(): what came since are trailers. *)
MessageComplete ==
  LET m == AddLines(headers, trailers, TRUE, Min({Len(fields), Len(values)}))
  IN  /\ phase = "tail"
      /\ broken' = (broken \/ Len(fields) # Len(values))
      /\ headers' = m.h /\ trailers' = m.t
      /\ fields' = <<>> /\ values' = <<>>
      /\ phase' = "idle"
      /\ UNCHANGED <<sent, pieces, lines, split>>

ParserInit ==
  /\ phase = "idle" /\ fields = <<>> /\ values = <<>>
  /\ headers = <<>> /\ trailers = <<>>
  /\ sent = [head |-> <<>>, tail |-> <<>>]
  /\ pieces = 0 /\ lines = 0 /\ split = FALSE /\ broken = FALSE

ParserNext ==
  \/ MessageBegin
  \/ \E name \in Names : HeaderField(name) \/ HeaderFieldSplit(name)
  \/ HeaderValue
  \/ LineEnds
  \/ HeadersComplete
  \/ MessageComplete

-----------------------------------------------------------------------------
(* Properties. *)

(* The scanner knows the name, or knows none that it begins with. *)
Spelled(name) == name \in Known \/ \A k \in Known : ~IsPrefix(k, name)

ValuesOf(seq, name) ==
  LET those == SelectSeq(seq, LAMBDA line : line.name = name)
  IN  [i \in DOMAIN those |-> those[i].value]

(* What a message says of a header: all its values, or the last. *)
Said(seq, name) ==
  IF IsJoined(name) \/ name = "set-cookie" THEN ValuesOf(seq, name)
  ELSE <<Last(ValuesOf(seq, name))>>

(* The part of HeadersAsSent that is about what the message has. *)
WholeAsSent ==
  LET n    == Len(sent.head)
      head == IF MaxHeaders = 0 THEN sent.head
              ELSE SubSeq(sent.head, 1, Min({n, MaxHeaders}))
      at(seq) == {seq[i].name : i \in DOMAIN seq} \ {"set-cookie"}
  IN  /\ phase \in {"tail", "idle"} /\ ~split
      /\ \A part \in {"head", "tail"} : \A i \in DOMAIN sent[part] :
           Spelled(sent[part][i].name)
      => /\ DOMAIN headers \ {"set-cookie"} = at(head)
         /\ \A name \in at(head) : headers[name] = Said(head, name)
         /\ phase = "tail" /\ "set-cookie" \in DOMAIN headers =>
              headers["set-cookie"] = ValuesOf(head, "set-cookie")
         /\ phase = "idle" =>
              /\ DOMAIN trailers \ {"set-cookie"} = at(sent.tail)
              /\ \A name \in at(sent.tail) :
                   Last(trailers[name]) = Last(ValuesOf(sent.tail, name))

(* Once the head has been read the message has the headers that were sent, *)
(* up to the limit, each under its own name and with whole values in the   *)
(* order of the wire, however they were cut into pieces, and it keeps them *)
(* until its end, but for a set-cookie among the trailers.  It has the     *)
(* trailers that were sent.  A name that was cut, or that begins with      *)
(* another name that the scanner knows, may be taken for another.  The     *)
(* assertions of Parser hold unless a name was cut.                        *)
HeadersAsSent ==
  /\ broken => split
  /\ WholeAsSent
=============================================================================
