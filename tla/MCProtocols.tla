----------------------------- MODULE MCProtocols -----------------------------
(* What is parsed, encoded and dispatched: HeaderParser, JsonRpc and the   *)
(* pure functions of PureCode, which have nothing to do with each other,   *)
(* one of them in each behaviour.                                          *)
EXTENDS HeaderParser, JsonRpc, PureCode

VARIABLE input    \* of the pure functions, or None

vars == <<parserVars, rpcVars, input>>

MCNames == {"set-cookie", "accept", "accept-charset", "accept-patch", "host", "x-a"}

(* Requests that differ in what is wrong with them. *)
MCShapes ==
  {s \in Shape :
     /\ s.json # "object" => s = [json |-> s.json, version |-> "1.0", id |-> "own",
          method |-> "add", params |-> "array", fits |-> TRUE]
     /\ s.method # "add" \/ s.id = "bad" => s.params = "array" /\ s.fits
     /\ s.id = "bad" => s.method = "add"
     /\ s.params # "array" => s.id \in {"own", IF s.version = "2.0" THEN "undefined" ELSE "null"}
     /\ s.params = "other" => ~s.fits}

(* What is posted after another request: what is called, is a notification *)
(* or is refused.                                                          *)
MCLater ==
  {s \in MCShapes : s.json = "object" => s.id \in {"undefined", "own"} /\ s.params = "array" /\ s.fits}

Init ==
  \/ ParserInit /\ RpcInit /\ starts = 0 /\ input = None
  \/ ParserInit /\ RpcInit /\ input \in Input

Next ==
  /\ input = None
  /\ \/ requests = <<>> /\ starts = 0 /\ ParserNext /\ UNCHANGED <<rpcVars, input>>
     \/ /\ lines = 0 /\ phase = "idle" /\ RpcNext /\ UNCHANGED <<parserVars, input>>
        /\ Len(requests') > 1 => Last(requests') \in MCLater

Spec ==
  /\ Init /\ [][Next]_vars
  /\ WF_vars(lines = 0 /\ OnMessage /\ UNCHANGED <<parserVars, input>>)
  /\ WF_vars(lines = 0 /\ SetEmitted /\ UNCHANGED <<parserVars, input>>)

(* The laws of the pure functions hold of each input. *)
PureLaws ==
  input # None =>
    CASE input.kind = "path"   -> PathLaws(input.s)
      [] input.kind = "query"  -> QueryLaws(input.s)
      [] input.kind = "text"   -> TextLaws(input.s)
      [] input.kind = "pairs"  -> PairLaws(input.obj)
      [] input.kind = "url"    -> UrlLaws(input.fields)
      [] input.kind = "buffer" -> BufferLaws(input)
=============================================================================
