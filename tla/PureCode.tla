------------------------------ MODULE PureCode ------------------------------
(***************************************************************************)
(* The pure functions of path.cpp, querystring.cpp, util.cpp, url.cpp and  *)
(* of Buffer (detail/buffer.h): text is a sequence of characters, a buffer *)
(* is a window [off, len] on a store of bytes.  Each is written as the     *)
(* code computes it, and the laws at the end compare it with what it is    *)
(* for, over all short inputs.                                             *)
(***************************************************************************)
EXTENDS Integers, Sequences, FiniteSets, Functions, FiniteSetsExt, SequencesExt

CONSTANTS
  MaxPath,     \* bound: characters of a path
  MaxText      \* bound: characters of a query or a text that is encoded

ASSUME PureAssumption == MaxPath \in Nat /\ MaxText \in Nat

None == [none |-> TRUE]      \* null

-----------------------------------------------------------------------------
(* path.cpp *)
SEP == "/"
Cwd == <<"/", "c">>          \* getcwd()

(* The parts of s between the separators. *)
Split(s, sep) ==
  FoldLeft(LAMBDA parts, c : IF c = sep THEN Append(parts, <<>>)
                             ELSE Front(parts) \o <<Append(Last(parts), c)>>,
           << <<>> >>, s)
JoinWith(parts, sep) ==
  FoldLeft(LAMBDA s, i : IF i = 1 THEN parts[i] ELSE s \o <<sep>> \o parts[i],
           <<>>, [i \in DOMAIN parts |-> i])

(* Mutant: ".." takes the last directory away, whatever it is. *)
EnterAny(dirs, dir) ==
  IF dir = <<".", ".">> THEN IF dirs # <<>> THEN Front(dirs) ELSE <<dir>>
  ELSE IF dir \in {<<".">>, <<>>} THEN dirs ELSE Append(dirs, dir)

(* One more part of the path that normalize() walks. *)
Enter(dirs, dir) ==
  IF dir = <<".", ".">> /\ dirs # <<>> /\ Last(dirs) # dir THEN Front(dirs)
  ELSE IF dir \in {<<".">>, <<>>} THEN dirs ELSE Append(dirs, dir)

Normalize(path) ==
  LET dirs   == FoldLeft(Enter, <<>>, Split(path, SEP))
      root   == IF path # <<>> /\ Head(path) = SEP THEN <<SEP>> ELSE <<>>
      tail   == IF dirs # <<>> /\ path # <<>> /\ Last(path) = SEP THEN <<SEP>> ELSE <<>>
      normal == root \o JoinWith(dirs, SEP) \o tail
  IN  IF normal = <<>> THEN <<".">> ELSE normal

(* trimSeps(): but a lone separator stays. *)
TrimSeps(path) ==
  LET others == {i \in DOMAIN path : path[i] # SEP}
  IN  IF others = {} THEN SubSeq(path, 1, Min({1, Len(path)}))
      ELSE SubSeq(path, 1, Max(others))

Join(paths) == Normalize(JoinWith(paths, SEP))

(* resolve(): an absolute path starts anew. *)
Resolve(paths) ==
  LET resolved == FoldLeft(LAMBDA r, p :
                    IF p = <<>> THEN r ELSE IF Head(p) = SEP THEN p
                    ELSE r \o <<SEP>> \o p, Cwd, paths)
  IN  TrimSeps(Normalize(resolved))

Basename(path) == Last(Split(TrimSeps(path), SEP))

Dirname(path) ==
  LET trimmed == TrimSeps(path)
      n == Len(trimmed) - Len(Basename(path))
  IN  IF n = 0 THEN <<".">> ELSE SubSeq(trimmed, 1, Max({1, n - 1}))

Extname(path) ==
  LET base == Basename(path)
      dots == {i \in DOMAIN base : base[i] = "."}
  IN  IF dots = {} \/ 1 \in dots THEN <<>> ELSE SubSeq(base, Max(dots), Len(base))

-----------------------------------------------------------------------------
(* util.cpp: the codes of the characters that must be escaped, and hex.    *)
HexDigits == <<"0", "1", "2", "3", "4", "5", "6", "7", "8", "9",
               "A", "B", "C", "D", "E", "F">>
Code == [c \in {" ", "%", "&", "+", "="} |->
           CASE c = " " -> <<2, 0>> [] c = "%" -> <<2, 5>> [] c = "&" -> <<2, 6>>
             [] c = "+" -> <<2, 11>> [] c = "=" -> <<3, 13>>]
Escape(c) == <<"%", HexDigits[Code[c][1] + 1], HexDigits[Code[c][2] + 1]>>

(* One character of percentEncode().  left is the room that it counts: it  *)
(* takes 5 for an escape of 3, and what wraps below 0 never ends.          *)
EncodeStep(acc, c) ==
  IF acc.left = 0 THEN acc
  ELSE IF c \notin DOMAIN Code
  THEN [out |-> Append(acc.out, c), left |-> acc.left - 1]
  ELSE IF acc.left \in {1, 2}
  THEN [out |-> acc.out \o SubSeq(Escape(c), 1, acc.left), left |-> 0]
  ELSE [out |-> acc.out \o Escape(c), left |-> acc.left - 5]

PercentEncode(s) == FoldLeft(EncodeStep, [out |-> <<>>, left |-> 3 * Len(s)], s).out

(* valueFromHexChar(): 0 for what is no digit, the end of the text too.    *)
HexValue(c) ==
  LET digit == [i \in 0..21 |-> IF i < 16 THEN HexDigits[i + 1]
                                ELSE <<"a", "b", "c", "d", "e", "f">>[i - 15]]
      those == {i \in DOMAIN digit : digit[i] = c}
  IN  IF those = {} THEN 0 ELSE LET i == Max(those) IN IF i < 16 THEN i ELSE i - 6

(* The character of two digits, "other" when it is none of ours.           *)
Char(high, low) ==
  LET codes == Code @@ ("a" :> <<6, 1>>)
      those == {d \in DOMAIN codes : codes[d] = <<HexValue(high), HexValue(low)>>}
  IN  IF those = {} THEN "other" ELSE CHOOSE d \in those : TRUE

(* percentDecode(): the two characters after a "%" are its digits.         *)
DecodeStep(acc, c) ==
  CASE acc.digits = <<>> /\ c = "%" -> [acc EXCEPT !.digits = <<c>>]
    [] acc.digits = <<>> /\ c = "+" -> [acc EXCEPT !.out = Append(@, " ")]
    [] acc.digits = <<>> /\ c \notin {"%", "+"} -> [acc EXCEPT !.out = Append(@, c)]
    [] Len(acc.digits) = 1 -> [acc EXCEPT !.digits = Append(@, c)]
    [] Len(acc.digits) = 2 ->
         [out |-> Append(acc.out, Char(acc.digits[2], c)), digits |-> <<>>]

(* A "%" that is last ends the text.  With one digit after it, the end of  *)
(* the text is taken for the other, and the code reads on past the end:    *)
(* past says so, what it adds to out from there is left open.              *)
Decode(s) ==
  LET end  == FoldLeft(DecodeStep, [out |-> <<>>, digits |-> <<>>], s)
      past == Len(end.digits) = 2
  IN  [past |-> past,
       out  |-> IF past THEN Append(end.out, Char(end.digits[2], "end")) ELSE end.out]

PercentDecode(s) == Decode(s).out

HexEncode(bytes) ==
  FlattenSeq([i \in DOMAIN bytes |-> <<bytes[i] \div 16, bytes[i] % 16>>])
HexDecode(digits) ==
  IF Len(digits) % 2 = 1 \/ \E i \in DOMAIN digits : digits[i] \notin 0..15
  THEN None
  ELSE [i \in 1..(Len(digits) \div 2) |-> 16 * digits[2 * i - 1] + digits[2 * i]]

-----------------------------------------------------------------------------
(* querystring.cpp: an object is a function from keys to the sequences of  *)
(* their values, where one value stands for a string and more for an array.*)
AddPair(obj, key, val) ==
  LET k == PercentDecode(key)  v == PercentDecode(val)
  IN  IF k \in DOMAIN obj THEN [obj EXCEPT ![k] = Append(@, v)]
      ELSE (k :> <<v>>) @@ obj

(* Mutant: the key is what is before the first eq. *)
ParseStepFirst(acc, c) ==
  CASE c = "=" /\ ~acc.eq -> [acc EXCEPT !.eq = TRUE, !.val = <<>>]
    [] c = "&" -> [obj |-> AddPair(acc.obj, acc.key, acc.val), eq |-> FALSE,
                   key |-> <<>>, val |-> <<>>]
    [] OTHER -> IF acc.eq THEN [acc EXCEPT !.val = Append(@, c)]
                ELSE [acc EXCEPT !.key = Append(@, c)]

(* One character of parse(): each eq ends the key anew, at itself.         *)
ParseStep(acc, c) ==
  CASE c = "=" -> [acc EXCEPT !.eq = TRUE, !.val = <<>>,
                   !.key = IF acc.eq THEN @ \o <<"=">> \o acc.val ELSE @]
    [] c = "&" -> [obj |-> AddPair(acc.obj, acc.key, acc.val), eq |-> FALSE,
                   key |-> <<>>, val |-> <<>>]
    [] OTHER -> IF acc.eq THEN [acc EXCEPT !.val = Append(@, c)]
                ELSE [acc EXCEPT !.key = Append(@, c)]

ParseQuery(s) ==
  LET end == FoldLeft(ParseStep, [obj |-> <<>>, eq |-> FALSE,
                                  key |-> <<>>, val |-> <<>>], s)
  IN  IF s = <<>> THEN <<>> ELSE AddPair(end.obj, end.key, end.val)

(* stringify() of the entries in some order. *)
Stringify(obj, order) ==
  LET pairs(key) == [i \in DOMAIN obj[key] |->
        PercentEncode(key) \o <<"=">> \o PercentEncode(obj[key][i])]
  IN  JoinWith(FlattenSeq([i \in DOMAIN order |-> pairs(order[i])]), "&")

-----------------------------------------------------------------------------
(* url.cpp: what parse() makes of the fields that http_parser has found.   *)
Field == {"schema", "userinfo", "host", "port", "path", "query", "fragment"}

ParseUrl(f) ==
  LET has(x) == x \in DOMAIN f
      opt(x, pre) == IF has(x) THEN pre \o f[x] ELSE <<>>
      fields == [protocol |-> opt("schema", <<>>) \o <<":">>,
                 hostname |-> opt("host", <<>>),
                 host     |-> opt("host", <<>>) \o opt("port", <<":">>),
                 port     |-> opt("port", <<>>),
                 pathname |-> opt("path", <<>>),
                 path     |-> opt("path", <<>>) \o opt("query", <<"?">>),
                 query    |-> opt("query", <<>>),
                 search   |-> opt("query", <<"?">>),
                 hash     |-> opt("fragment", <<"#">>),
                 auth     |-> opt("userinfo", <<>>)]
      from == [protocol |-> "schema", hostname |-> "host", host |-> "host",
               port |-> "port", pathname |-> "path", path |-> "path",
               query |-> "query", search |-> "query", hash |-> "fragment",
               auth |-> "userinfo"]
  IN  [x \in {y \in DOMAIN fields : has(from[y])} |-> fields[x]]

-----------------------------------------------------------------------------
(* detail/buffer.h: windows on a store, a sequence of bytes. *)
Slice(b, start, end) ==
  LET e == Min({end, b.len})
  IN  IF start > e THEN None ELSE [off |-> b.off + start, len |-> e - start]

(* The store has the bytes from position p on. *)
Stored(store, p, bytes) ==
  [i \in DOMAIN store |-> IF i - p \in DOMAIN bytes THEN bytes[i - p] ELSE store[i]]

(* write(): as much as fits, given the bytes of the text. *)
WriteText(store, b, bytes, offset, length) ==
  IF offset > b.len THEN store
  ELSE LET n == Min({Len(bytes), length, b.len - offset})
       IN  Stored(store, b.off + offset, SubSeq(bytes, 1, n))

(* copy() of a part of b to a place in target, of the same store. *)
Copy(store, b, target, targetStart, start, end) ==
  LET n == Max({0, Min({Min({end, b.len}) - start, target.len - targetStart})})
  IN  Stored(store, target.off + targetStart,
             SubSeq(store, b.off + start + 1, b.off + start + n))

(* The w bytes of a number, the least or the greatest first. *)
Bytes(value, w, little) ==
  [i \in 1..w |-> (value \div 256^(IF little THEN i - 1 ELSE w - i)) % 256]

(* Mutant: the offset of the window is forgotten. *)
WriteAtStart(store, b, bytes, offset) ==
  IF offset + Len(bytes) > Len(store) THEN store ELSE Stored(store, offset, bytes)

(* writeUInt8(), writeUInt16LE() ... writeDoubleBE(): the store, not the   *)
(* window, is the limit.                                                   *)
WriteNumber(store, b, bytes, offset) ==
  IF b.off + offset + Len(bytes) > Len(store) THEN store
  ELSE Stored(store, b.off + offset, bytes)

(* readUInt8(), readUInt16LE() ... *)
ReadNumber(store, b, w, offset, little) ==
  LET p == b.off + offset
      bytes == SubSeq(store, p + 1, p + w)
  IN  IF p + w > Len(store) THEN None
      ELSE FoldLeft(LAMBDA n, x : 256 * n + x, 0,
                    IF little THEN Reverse(bytes) ELSE bytes)

-----------------------------------------------------------------------------
(* The inputs. *)
PathInput  == [kind: {"path"}, s: BoundedSeq({"/", ".", "a"}, MaxPath)]
QueryInput == [kind: {"query"}, s: BoundedSeq({"a", "=", "&"}, MaxText)]
TextInput  == [kind: {"text"}, s: BoundedSeq({"a", " ", "%", "+"}, MaxText)]
PairInput  == [kind: {"pairs"},
               obj: UNION {[K -> {<< <<>> >>, << <<"a">>, <<"&">> >>, << <<" ">> >>}] :
                           K \in SUBSET {<<>>, <<"a">>, <<"=">>}}]
UrlInput   == [kind: {"url"}, fields: {[x \in F |-> <<x>>] : F \in SUBSET Field}]
BufferInput ==
  [kind: {"buffer"}, b: [off: 0..3, len: 0..4], start: 0..3, end: 0..4,
   offset: 0..3, w: {1, 2, 4}, little: BOOLEAN]

Input == PathInput \cup QueryInput \cup TextInput \cup PairInput \cup UrlInput
         \cup {in \in BufferInput : in.b.off + in.b.len <= 4}

-----------------------------------------------------------------------------
(* Properties, of one input. *)

(* A normal path is its own normal form and means the same place.  A       *)
(* resolved path is absolute and does not depend on how it was reached.    *)
(* The name and the directory of a path lead to it again.                  *)
PathLaws(s) ==
  /\ Normalize(Normalize(s)) = Normalize(s)
  /\ Head(Resolve(<<s>>)) = SEP
  /\ Resolve(<<Resolve(<<s>>)>>) = Resolve(<<s>>)
  /\ Resolve(<<s, <<"a">>, <<".", ".">> >>) = Resolve(<<s>>)
  /\ Resolve(<<Normalize(s)>>) = Resolve(<<s>>)
  /\ TrimSeps(Join(<<Dirname(s), Basename(s)>>)) = TrimSeps(Normalize(s))
  /\ LET n == Len(Basename(s)) - Len(Extname(s))
     IN  Extname(s) = SubSeq(Basename(s), n + 1, Len(Basename(s)))

(* The pairs of a query, told by its separators: a key goes up to the last *)
(* eq of its pair.                                                         *)
QueryLaws(s) ==
  LET parts  == Split(s, "&")
      eqs(p) == {i \in DOMAIN p : p[i] = "="}
      key(p) == IF eqs(p) = {} THEN p ELSE SubSeq(p, 1, Max(eqs(p)) - 1)
      val(p) == IF eqs(p) = {} THEN <<>> ELSE SubSeq(p, Max(eqs(p)) + 1, Len(p))
      vals(k) == LET those == SelectSeq(parts, LAMBDA p : key(p) = k)
                 IN  [i \in DOMAIN those |-> val(those[i])]
  IN  s # <<>> =>
        /\ DOMAIN ParseQuery(s) = {key(parts[i]) : i \in DOMAIN parts}
        /\ \A k \in DOMAIN ParseQuery(s) : ParseQuery(s)[k] = vals(k)

(* What is encoded comes back, unless the room that percentEncode() counts *)
(* ran out, and then what comes out is cut short.  Whatever is decoded, no *)
(* room is wanting, and nothing past the end is read but after an escape   *)
(* of which a digit is missing.                                            *)
Escaped(s) == FlattenSeq([i \in DOMAIN s |->
                IF s[i] \in DOMAIN Code THEN Escape(s[i]) ELSE <<s[i]>>])
Fits(s) == PercentEncode(s) = Escaped(s)
TextLaws(s) ==
  /\ IsPrefix(PercentEncode(s), Escaped(s))
  /\ Fits(s) => Decode(PercentEncode(s)) = [past |-> FALSE, out |-> s]
  /\ ~Fits(s) => Cardinality({i \in DOMAIN s : s[i] \in DOMAIN Code}) > 1
  /\ Len(Decode(s).out) <= Len(s)
  /\ Decode(s).past => Len(s) > 1 /\ s[Len(s) - 1] = "%"

(* An object comes back from its query, in whatever order it is written.   *)
PairLaws(obj) ==
  obj # <<>> => \A order \in SetToSeqs(DOMAIN obj) :
    LET o == ParseQuery(Stringify(obj, order))
    IN  DOMAIN o = DOMAIN obj /\ \A k \in DOMAIN obj : o[k] = obj[k]

(* The parts of a URL make up its fields. *)
UrlLaws(f) ==
  LET u == ParseUrl(f)
      of(x, d) == IF x \in DOMAIN u THEN u[x] ELSE d
  IN  /\ of("path", <<>>) = IF "path" \in DOMAIN f
                            THEN of("pathname", <<>>) \o of("search", <<>>)
                            ELSE <<>>
      /\ "host" \in DOMAIN f => IsPrefix(u.hostname, u.host)
      /\ Cardinality(DOMAIN u) >= Cardinality(DOMAIN f)

(* A slice lies within its buffer, and a text or a copy that is written in *)
(* it changes nothing outside of it.  A number is held back by the end of  *)
(* the store only, and may lie beyond its slice: it changes its own bytes  *)
(* and no others, and is read back, in the slice and in the buffer that it *)
(* was taken from.                                                         *)
BufferLaws(in) ==
  LET store == [i \in 1..4 |-> i]
      s     == Slice(in.b, in.start, in.end)
      value == CASE in.w = 1 -> 18 [] in.w = 2 -> 4660 [] in.w = 4 -> 305419896
      after == WriteNumber(store, s, Bytes(value, in.w, in.little), in.offset)
      text  == WriteText(store, s, <<7, 8, 9>>, in.offset, 2)
      copy  == Copy(store, in.b, s, in.offset, 1, in.end)
      outside(p) == p <= s.off \/ p > s.off + s.len
      first == s.off + in.offset + 1
      fits  == first + in.w - 1 <= Len(store)
  IN  s # None =>
        /\ s.off >= in.b.off /\ s.off + s.len <= in.b.off + in.b.len
        /\ \A p \in DOMAIN store : outside(p) => text[p] = store[p] /\ copy[p] = store[p]
        /\ \A p \in DOMAIN store :
             ~fits \/ p \notin first..(first + in.w - 1) => after[p] = store[p]
        /\ fits => /\ ReadNumber(after, s, in.w, in.offset, in.little) = value
                   /\ ReadNumber(after, in.b, in.w, in.start + in.offset, in.little) = value
        /\ HexDecode(HexEncode(store)) = store
=============================================================================
