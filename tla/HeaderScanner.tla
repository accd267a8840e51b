---------------------------- MODULE HeaderScanner ----------------------------
(***************************************************************************)
(* scanHeaderField() of http/header_scanner.h, the automaton re2c makes of *)
(* header_scanner.re: a header name goes in as it came over the wire and   *)
(* comes out as the symbol of a known header or in lower case.  The names  *)
(* the automaton knows are written as its branches factor them.  Upper and *)
(* lower case are the same to it: names are given in lower case here.      *)
(***************************************************************************)
EXTENDS Naturals, Sequences, FiniteSetsExt, SequencesExt

(* The branches by their first letters. *)
OriginOverwrite    == {"origin", "overwrite"}
SecWebSocket(w)    == "sec-websocket-" \o w
SecWebSocketVP     == {SecWebSocket(w) : w \in {"version", "protocol"}}
SecWebSocketAEK    == {SecWebSocket(w) : w \in {"accept", "extensions", "key"}}
ServerStatus       == {"set-cookie", "server", "status-uri"}
RangeReferer       == {"range", "retry-after", "referer"}
MaxForwards        == {"max-forwards"}
If(w)              == "if" \o w
IfMatchModified    == {If(w) : w \in {"", "-match", "-modified-since"}}
IfNoneRange        == {If(w) : w \in {"-none-match", "-range"}}
IfUnmodified       == {If("-unmodified-since")}
HostFrom           == {"host", "from"}
LastLink           == {"last-modified", "link"}
LocationLock       == {"location", "lock-token"}
ExpectETag         == {"expires", "expect", "etag"}
AllowAge           == {"allow", "authorization", "age"}
AccessControl(w)   == "access-control-" \o w
AccessRequest      == {AccessControl(w) : w \in {"request-method", "request-headers"}}
AccessExposeMaxAge == {AccessControl(w) : w \in {"expose-headers", "max-age"}}
AccessAllow(w)     == AccessControl("allow-" \o w)
AccessAllowOC      == {AccessAllow(w) : w \in {"origin", "credentials"}}
AccessAllowMH      == {AccessAllow(w) : w \in {"methods", "headers"}}
Accept(w)          == "accept" \o w
AcceptCE           == {Accept(w) : w \in {"", "-charset", "-encoding"}}
AcceptLR           == {Accept(w) : w \in {"-language", "-ranges"}}
WarningWWW         == {"warning", "www-authenticate"}
ViaUserAgent       == {"via", "vary", "upgrade", "user-agent"}
Transfer           == {"te", "trailer", "transfer-encoding"}
Timeout            == {"timeout"}
ProxyAuth(w)       == "proxy-auth" \o w
ProxyNames         == {ProxyAuth(w) : w \in {"enticate", "orization"}}
Pragma             == {"pragma"}
DateDepth          == {"dav", "date", "destination", "depth"}
CacheCookie        == {"cache-control", "cookie"}
Connection         == {"connection"}
Content(w)         == "content-" \o w
ContentTRM         == {Content(w) : w \in {"type", "range", "md5"}}
ContentL           == {Content(w) : w \in {"language", "length"}}
ContentLE          == {Content(w) : w \in {"location", "encoding"}}

Known ==
  UNION {OriginOverwrite, SecWebSocketVP, SecWebSocketAEK, ServerStatus,
         RangeReferer, MaxForwards, IfMatchModified, IfNoneRange,
         IfUnmodified, HostFrom, LastLink, LocationLock, ExpectETag,
         AllowAge, AccessRequest, AccessExposeMaxAge, AccessAllowOC,
         AccessAllowMH, AcceptCE, AcceptLR, WarningWWW, ViaUserAgent,
         Transfer, Timeout, ProxyNames, Pragma, DateDepth, CacheCookie,
         Connection, ContentTRM, ContentL, ContentLE}

-----------------------------------------------------------------------------
(* The automaton follows the name letter by letter for as long as some     *)
(* known name goes on that way.                                            *)
Upto(name, i) == SubSeq(name, 1, i)
Live(w) == \E k \in Known : IsPrefix(w, k)
Followed(name) == Max({i \in 0..Len(name) : Live(Upto(name, i))})

(* Mutant: it goes back to the first known name it came by. *)
ScanFirst(name) ==
  LET accepted == {i \in 1..Followed(name) : Upto(name, i) \in Known}
  IN  IF accepted = {} THEN name ELSE Upto(name, Min(accepted))

(* Where it can go no further it takes the last known name it came by, as  *)
(* yyaccept and the marker remember it, whatever follows and however long  *)
(* the name is; without one the name itself is the result.                 *)
Scan(name) ==
  LET accepted == {i \in 1..Followed(name) : Upto(name, i) \in Known}
  IN  IF accepted = {} THEN name ELSE Upto(name, Max(accepted))
=============================================================================
