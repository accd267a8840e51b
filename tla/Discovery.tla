------------------------------ MODULE Discovery ------------------------------
(***************************************************************************)
(* The service discovery of exts/jsdp (detail/discovery_service.h): each   *)
(* host asks the others, over multicast, for services by name and with a   *)
(* password, and takes the responses that come until a timeout.  Datagrams *)
(* are lost, doubled and delayed at will: net is the set of those ever     *)
(* sent, and any of them may arrive at any time.                           *)
(*                                                                         *)
(* A hash stands for its password, and what was encrypted with one can be  *)
(* read with it only.  Loopback of multicast is off, as OnBind sets it.    *)
(***************************************************************************)
EXTENDS Naturals, Sequences, FiniteSets, SequencesExt, FiniteSetsExt

CONSTANTS
  Host,        \* the hosts, each with one DiscoveryService
  Service,     \* the services that are joined: records of name and passwd
  Query,       \* what is asked for: records of name and passwd
  Nothing,     \* null, for a name or a password
  MaxId,       \* bound: calls of discover() of each host
  MaxStarts_D  \* bound: calls of start() of each host

ASSUME DiscoveryAssumption ==
  /\ IsFiniteSet(Host) /\ IsFiniteSet(Service) /\ IsFiniteSet(Query)
  /\ MaxId \in [Host -> Nat] /\ MaxStarts_D \in [Host -> Nat]

VARIABLES
  socket,      \* of each host: "off", or whether socket_ is bound
  unsent,      \* of each host: messages that wait for the bind
  id,          \* id_
  services,    \* services_
  callbacks,   \* the ids in callbacks_
  passwords,   \* passwords_, a function of the ids it has
  hash2passwd, \* the passwords whose hashes are in hash2passwd_
  net,         \* every message that was ever sent
  starts_D,    \* calls of start()
  asked,       \* history: what each id of a host asked for
  offered,     \* history: what was joined anywhere since a request was made
  found        \* history: what the callback of each id was given

discoveryVars == <<socket, unsent, id, services, callbacks, passwords, hash2passwd,
                   net, starts_D, asked, offered, found>>

(* The service that stands for the DiscoveryService itself. *)
Jsds == [name |-> "jsds", passwd |-> Nothing]

-----------------------------------------------------------------------------
(* startsWith() and endsWith(), of the key of a service *)
StartsWith(s, name) == name = Nothing \/ s.name = name
EndsWith(s, hash)   == s.passwd \in {Nothing, hash}

(* Mutant: the hash of a service is not looked at. *)
GetServicesOpen(h, name, hash) == {s \in services[h] : StartsWith(s, name)}

GetServices(h, name, hash) ==
  {s \in services[h] : StartsWith(s, name) /\ EndsWith(s, hash)}

(* send() of h: through the queue of the socket until that is bound. *)
SendMessage(h, m) ==
  IF socket[h] = "bound" THEN net' = net \cup {m} /\ UNCHANGED unsent
  ELSE unsent' = [unsent EXCEPT ![h] = @ \cup {m}] /\ UNCHANGED net

(* Histories: h has the services ss now. *)
Offers(h, ss) ==
  offered' = [k \in Host |-> [i \in DOMAIN offered[k] |->
                offered[k][i] \cup {[host |-> h, service |-> s] : s \in ss}]]

-----------------------------------------------------------------------------
(* Mutant: the ids begin anew. *)
StartOver(h) ==
  /\ socket[h] = "off" /\ starts_D[h] < MaxStarts_D[h]
  /\ socket' = [socket EXCEPT ![h] = "binding"]
  /\ starts_D' = [starts_D EXCEPT ![h] = @ + 1]
  /\ id' = [id EXCEPT ![h] = 0]
  /\ asked' = [asked EXCEPT ![h] = <<>>] /\ offered' = [offered EXCEPT ![h] = <<>>]
  /\ found' = [found EXCEPT ![h] = <<>>]
  /\ callbacks' = [callbacks EXCEPT ![h] = {}]
  /\ passwords' = [passwords EXCEPT ![h] = <<>>]
  /\ UNCHANGED <<unsent, services, hash2passwd, net>>

StartService(h) ==
  /\ socket[h] = "off" /\ starts_D[h] < MaxStarts_D[h]
  /\ socket' = [socket EXCEPT ![h] = "binding"]
  /\ starts_D' = [starts_D EXCEPT ![h] = @ + 1]
  /\ UNCHANGED <<unsent, id, services, callbacks, passwords, hash2passwd, net,
                 asked, offered, found>>

(* OnBind, and then OnListening of the socket. *)
OnBind(h) ==
  /\ socket[h] = "binding"
  /\ socket' = [socket EXCEPT ![h] = "bound"]
  /\ services' = [services EXCEPT ![h] = @ \cup {Jsds}]
  /\ Offers(h, {Jsds})
  /\ net' = net \cup unsent[h] /\ unsent' = [unsent EXCEPT ![h] = {}]
  /\ UNCHANGED <<id, callbacks, passwords, hash2passwd, starts_D, asked, found>>

(* stop(), or OnError: OnClose clears the services, and no more.           *)
StopService(h) ==
  /\ socket[h] # "off"
  /\ socket' = [socket EXCEPT ![h] = "off"]
  /\ unsent' = [unsent EXCEPT ![h] = {}]
  /\ services' = [services EXCEPT ![h] = {}]
  /\ UNCHANGED <<id, callbacks, passwords, hash2passwd, net, starts_D, asked,
                 offered, found>>

(* getHash() saves the password, for join() and leave() alike. *)
Saved(h, s) ==
  hash2passwd' = [hash2passwd EXCEPT ![h] = @ \cup ({s.passwd} \ {Nothing})]

JoinService(h, s) ==
  /\ s \notin services[h]
  /\ services' = [services EXCEPT ![h] = @ \cup {s}]
  /\ Saved(h, s)
  /\ Offers(h, {s})
  /\ UNCHANGED <<socket, unsent, id, callbacks, passwords, net, starts_D, asked, found>>

LeaveService(h, s) ==
  /\ services' = [services EXCEPT ![h] = @ \ {s}]
  /\ Saved(h, s)
  /\ UNCHANGED <<socket, unsent, id, callbacks, passwords, net, starts_D, asked,
                 offered, found>>

(* discover() *)
Discover(h, q) ==
  LET i == id[h] + 1
  IN  /\ socket[h] # "off" /\ i <= MaxId[h]
      /\ id' = [id EXCEPT ![h] = i]
      /\ passwords' = [passwords EXCEPT ![h] =
           [j \in DOMAIN passwords[h] \cup {i} |->
              IF j = i THEN q.passwd ELSE passwords[h][j]]]
      /\ callbacks' = [callbacks EXCEPT ![h] = @ \cup {i}]
      /\ SendMessage(h, [is |-> "discover", to |-> Nothing, from |-> h, id |-> i,
                         name |-> q.name, hash |-> q.passwd])
      /\ asked' = [asked EXCEPT ![h] = Append(@, q)]
      /\ offered' = [offered EXCEPT ![h] = Append(@,
           UNION {{[host |-> k, service |-> s] : s \in services[k]} : k \in Host})]
      /\ found' = [found EXCEPT ![h] = Append(@, {})]
      /\ UNCHANGED <<socket, services, hash2passwd, starts_D>>

(* OnMessage of a request: without the password of the hash there is no    *)
(* response, and with it the response is encrypted.                        *)
OnDiscover(h, m) ==
  /\ socket[h] = "bound" /\ m.is = "discover" /\ m.from # h
  /\ m.hash \in hash2passwd[h] \cup {Nothing}
  /\ SendMessage(h, [is |-> "result", to |-> m.from, from |-> h, id |-> m.id,
                     key |-> m.hash, services |-> GetServices(h, m.name, m.hash)])
  /\ UNCHANGED <<socket, id, services, callbacks, passwords, hash2passwd, starts_D,
                 asked, offered, found>>

(* OnMessage of a response: the password of its id decides how it is read. *)
HandleResult(h, m) ==
  LET pwd == IF m.id \in DOMAIN passwords[h] THEN passwords[h][m.id] ELSE Nothing
  IN  /\ socket[h] = "bound" /\ m.is = "result" /\ m.to = h
      /\ m.key = pwd /\ m.id \in callbacks[h]
      /\ found' = [found EXCEPT ![h][m.id] = @ \cup
           {[host |-> m.from, service |-> s] : s \in m.services}]
      /\ UNCHANGED <<socket, unsent, id, services, callbacks, passwords,
                     hash2passwd, net, starts_D, asked, offered>>

OnTimeout(h, i) ==
  /\ i \in callbacks[h]
  /\ callbacks' = [callbacks EXCEPT ![h] = @ \ {i}]
  /\ passwords' = [passwords EXCEPT ![h] = Restrict(@, DOMAIN @ \ {i})]
  /\ UNCHANGED <<socket, unsent, id, services, hash2passwd, net, starts_D, asked,
                 offered, found>>

DiscoveryInit ==
  /\ socket = [h \in Host |-> "off"] /\ unsent = [h \in Host |-> {}]
  /\ id = [h \in Host |-> 0] /\ services = [h \in Host |-> {}]
  /\ callbacks = [h \in Host |-> {}] /\ passwords = [h \in Host |-> <<>>]
  /\ hash2passwd = [h \in Host |-> {}] /\ net = {}
  /\ starts_D = [h \in Host |-> 0] /\ asked = [h \in Host |-> <<>>]
  /\ offered = [h \in Host |-> <<>>] /\ found = [h \in Host |-> <<>>]

DiscoveryNext ==
  \E h \in Host :
    \/ StartService(h) \/ OnBind(h) \/ StopService(h)
    \/ \E s \in Service : JoinService(h, s) \/ LeaveService(h, s)
    \/ \E q \in Query : Discover(h, q)
    \/ \E m \in net : OnDiscover(h, m) \/ HandleResult(h, m)
    \/ \E i \in callbacks[h] : OnTimeout(h, i)

-----------------------------------------------------------------------------
(* What a request finds was joined on another host at some time since the  *)
(* request was made, has the name that was asked for, and either no        *)
(* password or the one that was given, however often datagrams are lost,   *)
(* doubled or delayed and hosts stopped and started again.                 *)
DiscoversMatching ==
  \A h \in Host : \A i \in DOMAIN found[h] : \A f \in found[h][i] :
    LET q == asked[h][i]
    IN  /\ f.host # h /\ f \in offered[h][i]
        /\ q.name \in {Nothing, f.service.name}
        /\ f.service.passwd \in {Nothing, q.passwd}
=============================================================================
