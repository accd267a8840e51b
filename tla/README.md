# A TLA+ verification of libnode

libnode is a C++ implementation of Node.js on top of libuv. It is single threaded but
for the message queue and the thread pool of `Async`: an event loop calls the handlers
of the library, which emit events to listeners of the application, which call the
library back. What is hard about it is not parallelism but *order*: in which order libuv
delivers completions, what a listener does in the middle of a handler, what was deferred
to the next tick and finds another world when it runs.

`libj` (strings, arrays, maps, smart pointers, threads), libuv and http_parser are not
part of the repository and are modelled from how the code uses them. The build that is
modelled has `LIBNODE_USE_SP`, `LIBNODE_REMOVE_LISTENER` and, which is not the default
but which `MessageQueue`, `Async` and the jsonrpc extension need, `LIBNODE_USE_THREAD`;
assertions are counted when they fail and survived, as in a release build.

- [Inventory](#inventory)
- [Modules](#modules)
- [How the code is translated](#how-the-code-is-translated)
- [Runs](#runs)
- [Fairness](#fairness)
- [Where the code does not do what it says](#where-the-code-does-not-do-what-it-says)
- [Proofs](#proofs)
- [Not modelled](#not-modelled)
- [What is left to do](#what-is-left-to-do)

To check a run: `tlc -config <cfg> <module>`; the proofs: `tlapm <module>.tla`.

## Inventory

Sources are below `src/include/libnode/detail` unless given.

| component | source | state | operations | interacts with |
|---|---|---|---|---|
| net::Socket | `net/socket.h` | flags, uv handle, pending writes, connect queue, timer | create, connect, write, end, destroy, destroySoon, pause, resume, setTimeout; callbacks OnRead, AfterConnect, AfterWrite, AfterShutdown, AfterLookup; ticks EmitError, EmitErrorAndDestroy, EmitClose | libuv streams, nextTick, dns, timers, net::Server, http |
| net::Server | `net/server.h` | uv handle, connections, maxConnections | listen, close, OnConnection, RemoveConnection, EmitClose | Socket, nextTick |
| EventEmitter | `events/event_emitter.h` | listeners by event | on, once, removeListener, removeAllListeners, emit | everything |
| process::nextTick, timers | `src/src/process.cpp`, `src/src/timer.cpp`, `uv/timer.h`, `uv/handle.h` | queue of callbacks, uv timers | nextTick, setTimeout, setInterval, clear | everything |
| MessageQueue, Async | `message_queue.h`, `async.h` | open flag, concurrent queue, callbacks by task id | open, close, postMessage (any thread), receive; exec | threads, uv_async |
| http server | `http/server.h`, `http/incoming_message_list.h`, `http/outgoing_message_list.h` | requests and responses queued on a connection | parser and socket listeners, OutgoingOnFinish | Socket, Parser, messages |
| http messages | `http/outgoing_message.h`, `http/incoming_message.h`, `http/impl/*` | output buffers, flags, pendings | write, end, flush, assignSocket, pause, resume | Socket, Agent |
| http parser | `http/parser.h`, `http/header_scanner.h` (generated) | the message being parsed | http_parser callbacks | messages |
| http agent | `http/agent.h` | sockets and requests by host | addRequest, removeSocket, free | Socket, client requests |
| fs | `fs.h`, `src/src/fs.cpp` | chains of uv_fs requests | readFile, writeFile, appendFile, truncate, realpath | libuv |
| dgram::Socket | `dgram/socket.h` | bind state, send queue | bind, send, close | dns, libuv |
| dns | `dns.h` | none | lookup | nextTick, libuv |
| FreeList | `free_list.h` | free objects | alloc, free | http server |
| jsdp | `src/exts/jsdp`: `detail/discovery_service.h` | services, requests under way, hashes | start, stop, join, leave, discover | dgram |
| jsonrpc | `src/exts/jsonrpc`: `detail/service.h` | methods, a message queue | start, stop, addMethod, postRequest; Respond | MessageQueue |
| pure code | `src/src/path.cpp`, `url.cpp`, `querystring.cpp`, `util.cpp`, `buffer.h`, `string_decoder.h` | none | | |
| crypto, os, bridge | `crypto/`, `os.h`, `bridge/` | none | | |

What is hard in each, and what makes it correct:

| component | hard behaviours | correct when |
|---|---|---|
| net::Socket | completions of requests cancelled by `uv_close` come after the destruction; writes and `end()` made while connecting; `close` deferred to the next tick; a lookup that answers late; listeners that call back in the middle of a flush | destroyed once, announced by one `close` after any `error`; inert from then on; writes reach libuv in order and none is lost; `end()` and `destroySoon()` take effect; nothing uses it when it is freed |
| net::Server | `close()` races with the close of its last socket; a connection listener may destroy the socket or close the server; everything is deferred | the count is that of the sockets alive; `close` comes when the server is drained, does come, and is the last event |
| EventEmitter | listeners register, remove and emit while `emit()` walks the list | the walk calls the listeners there were when it began, once each; a once() listener is called once |
| nextTick | one queue for all users, and a timer per call: the timer of one user runs the callbacks of another | callbacks run in order, each once |
| MessageQueue | `postMessage()` on any thread against `close()`; sends coalesce; `close()` in a listener | no wakeup missed; nothing lost without a race; silent when closed |
| Async | a result comes before its callback is registered; `close()` while tasks run | each callback once, and for every task that ran |
| http server | pipelined requests answered in any order; the response that finishes passes the socket on; the peer ends or the socket dies in between | responses in the order of the requests, as the application said them; none stuck; each answers its own request |
| http messages in | pause and resume; messages recycled between connections | each request hears its own body, in order, nothing while paused, `end` once; none freed while used |
| http client, agent | sockets handed from one request to the next while they may be closing; limits per host | every request gets a socket, and a response, an error or a close |
| http parser | input split at any byte; names that begin with another name | fields and values match, each under its own name |
| timers | a timer that is due while the socket rearms, switches off or is destroyed; a Timer is deleted by libuv, which nobody is told | no deleted Timer is used; no early or late timeout; one timer per socket |
| fs | chains of requests that fail anywhere; calls that overlap; partial writes and short reads | the file is closed on every path, the callback is called once, the answer is true |
| realpath | links in circles; a cache shared by calls that overlap | the answer is where the path leads |
| dgram::Socket | send before bind has finished; close with lookups under way; a bind that fails | each datagram leaves at most once, in order, and is answered |
| jsdp | datagrams lost, doubled, late; stopped and started again | what is found was there and matches what was asked for |
| jsonrpc | requests in the queue when the service stops; a method that stops it; a Respond used twice, never, or again by those who hear its answer | one answer for each request that wants one |
| pure code | buffers as windows on a shared store; rooms counted by hand | decoding undoes encoding; a text or a copy writes nothing outside of the window, a number nothing but its own bytes, which may lie behind it |

## Modules

| module | models | built on |
|---|---|---|
| `Connection` | abstract: what a socket promises to the code that uses it. One variable, `life`: open, destroyed, closed | |
| `NetSocket` | `net::Socket`, its libuv requests and its deferred callbacks; implements `Connection` | `Connection` |
| `NetSocketProofs` | theorems about `NetSocket` that hold for all calls | `NetSocket` |
| `NetSocketSafety` | theorems about `NetSocket` for applications that let a connection end before the next; the refinement of `Connection` | `NetSocketProofs` |
| `NetServer` | `net::Server`; its sockets are taken at the promise of `Connection` | the states of `Connection` |
| `NetServerProofs` | theorems about `NetServer` | `NetServer` |
| `EventEmitter` | `events::EventEmitter` with re-entrant `emit()` | |
| `MessageQueue` | `MessageQueue` | |
| `Async` | `Async`: executor, callbacks by id | extends `MessageQueue` |
| `Timers` | `setTimeout()`, `setInterval()`, `uv::Timer` and `uv::Handle`, the timeout of `net::Socket` | |
| `LoopProofs` | theorems about `MessageQueue`, `Async`, `Timers` and `FileChains` | `Async`, `Timers`, `FileChains` |
| `HttpServer` | one connection of `http::Server`, with the responses (the server half of `OutgoingMessage`) | |
| `HttpServerProofs` | theorems about `HttpServer` | `HttpServer` |
| `IncomingMessage` | the body half of `http::Parser`, `IncomingMessage`, the `FreeList` that recycles it, `~ServerRequest` | |
| `EventProofs` | theorems about `IncomingMessage` and `EventEmitter` | `IncomingMessage`, `EventEmitter` |
| `HttpAgent` | `http::Agent`, `ClientRequest` and the client half of `OutgoingMessage` | |
| `AgentProofs` | theorems about `HttpAgent` | `HttpAgent` |
| `HeaderScanner` | the automaton of `http/header_scanner.h` | |
| `HeaderParser` | the header half of `http::Parser`, `addHeaderLine()` of `IncomingMessage` | extends `HeaderScanner` |
| `JsonRpc` | the service of the jsonrpc extension | |
| `PureCode` | path, querystring, util, url and Buffer, as functions | |
| `DgramSocket` | `dgram::Socket` with `dns::lookup()` | |
| `Discovery` | the service of the jsdp extension, on several hosts, and the network between them | |
| `ServicesProofs` | theorems about `JsonRpc`, `Discovery` and `DgramSocket` | these three |
| `FileChains` | `readFile()`, `writeFile()`, `appendFile()`, `truncate()` of `fs.h` | |
| `Realpath` | `realpath()` of `fs.h`, with a shared cache | |
| `MCNetSocket`, `MCNetServer`, `MCHttpServer`, `MCHttpAgent`, `MCMessageQueue` | instances for TLC: which calls the application makes, which requests there are | the module each is named after |
| `MCAsync` | instance: a behaviour is of `Async`, of a `MessageQueue` by itself, or of `Timers` | |
| `MCIncomingMessage` | instance: of `IncomingMessage` or of `EventEmitter` | |
| `MCProtocols` | instance: of `HeaderParser`, of `JsonRpc`, or one input of `PureCode` | |
| `MCRequests` | instance: of `DgramSocket`, `Discovery`, `FileChains` or `Realpath` | |

The last four put modules that share no state into one run: the first action of a
behaviour chooses the module, and the others stay in their initial states. It is the
union of their state spaces that is explored, not the product.

`map` in `PROJECT.json` gives the lines each definition stands for.

## How the code is translated

**Handlers as operators.** libnode calls its handlers from each other: a `write()` that
fails calls `destroy()`, `AfterConnect` flushes, emits and calls `end()`. In
`NetSocket`, `NetServer`, `HttpServer`, `HttpAgent` and `Timers` a handler is therefore
an operator from a state to a state (a record with a field per variable, or the one
variable `conn`), and the actions are thin: a guard that says when libuv or the
application may call, and the operator. An early return is the `THEN s` of an `IF`; the
order of the assignments is the nesting.

**Listeners.** Where the code emits an event, the application may call the library back.
`Emit(s, ev, c)` applies the call `c` of a listener at the point of the emit, in the
middle of the handler; `c` ranges over `Reactions`. A listener makes one call for each
event, which with the repetition of events gives every pair of reactions to different
events; `EventEmitter`, `MessageQueue` and `IncomingMessage`, where nesting is the
point, instead keep frames, and a listener takes as many steps as it likes.

**nextTick.** `process::nextTick` pushes a function to one global queue and starts a
timer of 1 ms; a timer that fires runs as many functions as are queued at that moment.
`ticks` is the part of the queue that belongs to the component, `FireNextTick` takes the
snapshot (`draining`), `NextTickCallback` runs one. Because every call of nextTick by
anyone starts a timer, `ticks` may run at any turn of the loop. One detail of that
matters to the socket: a timer of another user may be due between `uv_close()` and the
completions it cancels. `NetSocket` lets it, and remembers in `crossed` that it has
happened.

**libuv.** A request in flight is a member of a set (`connects`, `writes`, `shutdowns`),
completed by an action with any outcome libuv can report; writes of a handle complete in
order, a request of a closed handle only with an error (or, for writes, with the success
that was due already), a shutdown after the writes.

**Assertions** are recorded in `broken` when they fail, and the handler goes on.

**NetSocket.** `flags` is `flags_` as a set of names; `connQ` is `connectBufQueue_` with
`connectQueueSize_` computed from it, on `SizeMax + 1` values; `selfRef` is the
OnDestroy listener, which holds the last reference to the socket; `opened` numbers the
uv handles, so that a late answer can be told from an answer of the present one.
`issued`, `sent`, `destroys` and `heard` are history.

**NetServer.** `life` of each client is `Connection`'s; `SocketDies` and the application
may destroy a socket at any time, its tick emits `close`, and `RemoveConnection` runs
first, as it was registered first.

**EventEmitter.** A frame for each `emit()` under way, with the index and the length
read when the walk began; lists are objects, so that `removeAllListeners` detaches a
list that a frame still walks. The habit of an execution says which disturbing thing its
listeners do, and each property names the habits under which the code keeps it:

| habit | `EachCalledOnce` | `OnceIsOnce` |
|---|---|---|
| none of these | holds | holds |
| duplicates: the same function registered twice | holds | no: the removal of a Once compares functions and can hit the other entry |
| clears: removeAllListeners of the list walked | no: the rest of the walk is of the old list | holds, but for a second call of the same walk |
| removes: removeListener of a listener of the walk | no: one is skipped, and the list gets shorter than the length read | removed after it was called, but possibly called again |
| reenters: emit of the same event while the walk has a Once | no | removed after it was called, but called twice: it is removed after it returns |

**MessageQueue.** `postMessage()` is three actions (test, offer, send); `open_` is not
atomic, and a stale read of it is the same as a long pause after the test.
`emitMessage()` is a frame; `close()` in a listener pushes another.

**Async.** `exec()` is three actions (id, map, submit) that run on the loop thread or in
a task; the threads of the executor are the posters of `MessageQueue`; `Shutdown` and
`Join` are the two halves of `close()`: the executor is destroyed, which waits for its
threads, then the queue is closed.

**Timers.** A Timer is started, closed (`uv_close()` has been called) or deleted (libuv
has called `onClose`, which frees it); whatever keeps its number may use it after that,
which sets `misused`. `quiet` is the time since the socket did something, so that a
timeout that comes early is seen. A listener of "timeout" does one of `Reactions` before
the timer's callback closes the timer.

**HttpServer.** The data are numbered parts of a response (interim response, header, the
pieces of each chunk, last chunk); `wire` is what was written to the socket, by
response, and `said` the order in which the application said it. All writes to a
response that does not own the socket go to `output`.

**IncomingMessage.** Each request has listeners named after it; a recycled message keeps
the listeners nobody removes, as `setNewSocket()` does. The events a listener gets are
kept with the request whose parser caused them. `onBody()` pushes constant buffers to
`pendings_` and `EmitPending` takes them out with `toPtr<Buffer>`, a conversion of libj:
with `Nulls` each of them may give null (`ToPtr`), which the code takes for the end;
`cut` remembers which requests lost a chunk so.

**HttpAgent.** Each action is a call of the application, an event of a socket, or one
entry of the queue of nextTick, with everything it calls: the chain from `SocketOnData`
over the parser's callbacks, the `end` of the response, `ResponseOnEnd`, `free`,
`removeSocket` to the next request's `onSocket` is one step, as it is in the code. `res`
is what the request knows of its response; `dead` marks a request that was handed a
destroyed socket. `Finish` is `parser->finish()` of the three listeners of a socket that
goes: a response without a length is complete then, one with a length is cut off
(`cut`). A pending chunk may be null when it is taken out, as in `IncomingMessage`.

**HeaderScanner and HeaderParser.** The states of the generated scanner are the prefixes
of the names it knows; a definition stands for the names of one stretch of its branches.
`Scan(name)` follows the name for as long as some known name goes on that way, and
returns the last known name it came by. The values are sequences of pieces, as
http_parser hands them over when a read ends within one.

**JsonRpc.** A request is what the checks of the code can tell apart: whether it parses,
its version, the presence and the type of `id`, `method` and `params`, and whether these
fit the method. They are checked in the order of the code, since the order decides which
error is reported. `Respond` begins the emission of an answer and `SetEmitted` ends it;
in between the listeners may use a Respond again, the same one too, `MaxNested` deep.

**PureCode.** The functions of the code over sequences of characters, with folds for its
loops and the room and index computations it makes; `Input` are all short inputs, and
each law compares the function with what it is for.

**DgramSocket.** The lookup of a numeric address is a tick, in order with the other
ticks; that of a name is a member of `names`, answered at any time, in any order. A send
is in one of: a lookup, `sendQueue`, `flying`, answered.

**Discovery.** `net` is the set of all messages that were ever sent; a delivery takes
nothing out of it, so that loss, duplication, delay and reordering need no actions of
their own. Hosts that stop keep their id counter, as the object does.

**FileChains and Realpath.** `call[c].at` is the request that a call waits for; each
callback is an action that looks at its result and makes the next request. A request
for some bytes may be served in part, reads and writes alike. The file is shared by all
calls. `Realpath`'s reference is `Follow`, which walks the tree with
neither cache nor requests.

## Runs

| run | instance | shows |
|---|---|---|
| `socket` | accepted or connecting; connected a second time once settled; 3 writes per connection, buffers of length 0 and 1; every call and every failure; fair | `PendingMatches` (the counter `destroySoon()` decides on), `CloseOnceAfterError`, `WritesInOrder` (and none lost), `NoUseAfterFree`, `DestroyedIsFinal`; `KeepsPromise`: the socket implements `Connection` with its liveness; `PutOffTakesEffect` |
| `socket_retry` | the application connects again from any listener | a violation, see below |
| `server` | 3 clients, a limit of 2, 2 calls of listen(), one accepted close(), fair | `ConnectionsMatch`, `CloseOnlyWhenDrained`, `CloseIsLast`, `NoUseAfterFree`, `DrainedCloses` |
| `async` | Async: 2 threads, 3 calls of exec(); MessageQueue: the same threads post 2 messages each, opened twice; Timers: 3 timers, delays 0 (taken for 1), 2 and 3 (over `TIMEOUT_MAX`, 2 here); fair | `QuietIsLossless`, `SilentWhenClosed` (queue), `CallbacksOnce` (Async), `TimersSound`; `LoopDelivers`: every message and every callback arrives, every timer runs or is cleared and is deleted |
| `mq_race` | 1 poster | a violation, see below |
| `http` | 3 requests (one kind with a body, one HEAD that expects 100-continue and closes), 1 chunk each beside the end, strings and buffers, chunked, with a length, with `Connection: close` | `InRequestOrder`, `NoneStuck`, `AsSaidUnlessDoubled` |
| `http_strings` | 2 requests, strings, chunked | a violation, see below |
| `incoming` | 2 requests of 2 chunks on 2 connections, a free list of 2, 2 pauses, answered after their end, pending chunks that may be null when taken out; EventEmitter: 2 events, one of them newListener, 3 functions, 3 registrations, 3 emits deep, every habit | `FreeIsUnused`, `DataInOrder`, `SilentWhilePaused` (messages), `EachCalledOnce`, `OnceIsOnce` (emitter) |
| `incoming_unread` | the requests with 1 chunk and 1 pause; they may be answered earlier | a violation, see below |
| `client` | 3 requests to a host with 1 socket; one thing out of the ordinary in a behaviour: an abort, a pause, a failure, an upgrade, an illegal response; whatever fails or ends, responses are cut off by it or complete, and pending chunks may be null | `WaitingMeansFull`, `OneEach`, `ToldOnce`, `RequestsSettle` |
| `protocols` | 3 header lines or trailers of 6 names, values in 2 pieces, at most 2 headers kept; 2 JSON-RPC requests, the first of any shape that the checks tell apart, the second one that is called, a notification or refused; 2 starts, answers given within the emission of one another, 2 deep; paths of up to 5 characters, texts of up to 4 | `HeadersAsSent`, `AnsweredAsAsked`, `RequestsSettle` (of jsonrpc), `PureLaws` |
| `requests` | 3 datagrams, 2 binds; 2 hosts, 2 services of which one has a password, 1 request of 3 kinds, a restart; 2 overlapping calls on a file of 0, 1 or 3 bytes or none, 2 failures, partial writes or short reads; 2 calls of realpath() in 3 trees, 1 failure | `DatagramsOnce`, `DiscoversMatching`, `AnswersHonest`, `RealpathAgrees`; `CallsSettle`: datagrams are answered, calls on files are answered and their descriptors given back, walks end |

**The bounds.** They are named in the modules, `Max...`. Three writes are a queue with a
first, a middle and a last buffer, of which the middle one may fail; buffers of length 0
are what tells the size of the queue from its length. Two handles are enough for
everything that confuses an old one with a new one. Three clients against a limit of two
fill the server while a fourth event, the close, is pending. Three registrations are a
list with something before and after the listener that disturbs it; two events are
needed because registering emits newListener. Two posters are enough for a message to be
taken by the receive of another's send. Three requests of a connection are one that has
the socket and two that wait, so that the one after the next can be finished first. Two
messages that come in, on two connections or on one, are one that is recycled and one
that gets it. Three requests of the agent are one that has the socket, one that is
handed it, and one that still waits and must not be forgotten. Two answers, one within
the emission of the other, are the fewest that use a Respond before it is marked. Three
timers are one that was replaced, the one that replaced it, and one of the application.
Three header lines are two of the same name with another between or after them, and
trailers after headers; the limit of two headers is one below. Two calls on a file are
enough for every pair of requests to interleave. The trees of `Realpath` hold a link
behind a link, a relative link, a circle of one and of two, and a link that leads
nowhere. `FireNextTick` and listeners are not bounded. `CHECK_DEADLOCK FALSE` is there
because every system may come to rest: the application need not call again, and the
histories are bounded.

What the application does not do in the instances: it does not lower `maxConnections`
below the connections there are (nothing is closed then, and nothing says it should be);
in `socket` and `server` it uses an object again only after its last close; in `async`
the listeners of "timeout" always do something about the timer, and a timer that has run
is not cleared; those limits are where the violations below begin.

## Fairness

`NetSocket`: libuv completes each request it has accepted (a failed or cancelled one
with an error), `dns::lookup` answers, and the timers of nextTick fire, because `uv_run`
keeps turning while handles are active. Nothing is assumed of the peer or the
application: neither has to end, read or call. `NetServer`: timers fire; sockets need
not die. `MessageQueue`: the loop turns, listeners return, and a thread within
`postMessage()` is scheduled until it returns; nobody has to post, open or close.
`Async`: the same, tasks return, and threads take waiting tasks. `Timers`: time passes,
a timer that is due runs, libuv tells of closed handles; the application has to clear
nothing. `HttpAgent`: one weak fairness condition, on the disjunction of what goes on by
itself: ticks, what libuv has to tell of a socket (its connection, its failure or the
answer of the server, one of which comes) and paused responses, which the application
resumes. This is enough because requests and oddities are bounded, so that every
behaviour is finite but for stuttering: nothing can be put off for ever by something
else. `JsonRpc`: the loop delivers what is posted and listeners return; a method that
took a Respond need not use it. `MCRequests`: libuv serves each request and tells of it, one condition for each
call, and the ticks are called. `http`, `incoming` and jsdp check safety only: what the
network does with a discovery is not up to the code.

## Where the code does not do what it says

Runs that are expected to fail, each a finding in `PROJECT.json`:

- `socket_retry`, `net/socket.h:932`: OnDestroy asserts that there is no handle, but
  `connect()` called between `destroy()` and the tick has installed one.
- `mq_race`, `message_queue.h:32`: `open()` asserts an empty queue; a thread that tested
  `open_` before `close()` offers after it.
- `http_strings`, `http/outgoing_message.h:485`: `buffer()` joins a string to the last
  one and pushes it too. `AsSaidUnlessDoubled` therefore excepts those responses.
- `incoming_unread`, `http/incoming_message.h:270`: a request that is answered before
  its end leaves its parser feeding a message that was recycled.

What was met on the way and has no run of its own. Where a constant is named, TLC finds
it with that constant changed; the rest is in the models, and the properties say where
they make room for it.

- *Sockets.* `resumeAfterEof` among the `Calls` of `NetSocket`: `resume()` after the end
  of the stream, while writes keep the socket open, reports the end again and fails the
  assertion of `net/socket.h:642`. `NoUseAfterFree` is claimed up to `crossed`:
  OnDestroy, run by the timer of another user of nextTick, removes the last reference
  before libuv has delivered the cancelled requests, which use a raw `Socket*` (line
  685). A socket connected again is not held by any listener of its own: the listener
  for OnDestroy is registered when it is created, and gone after its first close.
- *Servers.* `relisten` among the `Calls` of `NetServer` refutes `AssertionsHold`
  (`net/server.h:334`); `closeIdle`, a close() without a handle, detaches all listeners
  (line 100) and refutes `NoUseAfterFree` and `DrainedCloses`.
- *Emitters.* A listener that removes one the walk has called, or is about to call,
  makes the walk skip another and read past the end: habit `removes`.
- *Timers.* `timer_` is not reset when the timer of a socket runs (`net/socket.h:618`).
  `"nothing"` among `Reactions`: a listener of "timeout" that neither destroys the
  socket, nor switches the timeout off or on again, nor makes the socket active, leaves
  `timer_` pointing to a Timer that libuv deletes, and the next `active()`,
  `setTimeout()` or `destroy()` closes it once more. `ClearsLate`: `clearTimeout()` of a
  timer that has run does the same. `setTimeout()` of a socket that is destroyed, which
  nothing forbids, starts a timer that holds a raw `Socket*`. http::Server's
  SocketOnTimeout takes the message of the parser's last request, which may be recycled
  by then (`http/server.h:129`).
- *http server.* After `abortIncoming()` has taken the requests away, a response that is
  ended by a listener of `aborted` or `close` finds none (`http/server.h:301`):
  `InRequestOrder` is claimed up to the abort. `send()` puts the header before the
  interim response that is still buffered (`http/outgoing_message.h:417`).
- *http messages.* A recycled message keeps its `close` listeners (removed only by
  `abortIncoming()`, `http/server.h:82`), which then get the `close` of a later request.
  A header name that is split over two reads is taken for two fields
  (`http/parser.h:131`, `HeaderFieldSplit`), and a name that the scanner does not know
  but that begins with one it knows (`accept-patch`) is taken for that one:
  `HeadersAsSent` excepts both. What `onBody()`
  pushed to `pendings_` as a `Buffer::CPtr` (`http/parser.h:306`) is taken out with
  `toPtr<Buffer>` (`http/incoming_message.h:265`), where every other place takes a
  received buffer with `toCPtr` or `getCPtr`. libj is not in the repository; if it gives
  null, the chunk is lost and passes for the end of the body, while the rest of it is
  still pending. The models allow both outcomes: `DataInOrder` claims for that request
  the data before the null and the one end, and nothing for requests that get the same
  message afterwards; with `ReadsAll` and `Nulls` in the constants of `incoming_unread`,
  TLC finds the assertion of line 270 fail.
- *http client.* An abort in the `end` listener, or a keep-alive response that the peer
  cuts off, frees the socket inside its own destruction: it is handed to the next
  request that waits, which never hears anything again (`http/agent.h:169`; the field
  `dead`, excepted by `RequestsSettle`). A response that was read whole in one read
  leaves its parser with the socket until the next read or close, because `res` is
  fetched before the parser runs. Only the application holds a reference to its
  ClientRequest: the models assume that it does.
- *dgram.* `AfterSend` asserts that the status is 0 and otherwise tells the callback
  that all was sent: a datagram that libuv could not send, or had in hand at the close,
  stops a debug build and passes for sent in a release build (`AfterSend`).
- *jsdp.* `stop()` drops its reference to the socket before the tick of its close has
  run. `hash2passwd_` is never cleared, and `leave()` saves the hash of the service it
  removes, so that a host can answer for passwords it no longer has a service for (it
  then finds none). The names of services are matched by the beginnings of keys, so that
  a name with ':' in it can match another.
- *jsonrpc.* `result()` and `error()` emit the answer before they set `emitted_`
  (`detail/service.h:132`, 142, 170, 180): a response listener or callback that uses the
  same Respond again answers the request twice. `AnsweredAsAsked` allows one more answer
  for each such use (`again`), and for no other.
- *fs.* `AfterReadInReadFile` drops the number of bytes read (`fs.h:585`): after a short
  read the callback gets the whole buffer, and no error; `AnswersHonest` excepts it. A
  write that was partial is continued at the right place of the file with the
  beginning of the buffer, because `write()` passes the offset on but not to libuv's
  buffer: after it the content is not what was asked for. `truncate()` opens with a flag
  that empties the file, so that what remains are zeros; and the error of its
  `ftruncate()` is hidden by the success of `close()`. The room of `readFile()` is that
  of the stat before. `writeAll` goes on for ever if 0 bytes are written.
- *realpath.* `AfterReadlinkInRealpath` passes its own arguments on, in which the base
  is missing, so that what it learns goes to the cache under null. Links seen before are
  cached with the target of the link and not where it leads: a later call with the same
  cache may answer with a path that is a link itself (`cached`).
- *Pure code.* `percentEncode()` counts 5 for an escape of 3 characters, so that the
  room runs out and the output is cut (`TextLaws`). `percentDecode()` takes the end of the
  text for the second digit of a "%" that has only one, and goes on behind it
  (`util.cpp:302`); what `percentEncode()` has cut can be such a text. Numbers are held
  back by the store of a buffer and not by its slice (`buffer.h:236`), so that one written
  near the end of a slice changes what lies behind it: `BufferLaws` claims of numbers only
  that they change their own bytes. A key of a query goes up to the last `=` of its pair.

## Proofs

Every theorem holds for every value of the constants, from the assumptions the modules
name (`CallsAssumption`, `BoundsAssumption`, `ClientsAssumption`, `TimersAssumption`,
`DiscoveryAssumption` and so on) and the conditions below.

| theorem | says | condition |
|---|---|---|
| `NetSocketProofs` | | |
| `TypeCorrect` | `TypeOK` | |
| `DestroyedIsTornDown` | a destroyed socket has no handle, no queue, and no flag that lets a call through | |
| `HandleIsThere` | where the code dereferences `handle_` after a test of READABLE, WRITABLE or CONNECTING alone, it is not NULL | |
| `NetSocketSafety` | | |
| `NothingAfterDestroy` | `DestroyedIsFinal`: a step of a destroyed socket starts nothing, unless it gives the socket a new handle; what is heard is left to `ClosesOnce` | |
| `PendingIsRight` | `PendingMatches` | `Orderly` |
| `ClosesOnce` | `CloseOnceAfterError` | `Orderly` |
| `WritesKeepOrder` | `WritesInOrder` | `Orderly` |
| `FreedIsUnused` | `NoUseAfterFree` | `Orderly` |
| `IsAConnection` | every step is a step of `Connection` or a stutter | `Orderly` |
| `NetServerProofs` | | |
| `TypeCorrect`, `CountIsExact` | `TypeOK`, `ConnectionsMatch` | |
| `CloseMeansDrained`, `NoAssertionFails` | `CloseOnlyWhenDrained`, `AssertionsHold` | `NoRelisten` |
| `FreedIsUnused` | `NoUseAfterFree` | `ClosesOnce` |
| `CloseIsHeardLast` | `CloseIsLast` | |
| `LoopProofs` | | |
| `QuietLosesNothing`, `ClosedIsSilent` | `QuietIsLossless`, `SilentWhenClosed`, of a queue | |
| `CalledOnce` | `CallbacksOnce` | |
| `AsyncLosesNothing`, `AsyncIsSilent` | the two above, of the queue within an `Async`, and that no post races with its close | |
| `TimersAreSound` | `TimersSound` | `Careful` |
| `AnswersAreHonest` | `AnswersHonest` | |
| `HttpServerProofs` | | |
| `InOrder`, `NeverStuck`, `SaidIsSent` | `InRequestOrder`, `NoneStuck`, `AsSaidUnlessDoubled` | |
| `EventProofs` | | |
| `RecycledIsUnused`, `PausedIsSilent` | `FreeIsUnused`, `SilentWhilePaused` | |
| `DataArrivesInOrder`, `AssertionHolds` | `DataInOrder`, `NoAssertionFails` | `ReadsAll` |
| `WalksAreExact`, `OnceMeansOnce` | `EachCalledOnce`, `OnceIsOnce` | the habits each property names |
| `AgentProofs` | | |
| `AgentWaitingMeansFull`, `AgentToldOnce`, `AgentOneEach` | `WaitingMeansFull`, `ToldOnce`, `OneEach` | |
| `ServicesProofs` | | |
| `RequestsAreAnswered` | `AnsweredAsAsked` | |
| `FindsWhatMatches` | `DiscoversMatching` | |
| `DatagramsLeaveOnce` | `DatagramsOnce` | |

**The conditions** are about the application. They exclude the calls after which the
code does not keep its assertions or these properties, as said
[above](#where-the-code-does-not-do-what-it-says).

- `Orderly`: it makes neither the call `reconnect` (`connect()` on a socket that is
  destroyed and has not settled) nor `resumeAfterEof`. Connecting again once the last
  connection has settled, `reopen`, is allowed, any number of times.
- `NoRelisten`: no `listen()` after a `close()` that has not been announced;
  `ClosesOnce`: besides, no `close()` of a server without a handle.
- `Careful`: a listener of "timeout" does something about the timer, and a timer that
  has run is not cleared.
- `ReadsAll`: the handlers of http::Server answer a request after its end. The run
  `incoming_unread` shows what happens otherwise. `AssertionHolds` is besides about
  states before any pending chunk was null when taken out (`cut = {}`), for which it can
  fail otherwise; `DataArrivesInOrder` is about all.

**The argument** is the same everywhere: an invariant that implies the property, a lemma
for each operator or action that it is kept, one lemma that collects them, and PTL.
Types aside, none of the properties is inductive by itself. TLC checked the invariants
below on the instances of the runs before they were proved, and refuted several earlier
forms of them. Where handlers are operators on a state record, the invariant is about
the record, so that it can be carried through the middle of a handler, where a listener
may call back.

- `NetSocket`, all calls (`Inv`). `DestroyedIsTornDown` needs that whatever sets
  WRITABLE or CONNECTING has a handle, `HandleIsThere` that DESTROYED is only set when
  they are cleared: the two are proved together, with the type of every field.
- `NetSocket`, orderly calls (`Sound`). `Queued`: what waits in `connQ` and what was
  sent are the writes there were, in order, which is `WritesInOrder`. `Matched`: the
  counter is the number of writes in flight, all of the present handle. `Unannounced`,
  `LiveConnecting`, `LiveSettled` and `Announced` say which ticks and requests there can
  be in which phase: a socket that is alive has at most the tick of a connect that
  failed, a destroyed one exactly the ticks that announce it once. Without them a second
  destruction could not be told from the first, nor `close` be shown to come once.
  `Turns` adds what the socket owes to the order of the loop, for `NoUseAfterFree`.
- The refinement (`IsAConnection`) maps the flag DESTROYED and the number of `close`
  heard to `life` (`Life`). Every action keeps it or takes one step (`Proceeds`): from
  open to destroyed, to closed, and, when the application connects again, back. This is
  the safety half of `KeepsPromise`; `NetServer` rests on it.
- `NetServer`. The count is right because a destroyed socket is counted until its tick
  (`TicksMatch`: one tick for each destroyed socket, none for another). `close` means
  drained because a server that is closed, drained and does not listen again stays so
  (`ClosesWhenQuiet`). Nothing is left that would use the server when its OnDestroy
  listener goes, because the tick that announces `close` is its last (`Ends`); and
  nothing is heard after `close`, because the listeners go with it (`Told`).
- `MessageQueue` (`QueueInv`). `ClosesLast`: a close() under way is the innermost frame,
  and the listeners stay until it has emptied the queue; `NothingLost`: without a race,
  no thread is in `postMessage()` while the queue is closed, and what was offered is in
  the queue or delivered. `Async` (`AsyncInv`): the queue is open until the executor is
  gone (`ThreadsMatch`), an id is in one place (`IdsMatch`), and a callback that is owed
  has its task, or the result of it, on the way (`WantedMatch`). Every step of `Async`
  is a step of the queue or leaves it alone, so the theorems of the queue carry over.
- `Timers`. `TimersSound` says nothing of the past of the timer that runs: the invariant
  adds that `timer_` is a timer that runs (`TimerIsThere`, whence closing it touches
  nothing that was deleted), that no other of the socket does and that the time it has
  been running is no longer than the socket has been quiet (`OnlyOne`, whence no timeout
  is early).
- `FileChains` (`FileInv`). `CallOk`: what a call has answered, and the error it will
  answer with, fit the requests that have failed. `Works`: while a call that was alone
  runs, no other does (`Undisturbed`), so the file is what its own requests have made of
  it, stage by stage. `AllKept`: while there are only appends and none has failed or
  written in part, the file is what it was at first and the data of those that have
  written, in some order; each write adds its call to the order. `FlattenSeq`, in which
  the property says this, is a recursive function of the library: that there is one, and
  what it gives for a sequence that is longer by one, is shown from the least number for
  which it would fail (`FlattenExists`, `FlattenAppend`). The assumption on the
  constants is that there are calls, that they are numbers (the first byte each writes)
  and that the file holds numbers.
- `HttpServer` (`ConnInv`). `Turn` is the response that has the socket or gets it next.
  `Chain`: those before it are finished, those behind it are in `outgoings` in order,
  with their requests in `incomings`, each listening for its turn and with its output
  not empty if it has begun. `Served`: the one that has the socket has no output left.
  After the last response the chain is broken, but then the socket is not writable and
  nothing goes out (`Over`). `OutgoingOnFinish` is where a chain loses its first link.
  For what the responses say there is a second invariant on top of it (`AllFaithful`):
  what is on the wire of a response, what waits in its `output` and a header not yet
  sent are what was said, and nothing waits before the header has been sent. That last
  part is why the interim response of Expect: 100-continue is excepted. A write adds to
  what is told of its own response (`Adds`), to that of no other (`Aside`), and
  `flush()` moves from one place to the other. `PartsOf` is a recursive function; that
  there is one, and that it distributes over `\o`, is shown by the least number for
  which it fails (`LeastOf`), since a proof by induction is out of the provers' reach.
- `IncomingMessage` (`IncomingInv`). `UsersInv`: a message is in one list of one
  connection, and one request that is held uses it, in which case it is not marked
  unused; with `FreeIsUnused` itself, since recycling is what takes a message from one
  list to the other. `PlacesInv`: parsers, ticks and running handlers name messages that
  exist. For the order of the data, `DataInv`, proved together with these: what the
  listeners of a request have got, followed by what is pending, is what its parser has
  handed on (`ListensTo`, `IsFed`, `GotInv`, `PendingInv`), and a message that is used
  again has no listeners left of an earlier request, since under `ReadsAll` every such
  request heard its end before the message was freed (`EndInv`). All of this is about
  messages of which no chunk was lost (`Clean`). When one is, the request hears its end
  at once and has no listeners left; those that get the message later are left out
  (`Spoilt`).
- `HttpAgent` (`Inv`): the sockets in the list of a host are those that have the agent's
  listeners, and requests wait only where the list is full (`Pool`, `Full`); a socket
  and its request name each other until the request has ended (`SocketOk`, `RequestOk`);
  what a tick finds when it runs follows from its place in the queue (`TickOk`,
  `InTurn`); and a request that was made waits, or has a socket on its way, or has one,
  and only one of these (`Places`). `close()` takes a socket from its list, hands the
  place to a request that waits and makes it another socket, all in one handler: the
  invariant has as parameters the socket and the request that are exempt until the
  handler returns. The faults listed above, such as a socket handed on inside its own
  destruction, are among its states: the theorems hold with them.
- `EventEmitter` (`EmitterInv`). `TablesOk`: entries are numbered as registered and
  lists do not share them; `FrameOk`, `StackOk`: what a walk still has to call is the
  rest of the list it saw, until a habit disturbs it; `SpentOk`: a Once that was called
  is removed by the frame that called it, and the walks of the same list further out
  have no Once before it, so that removing it moves nothing they have yet to call.
- `JsonRpc` (`RpcInv`): a request that is queued has no answer yet, one whose Respond is
  pending has one only while that Respond is emitting; it is queued once and not in
  both; its answers are one, and one for each use of its Respond within its own
  emission; and an answer suits its shape (a lemma for each version of the dispatcher).
- `Discovery` (`DiscoveryInv`): every message that was ever sent tells the truth, and
  goes on doing so (`TruthStays`), because what was offered since a request is only
  added to (`Grows`). Loss, duplication and delay then make no difference.
- `DgramSocket` (`DgramInv`). A send is in one place: given to libuv, being looked up,
  or in `sendQueue_`. `Ordered`: each of these is in the order of `send()`, as far as it
  has to be, and what was given to libuv is before what is looked up, and that before
  what waits. A "listening" listener that sends, before or after the flush, is where
  this is delicate (`StartListeningKept`). `QueueOk` (the queue waits only while
  OnListening will run and the socket is not bound) and `BindOk` (one lookup is for the
  bind) keep a send that need not wait from overtaking. That the flush keeps the order
  among what it looks up at once rests on a lemma proved from well-foundedness, since
  `SelectSeq` is out of the provers' reach (`AscendingRises`, `OnlyNumericIn`).

**Model-checked only:**

- All liveness (`PutOffTakesEffect`, `DrainedCloses`, `LoopDelivers`, the two
  `RequestsSettle`, `CallsSettle`, the liveness half of `KeepsPromise`): out of the
  prover's reach.
- `PureLaws` and `HeadersAsSent`: what recursive definitions and folds compute of strings,
  letter by letter; the provers know nothing of the letters of a string.
- `RealpathAgrees`: its reference `Follow` takes a bounded number of steps (`Fuel`), enough
  for the trees of the run and not for every tree.

## Not modelled

`PROJECT.json` lists every component. Left out for good: crypto and rsa_crypto (wrappers
of OpenSSL), os (pure I/O), streams, bridges and public headers (interfaces, and classes
that forward), invoke (templates), tests, examples and tools.

Left out of the components that are modelled:

- `NetSocket`: addresses. `NetServer`: the callback of a `listen()` that failed.
- `HttpServer`: upgrades, server timeouts, trailers and status codes without a body.
- `IncomingMessage`: the deletion of messages and what a paused connection does to the
  reading of its socket (its parser may go on,
  which only adds behaviours). The tables of methods and status texts are constants.
- `HttpAgent`: requests by socketPath or without an agent, 100-continue, timeouts,
  `setMaxSockets()`, requests made in any but numeric order (they are alike), and a
  server that sends more than the response it owes. What a request writes is the
  `OutgoingMessage` of `HttpServer`.
- `DgramSocket`: the options of the socket (TTL, broadcast, membership), which keep no
  state in libnode; `uv_getaddrinfo` refused at once; which of the addresses found is
  taken; the call of a null callback when the datagram of a `send()` without one is
  refused (`dgram/socket.h:301`).
- `FileChains`: the functions that make one request of libuv each, and the conversion of
  its results (`Stats`); the call of a null callback by a `truncate()` without one
  (`fs.h:857`).
- `JsonRpc`: JSON text and the converters of arguments. `Discovery`: the format of
  messages; hashes and ciphers stand for their passwords.
- `PureCode`: base64 (OpenSSL or libb64), type tests; `path::relative()` and
  `url::format()` are not implemented in the code. The decoding of characters, which
  `StringDecoder` wraps, is in libj.
- The list of outgoing messages, which follows the same class as the list of incoming
  ones.

## What is left to do

1. `HttpServer`: trailers, upgrades and the timeouts of the server, on `Timers`.
2. `HttpAgent` composed with `Connection` in place of its own account of a socket's
   life.
3. The one-request functions of `fs.h`, as a table.
