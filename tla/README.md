# Models of efl-research

The repository is a collection of research prototypes around the Enlightenment
libraries. Most of it is independent programs; the ones with a state machine of
their own are Equanime (a display daemon with a client library), eirc (an IRC
library with direct client connections), eobj (an object and signal system),
two memory managers (`OLD/emm`, `PROTO/mm`), and the input library `ecore_li`.

## Inventory

| part | state it keeps | operations | talks to |
|---|---|---|---|
| Equanime client library `equanime/src/lib` | per `Equanime`: last message, reply, decoded body, receive buffer and its length; a process-wide id counter | one synchronous call per request, reply handler | the daemon, by an Ecore_Con byte stream |
| Equanime daemon front end `equanime/src/server/equ_server.c`, `server/lib/equ_client.c` | one receive buffer and its length; an `Equ_Client` per connection | client added, removed, data arrived; dispatch of a message | clients; the registry |
| Equanime registry `server/lib/equ_{host,controller,layer,output,input,mode}.c` | tables of hosts, controllers, layers; links between them | register, look up, set position, connect an output | drivers, by tables of functions |
| Equanime pools and surfaces `server/lib/equ_{pool,surface}.c` | pools of a host, surfaces of a pool | allocate, free | hosts |
| eirc DCC `eirc/src/lib/dcc.c` | a list of connections, each with a state, buffers and a time of last activity; two mutexes | listen, connect, accept, decline, send, the select loop, destroy | an IRC session, user callbacks |
| eirc session `eirc/src/lib/libircclient.c` | connection state, incoming and outgoing buffers | connect, commands, the select loop, line splitter | server, callbacks, DCC |
| eobj `OLD/eobj/src/lib` | class tree, objects with parents, names and properties, signal callbacks | create, destroy, emit, notify | user callbacks run inside emission |
| emm first fit `OLD/emm` | a list of blocks, free sizes | allocate, free, join in an idler | Ecore's main loop |
| buddy allocator `PROTO/mm/buddy.c` | an array of blocks with orders, free lists | allocate, free, statistics | none |
| ecore_li, libuio, dummy, esessions, eix, evg, esvg, prototypes, examples, efl-sharp, doxygen2gwiki | see `PROJECT.json` | | |

What is hard in each, and what makes it correct:

* **Equanime messages.** Messages and replies are cut and joined by the stream;
  several clients share one buffer; a call runs the main loop, in which other
  handlers run and may call again; a client or the daemon may leave between any
  two steps. Correct: a call returns the answer to itself, once, or not at all.
* **Equanime registry.** Elements refer to each other by id, drivers may refuse
  an operation after the registry recorded it. Correct: what is looked up
  exists, ids are unique, recorded state is what the driver was told.
* **eirc.** Callbacks run with the lock dropped and may destroy the session that
  is being served; two locks are taken in two orders. Correct: a released
  session is never used, every lock that is taken is released.
* **eobj.** Callbacks add and remove callbacks during emission; destruction is
  deferred while a notification runs. Correct: every callback connected before
  the emission and not removed runs once; nothing freed is touched.
* **Memory managers.** Correct: blocks that are handed out never overlap, freed
  space becomes available again, the parts always make the whole.

## What is modelled

Four parts, each with proofs: the Equanime message path, from the call of a
client to the daemon and back; the direct client connections (DCC) of eirc; the
IRC session of eirc with the Ecore wrapper around it; and eobj, its classes,
properties, signals and objects. What is left out, and why, is at the end.

```
EquMessage <- EquTransport <- EquServer --\
                          \-- EquClient ---> EquIpc <- MCEquIpc
                      EquIpc <- EquIpcProofs <- EquRpcProofs <- EquWholeProofs
EquRpc  (abstract; EquIpc instantiates it with a refinement mapping)

DccSessions <- DccApi <- DccLoop <- DccProcess <- Dcc <- MCDcc
                                                  Dcc <- DccProofs <- DccMutexProofs

IrcLines <- IrcSession <- Irc <- MCIrc
                          Irc <- IrcProofs
IrcFeed (abstract; Irc instantiates it)

EobjClass <- EobjSignal <- EobjObject <- Eobj <- MCEobj
                                         Eobj <- EobjProofs
         \-- EobjProperty <- MCEobjProperty
             EobjProperty <- EobjClassProofs
```

`PROJECT.json` lists every part of the repository with its status. "Partly" is
said of the Equanime client library (`equ_init`, `equ_shutdown` and the
accessors of its structures are not modelled), of DCC (contents and sizes), of
the Ecore wrapper (the memory of an event) and of the objects of eobj (one call
is undefined behaviour whatever it is given, see below).

## Equanime messages

### Correspondence

| module | models | state |
|---|---|---|
| `EquMessage` | `equ_common.h`, `equ_message.c`: names, types, the two headers, which bodies the codec knows | none: operators only |
| `EquTransport` | Ecore_Con (outside the repository): an ordered reliable stream each way, read in pieces | `c2s`, `s2c` |
| `EquServer` | the three handlers of `equ_server.c` and the dispatch of `equ_client.c` | `equd` is `_equd.buffer`, one for all connections; `attached` the connections with an `Equ_Client`; `up` |
| `EquClient` | `_server_send` and `_server_data` of `equ_core.c`, and how the calls of `equ_host.c`, `equ_controller.c`, `equ_layer.c` use what they return | `msg`, `reply`, `rbody`, `buffer` are the fields of `Equanime`; `freed`, `dangling` say what was freed; `frames` is the stack of calls of a process; `ids` the static id |
| `EquIpc` | the composition | all of the above; properties, inductive invariant, refinement mapping |
| `EquRpc` | what the library promises: a call gets one answer, the daemon's answer to that call | `call`, `answer`, `result` |

A stream is a sequence of *cells*: a cell says which message or reply it
belongs to and which place it has there. `HdrLen` and `BodyLen` cells stand for
the bytes of a header and of a body, so that a read can end inside either. A
reader that lost its place sees cells that do not begin at 1: it then reads
some number as a size and some number as a type, which the model leaves open
(`DataGarbage`, `ReplyGarbage`). Fields a reply does not have on the wire, such
as the request it answers, are kept in the model and only read by properties.

Choices a reader should know:

* The daemon handles one message per read and leaves a following one in its
  buffer (`DataMessage`); what it shifts out leaves as many unwritten cells
  (`Junk`) at the end, as the length is not reduced (`equ_server.c:146`,
  `equ_core.c:99`).
* The local variable `err` of `_client_data` is unset when a body does not
  decode. It is `EQU_ERR_NONE` or another number (`Unset`).
* The caller frees the body of a reply when it returns and never uses it again.
* A process that used freed memory or a missing body stops there (`fault`).
* What the registry finds for an id is a choice: found or not.
* Encoding never fails, memory is never short, and ids do not wrap.
* No timeout is modelled: every caller in the library passes 0.

### Runs

Deadlock is not an error in any of these: clients may all have made their calls.

| run | instance | what it shows |
|---|---|---|
| `equ_crash` | 2 processes, 3 calls each, one process and the daemon may leave at any moment; reads return whole messages, one or more | types, `PhaseInv` (the inductive invariant), replies reach the connection that asked, a call that returns has its own answer with the body of that answer, no memory error, no request is served twice |
| `equ_whole` | the same, the daemon stays | `OneThingInFlight`: a waiting call owns exactly one thing in the system; every call returns; the system implements `EquRpc` |
| `equ_split_requests` | 1 process, headers and bodies of 2 cells, reads of the daemon end anywhere | the daemon's buffer always starts at a message boundary, every call returns with its answer |
| `equ_shared_buffer` | 2 processes, requests cut anywhere | *violation*: pieces of two clients mix in the one buffer of the daemon and a reply goes to the wrong client |

Two processes are enough for the interference in the shared buffer (a third
only adds more of the same), three calls for a reply of an older call to be
mistaken for a newer one and for the bytes of two earlier messages to remain.
A header of 2 cells can be cut once, a body of 2 cells once; no decision of the
code depends on how many bytes of a part are missing. `Longest` bounds the
cells of a stream when its writer leaves and is never less than what the calls
can put there.

*Fairness* (`equ_whole`, `equ_split_requests`): weak fairness of the daemon's
handlers and of the handlers and the return of a waiting client. Both sides
run Ecore's main loop, which dispatches every event that is ready; a client
that does not wait need not do anything, nobody has to call or leave, and the
daemon need not stop.

*Other configurations.* With both streams cut anywhere (`equ_crash` with
`SplitRequests` and `SplitReplies` true, `HdrLen = 2`, `BodyLen = 1`,
`MaxCalls = 1` and `Requests <- OneKind`) framing is lost and processes fault, and
still `ServedAtMostOnce` holds. Five more statements in `EquIpc` are not kept by the
code; each is violated within a few steps when a run is changed as follows.

| change | add | what happens |
|---|---|---|
| `equ_split_requests` with `SplitRequests = FALSE`, `MaxDepth = 2` | `ReplyIsForLastMessage` | a call made by a handler inside the wait of another overwrites `e->msg`; ids are not compared and it takes the reply of the outer call (`equ_core.c:125`) |
| `equ_split_requests` with `SplitRequests = FALSE`, `SplitReplies = TRUE` | `BodyIsOfTheReply` | a reply whose header arrives first ends the wait, and the call returns with an old body or none (`equ_core.c:54`) |
| the first of these | `LengthOfTheBuffer` | two replies in one read: the length stays when the buffer is shortened (`equ_core.c:99`) |
| `equ_crash` with `Requests <- Surfaces` | `NoBodyMeansError` | `equ_client_process` has no case for `EQU_MSG_NAME_SURFACE_GET`: no body and no error (`equ_client.c:167`) |
| `equ_whole` with `Procs = {pa}`, `ProcOf <- SharedProc`, `FirstOf <- SharedFirst`, `MayExit = {}` | `EveryCallReturns` (only) | two instances in one process: the handler of the first takes the data of the second, whose call waits for ever (`equ_core.c:224`) |

### Proofs

`EquIpcProofs.TypeCorrect`: `Spec => []TypeOK` for every set of connections and
processes, every fragmentation, nesting and exit, with `LenAssumption` and
`ProcAssumption` only. One lemma per stream operator (`TakeType`, `ShiftType`,
`CutType`, ...) and one step per action.

`EquRpcProofs.CallsAnswered` and `RepliesRouted`: `CallGetsItsAnswer` and
`RepliesToOwnRequests` for any number of processes and calls, any lengths, and
whoever leaves, under `PlainUse`: every process has one connection, calls do
not nest, reads return whole messages, and no surface is asked for. Each of
these is needed, as the violations above show.

Neither property is inductive. A call returns its own answer because a process
has at most one message outstanding, so that what arrives next can only be the
reply to it. `PhaseInv` says so: the daemon's buffer is empty between events; a
process that waits is in one of four phases, its request is on the way
(`Sent`), or its reply is (`Told`), or its reply was received (`Got`), or the
daemon has gone; the other places of its connection are then empty. A process
that does not wait has all of them empty (`Quiet`); one that left has at most a
request on the way (`Leftover`). `TypeOK /\ PhaseInv` is inductive
(`InductiveInv`): `ServeInv` takes `Sent` to `Told`, `ReceiveInv` takes `Told`
to `Got`, `ReturnInv` takes `Got` to `Quiet`, and the other actions keep every
phase or end the process. `equ_crash` checks `PhaseInv` on a small instance.

`EquRpcProofs.PhasesHold` states that invariant alone, and `NoClientFaults` takes
`NoFault` from it: a client faults when it uses a body that was freed or never
came, and a call of plain use returns in `Got`, with the body of its answer.

`EquWholeProofs.CallsRefine`: under `PlainUse` and with a daemon that stays,
every behaviour of `EquIpc` is one of `EquRpc` under the refinement mapping
(`AbsCall`, `AbsAnswer`, `AbsResult`), its fairness excepted. A call of a client is `Ask`, the
daemon's handling of it is `Reply`, the return is `Return`, an exit is
`Abandon`, and the arrival of a reply changes nothing that `EquRpc` can see. The
phases say which: only a request that is `Sent` can be served.
`OneThingEach` counts: `PhaseInv` puts exactly one request, reply or header in the
places of a waiting call, and none in those of a quiet one.

`EquWholeProofs.ServedOnce`: `ServedAtMostOnce` without any hypothesis, also where
streams are cut inside a header, calls nest, and requests of many clients mix in
the daemon's buffer. The argument follows one request, of process `p` with the
id `i`. The places where its header, or the header of its reply, can be are the
daemon's buffer, the streams, the reply received and the result; `OnceInv` says
that they hold it once or not at all (`Lone`, over the five sets; that streams
themselves have it once is `OnceInStreams`), and that a request with an id that
was not given yet is nowhere (`Unasked`). What the daemon does with what arrives
has one form, whichever branch is taken (`ServeForm`): it keeps the bytes or drops
the first of them, and then may write one reply, to the request that they began
with. So a header that is answered is dropped in the same step, and the bytes
that a wrong length keeps in the buffer have no header (`Junk`). The reply that a
client keeps as a pointer into its buffer is that buffer's header
(`HeaderInBuffer`), which is why it is counted once.

`EquWholeProofs.FramingKept`: `DaemonKeepsFraming` for one connection whose calls
do not nest (`LoneClient`), for every cut of its requests and all lengths. Both
conditions are those under which the daemon gets no second message before it
answered the first; with two connections `equ_shared_buffer` shows the
mixture. `FrameInv` is inductive: the buffer and the stream after it are a stretch
of one request (`OneRequest`, `Stretch`), and the client is before, in or after the
wait that this allows (`LonePhase`).

Only model-checked: what cut replies do to one client (that a call gets its own
answer is proved for whole messages) and liveness. The prover has no rules for
liveness under fairness or `ENABLED`.

## Direct client connections

### Correspondence

| module | models | state |
|---|---|---|
| `DccSessions` | the list and its blocks, `libirc_new_dcc_session`, `libirc_remove_dcc_session`, `libirc_dcc_destroy_nolock`, the mutex of `portable.c` | `dcc[id]` a block, `head` `session->dcc_sessions`, `lastId`, `owner` of `mutex_dcc`; `live` the blocks that are allocated |
| `DccApi` | `irc_dcc_chat`, `irc_dcc_sendfile`, `irc_dcc_accept`, `irc_dcc_decline`, `irc_dcc_msg`, `irc_dcc_destroy` on any thread | `calls[t]`: the place in a call that takes several steps |
| `DccLoop` | `libirc_dcc_add_descriptors` and `select` | `loop`: the place in the loop, the session at hand, `dcc_next`, `err`; `inSet`, `outSet` |
| `DccProcess` | `libirc_dcc_process_descriptors`, `libirc_dcc_request`, the end of `irc_run`, `irc_destroy_session` | |
| `Dcc` | the loop, the threads and the peers together; properties | |

One action is the code between two points where another thread can see or do
something: a lock, an unlock, a callback, or an access to a session made
without the mutex. While the loop is in a callback (`loop.pc = "callback"`, the
mutex released) its own thread may call anything, and so may the others.
`irc_dcc_destroy` is two steps, the socket is closed and then the state is set,
as the loop looks at both without the mutex after a data callback. Sockets are
numbers, given lowest first as the system does, so that a closed number comes
back for another session. `knock` are the connections that wait for an accept;
`ended` and `closed` record what the application was told and what it did.

Choices a reader should know:

* After every timeout the loop reads the state of the session it just freed
  (`dcc.c:137`, then 144 and 166). That is undefined, so `NoFault` fails wherever
  sessions time out: `Stale` notes it in `stale`. To see what else such a
  program does, the model goes on as if the block still held what it held, which
  is what an allocator does that leaves freed blocks alone. `OnlyStaleReads`, and
  what is said of `dcc_one_thread` and of timeouts in the proofs, rest on that.
* A step that is undefined or stops the program sets `fault`: freeing twice,
  going on with a freed session, calling a callback that is null, `FD_SET` or
  `FD_ISSET` of -1, waiting in `accept`, `abort()`. Nothing is followed after.
* `UnlockAny` tells the default mutex from the recursive one. `portable.c:72`
  asks for the second with `#if defined (PTHREAD_MUTEX_RECURSIVE)`, which is an
  enumerator with glibc and so not defined: the default mutex is what is built,
  and any thread can open it. The runs cover both.
* `mutex_outbuf` is always taken inside `mutex_dcc`, or by the loop on its way
  back from a callback, and never held while something is waited for: the
  steps that hold it are atomic and it has no variable.
* What a read or a write returns is a choice, also whether a packet was
  sent in full, a confirmation is complete, a file has ended.
* A session that is being made does not time out meanwhile, and a thread does
  not know the id of a session before the call that makes it returned.
* A callback does not destroy a session that has ended (`libircclient.h:1224`).

### Runs

Deadlock is not an error: the loop may have ended, or a fault be met.

| run | instance | what it shows |
|---|---|---|
| `dcc_one_thread` | one thread, 2 sessions of every mode, timeouts, every call from callbacks | no fault but the read of the session a timeout freed (`OnlyStaleReads`), a chat always hears of its end, nothing is heard after it, what was destroyed stays destroyed |
| `dcc_threads` | a second thread sends messages and destroys, peers ask for chats, no timeouts | no fault and no read of a freed session (`NoFault`), the list is walked with the mutex held, no destruction is undone, what is marked is freed, the loop always comes round |
| `dcc_anything` | offers and requests of every mode on both threads, a second thread that destroys, peers that talk out of turn | the list always ends, holds each allocated session once and no other, up to the first fault |
| `dcc_timeout_race` | timeouts and a thread that destroys | *violation*: a session destroyed during its timeout callback is freed twice (`dcc.c:137`, `dcc.c:167`) |

Two sessions are enough to have a predecessor in the list, a saved `dcc_next`
and a reused descriptor; ids are never reused, so `MaxId` bounds the sessions a
run ever makes. One thread beside the loop is enough: calls of two such threads
exclude each other by the mutex.

*Fairness* (`dcc_threads`): the loop goes on, callbacks return, threads finish
the calls they began. It is strong fairness, as the loop waits for a mutex that
others take and give back: whoever waits for a mutex that is free again and
again gets it in the end. Nobody has to call, connect or answer.

*What the model shows and no run asserts.* In `dcc_anything` the faults are
reached: a chat offered by another thread is accepted before its callback is
set (`dcc.c:652`); a failing offer frees the session `dcc_next` points to
(`dcc.c:116`), or leaves -1 in the list for `FD_SET` (`dcc.c:69`); a descriptor
that was ready for a closed session is accepted from for a new one
(`dcc.c:240`); a peer that sends to a session that only sends a file meets
`abort()` (`dcc.c:366`). Some statements of `Dcc` are not kept outside the runs
that check them. `NoFault` fails in `dcc_one_thread`, as above, at the first timeout. With two threads and `Incoming <- Asked` in `dcc_threads`,
`RemovedIsFinal` fails (a destroy between the test and the assignment at
`dcc.c:375` is undone) and so does `MutexHeld` (the mutex is not taken again
after the callback at `dcc.c:481`). `AnyEndIsTold` fails in `dcc_one_thread`
(a file transfer whose connection fails ends without a callback,
`dcc.c:253-264`), `CallbackIsSet` in `dcc_anything`, and `LoopGoesOn` in
`dcc_threads` (a socket closed between the making of the sets and `select`
ends `irc_run`, `libircclient.c:200`).

Not modelled: the contents of the buffers, sizes of files, and the splitting of
chats into lines. They are data of one session that nobody else reads; the
hazards they have are listed, with the lines, in `PROJECT.json`.

### Proofs

All hold for every number of threads and sessions and either kind of mutex. The
first three hold whoever calls what, the others under the condition on the use
that is named with them.

`DccProofs.DccTypeCorrect`: `Spec => []TypeOK`. The one place where a type is
not obvious is the descriptor of a new socket: `FreeFd` is chosen, and exists
because at most `MaxId` of `MaxId + 1` are in use (a pigeonhole) and the natural
numbers are well founded (`SomeFdFree`, `FreeFdType`).

`DccProofs.WalksEnd`: `Spec => []NewestFirst`. Every link of the list goes to an
older session, `head` too, whatever has been freed meanwhile. It is inductive
with the types: `New` puts the newest id first (`NewTable`), `Remove` replaces a
link by one that is still older (`RemoveTable`), and nothing else touches a
link (`BlockChanged`).

`DccProofs.ListHolds`: `Spec => []ListOk`, without any hypothesis. `ListOk` walks along
the list with `Nth` and is not inductive. `Chained` is, with the types: the list
begins with the youngest session that is allocated, and each is followed by the
youngest of those that are older. From it the walk stays in the list
(`WalkIsLive`), comes to each session once as ids fall along the way, and leaves
none out. One lemma says of each action what it does to the links: nothing
(`SameChained`), a new head (`NewChained`) or one block less (`RemoveChained`).

`DccMutexProofs.MutexIsHeld` and `RemovedStays`: `MutexHeld` and
`RemovedIsFinal` if nobody sends a file to the application (no session has the
mode `RECVFILE`). The assumption is needed, as the paragraph above says: the
code that receives a file is what leaves the mutex. `MutexHeld` is not
inductive; `MutexInv` adds that the places reached without the mutex are those
of a reception and so not reached, that a callback returns to a walk with the
mutex, and that the thread of the loop is in a call only outside the walks.
Each step of the loop is of one of four kinds (`Walks`, `Enters`, `Leaves`,
`Outside`), for which `LoopMutex` shows the invariant once. `Final` is what every
step does to the blocks; that a new session does not overwrite one in use comes
from `Given`: every id in use was given before.

`DccMutexProofs.TimeoutsAside`, `ChatEndsAreTold` and `EndIsLast`: `OnlyStaleReads`,
`ChatEndIsTold` and the action property `NoCallbackAfterEnd`, under `OrderlyUse`.
`NoUndefinedBehaviour` is `NoFault`, under `OrderlyUse` and where nothing times out:
then no freed session is read either (`StaleKept`: only `Stale` reads one, and its
place is reached only by a timeout).
That asks three things of the use: sessions are offered, accepted and declined on
the thread of the loop; no peer sends to a session that only sends; and either
that thread alone destroys sessions, or none times out and no file is received.
`dcc_one_thread` and `dcc_threads` are the two sides of that "or". Each is needed:
`dcc_timeout_race` and the faults of `dcc_anything` that the paragraph above names
break one of them.

These have one inductive invariant, `Known`, as none can be had alone: the loop
frees what is marked, so that no free is the second only if a session that ended
is marked at once, which is also why nothing is said of it afterwards. `Known`
takes the list from `Chained` and the mutex from `MutexInv`, and adds `OrderlyInv`:
what holds of every block (`SoundBlock`: a session that does something has its
callback and its socket, but for the steps in which a call makes or unmakes it), of
a session the loop has still to visit and will accept on (`Awaited`: a
connection waits, the descriptor was not given to another), of one that ended
(`EndedMarked`, `GoneTold`), of the session at hand for each place of the loop
(`CurOK`), and of the calls (`CallsOK`: sessions made in a callback are younger
than `cur` and `dcc_next`, so that a failing offer frees neither). A callback is
another place with the same facts (`Place`), as the loop comes back with what it
knew. There is one lemma for each group of actions.

Only model-checked: that marked sessions are freed and that the loop comes round
(liveness).

## IRC session

### Correspondence

| module | models | state |
|---|---|---|
| `IrcLines` | which callback `libircclient.c` chooses for a line and which event `eirc.c` makes of it; which line a command becomes | none: operators only |
| `IrcSession` | `irc_connect`, `irc_disconnect`, `irc_send_raw`, the descriptors, the reading, parsing and writing of `libircclient.c`; `socket_recv`, `libirc_findcrlf` | `state`, `motd`, `inbuf`, `outbuf` are fields of the session; `s2c`, `closed`, `wrote`, `heard` the socket and the server; `queue` Ecore's events; `said`, `taken` record |
| `Irc` | `irc_run`, `eirc_main`, an application that acts in Ecore's handlers, another thread that sends commands | `pc` the place in the loop, `ready` what `select` said, `told` the last event, `other` the other thread; `early` records that it sent on this connection before an event of it was told |
| `IrcFeed` | what the application is promised: the events of the lines that the server wrote, whole, in order, each once, connection after connection | `wrote`, `told` |

A line is a sequence of `Pieces`, of which the last holds the CRLF, and both the
socket and the buffers cut the stream between any two. One turn of the loop is
the sets and `select` (`Selects`), the read (`Reads`), each line in the buffer
(`ProcessesLine`), the write (`Writes`), and one iteration of Ecore, in which
events are handled one by one and the application calls eirc. The state test of
`irc_send_raw` and its work under the mutex are two steps for the other thread
(`OtherChecks`, `OtherSays`), since the first is made without the mutex.

A connection that is made takes several steps (`libircclient.c:584-612`). The
state becomes `CONNECTED` first (`Made`, in `ConnectEnds`), without the mutex;
then PASS, if the application gave a password, NICK and USER are sent, each by an
`irc_send_raw` that takes the mutex and gives it back (`SendsRegistration`, at the
places `Registering`). From the first of these steps on, `irc_send_raw` takes the
commands of any thread, so that the other thread may be anywhere between them.

Choices a reader should know:

* A line that is made of pieces of two lines is told as an event that no line
  of the server has (`torn`).
* `Line` and `EventsOf` keep the number of parameters, for which `eirc.c` drops
  callbacks, and whether the first is the nick of the session (`mine`); the
  nick itself, texts, colours and options are abstracted.
* An outgoing line that does not fit is refused whole; a PONG too, silently, and
  so is a line of the registration.
* The lines of the script are those that the parser can read (`Readable`). Of a
  line without parameters `libirc_process_incoming_data` steps over the end
  (lines 308 and 326) and reads on in what its buffer held before, and of a NOTICE
  with one parameter it takes the length of a null pointer (line 491). A script
  with such a line is refused by `ScriptAssumption`; `event_unknown`, which tells
  lines without parameters only, is translated and never reached.
* `Again` says when the application connects again: never, at any time, or when
  nothing of the old connection is left ("quiet").
* The descriptors of DCC sessions share the `select`; module `Dcc` has them.

### Runs

Deadlock is not an error: `irc_run` ends.

| run | instance | what it shows |
|---|---|---|
| `irc_session` | 2 connections with a password, 2 lines of the server on the first and 1 on the second, 4 commands on each, lines of 2 pieces, an incoming buffer of 2 lines and an outgoing one of 3 lines, slow connections, a server that closes at any time | both buffers stay in their bounds, what the server hears is whole commands in order, and the registration first unless the other thread was early (`HeardWhole`), what the application is told implements `IrcFeed`, both sides catch up while the connection lives, the loss of a connection ends the loop |

Two lines of the server are the end of the message of the day, which makes two
events once and one later, and a PING, which makes none and is answered. Two
pieces cut a line once; a buffer of three lines is full with the registration,
so that a command waits for the first write and an early one takes the room of
USER. An incoming buffer of two lines takes both in one read, whose events then wait
together, or one and the start of the next. `MaxConns` 2 is enough for what the first connection leaves to show in the
second. `MaxSaid` counts PASS, NICK and USER. The run does not have an incoming
line that is longer than its buffer, nor, with `Again = "quiet"`, a connection
that is replaced while something of it is left.

*Fairness*: weak fairness of `IrcRun`, which is the loop with Ecore's iteration
inside: the program calls `eirc_main` and does nothing else on that thread. The
application, the other thread and the server need not do anything.

*Other configurations.* With `Again = "any"`, `HeardWhole` and `ImplementsFeed`
fail: `irc_connect` resets `motd_received` "in case of reconnect" but neither
buffer (`libircclient.c:163`), so what is left of the old connection is sent, or
joined to a line, on the new one. Without the condition `~early`, `HeardWhole`
fails in nine steps: the other thread finds the session connected after PASS was
stored, its command goes behind NICK, and USER finds the buffer full and is
refused, of which nobody is told (`libircclient.c:609` ignores the result). The
condition is what `libircclient.h:288` asks of an application that runs
`irc_run` in a thread, to send "in event_connect handler" or after it; waiting
until `irc_is_connected` is true is not enough. With `MaxConns = 1`, `Again = "never"`,
`SlowConnect = TRUE`, `RunsUntilTerminated` fails in four steps: `irc_run` "will
not return until the server connection is terminated" (`libircclient.h:283`),
but it returns when a connection takes more than 250 ms (`libircclient.c:614`).
With `Script <- Parting`, `NobodyLeavesUnseen` fails: `Eirc.h:246` calls the
reason of a PART "OPTIONAL", and `eirc.c:257` drops a PART without one.

### Proofs

`IrcProofs.IrcTypeCorrect`: `TypeOK` for every script, all bounds and sizes,
whatever the application does. The bounds of the buffers come from the guards:
`Stored` looks at the room, `Receives` asks for no more than there is. `Typed`
adds what the steps need of each place: in `process` and after it `ready` is
what was wanted, and a line is only looked for in a buffer of cells.

`IrcProofs.CommandsHeardWhole`: `HeardWhole` for every fragmentation and any number
of connections, with or without a password, if `Again # "any"` and
`OutCap >= Len(Registration) * Pieces`, so that the registration fits. It is
inductive with `Typed`, `FeedInv` (below), `Fresh` and `Orderly`. What was heard and
what waits in `outgoing_buf` are together the stream of the commands taken
(`IsStream`): a piece that is sent moves from one to the other (`TakeDrop`), a
command that is stored is one line more (`StreamGrows`), whoever stores it and
wherever `irc_run` is. That the registration is first needs more: no event of a
connection is told before `irc_run` comes to read from it (`Fresh`), so that the
other thread is idle or early while the session registers, and what was said at
each place is then the part of the registration before it (`Orderly`,
`RegistersHeard`), for which there is room (`RoomToRegister`). Both assumptions
are needed.

`IrcProofs.ToldAsWritten`: Irc implements `IrcFeed` (`ImplementsFeed`) for every script,
fragmentation, size of buffer and number of connections, if `Again # "any"`. A
connection that is made is `Connects`, a line of the server `Writes`, an event that
is handled `Tells`, and everything else changes nothing that the feed can see
(`Advances`, `StepIsFeeds`). `FeedInv` is what makes an event that is handled the
next one of the feed:

* the pieces in `incoming_buf` and in the socket are those of the lines that were
  not handled, and `taken` and `motd` are what the handled ones make (`UpTo`, while
  the connection lives);
* every event that waits is of a line that was written (`IsEventOf`), and follows
  the one before it, the first the one that was told last (`InOrder`);
* the last event made is number `taken` of its connection (`Counts`).

The first line that `libirc_findcrlf` finds is then the next that was written,
whole (`FirstIsNext`), so that `torn` is never told. `EventsUpTo` is a recursive
function; `FeedIs` and `EventsNext` unfold it one line at a time, and what holds
for all lines (`EventsPrefix`: more lines begin with the events of fewer) follows by
a least counterexample (`Least`). The proof rests on two assumptions on constants
that TLC evaluates: lines are records with the four fields, which the parser can
read (`ScriptAssumption`), and `Nothing` is no event.

Only model-checked: liveness.

## eobj

### Correspondence

| module | models | state |
|---|---|---|
| `EobjClass` | `eobj_class.c`: classes, what they inherit, signals and their codes, what an object takes from its class | `made`, `chain` (the hierarchy), `signals`, `code`; `type`, `slots` of objects |
| `EobjProperty` | `eobj_property.c` and the calls on properties: declaring, looking up, setting, resetting and reading, by a container with a type | `props`, `field` what setters keep, `asked`, `got` for the property |
| `EobjSignal` | `eobj_signal.c`, `eobj_signal_callback.c`, the marshallers: connecting, blocking, emission | `calls`, `blocked`, `used`, the `stack` of calls under way, `dead` the objects with `destroy_me`, `fault` |
| `EobjObject` | `eobj_object.c`: names, notification, weak pointers, destruction, purge, shutdown | `name`, `hash`, `notes`, `objs`, `loc`, `reg`, `told` |
| `Eobj` | an application of one thread that calls any of it, from the main loop and from callbacks | all of the above |

There are no threads; what interleaves are callbacks. So the calls under way are
a stack in the state, and a frame keeps what the local variables of its function
hold across a callback: the next element of an emission (`next`), whether its
weak pointer is set (`ptr`), the element after the one that the purge frees.
While a `user` frame is on top, or the stack is empty, the application may call
anything; otherwise the library goes on with the frame on top.

The library asks much of the application without saying so. `Rules` names five
things it refrains from, and the properties need all of them:

| rule | without it |
|---|---|
| "keep next": no disconnecting of the callback that an emission under way calls next | the emission reads a freed element (`eobj_signal.c:862`): `NoFault` |
| "no nested loop": the main loop is not run in a callback | an object is freed under an emission: `EmissionKnows`, `NoFault` |
| "unnamed first": a name is taken away before another is given | the old entry stays in the table (`eobj_object.c:343`): `NamesAgree`, `NoFault` |
| "quiet names": no naming or destroying in a callback on a change of name | an object is destroyed twice (`eobj_object.c:301`), or two get one name: `SaysDestroyedOnce`, `NamesAgree` |
| "weak on living": no weak pointer to an object that was destroyed | it is never set to NULL (`eobj_object.c:498`): `WeakSafe`, with two names |

Each row can be seen by leaving the rule out of `Rules` in a cfg.

Other choices: `Late = FALSE` says that classes get no signals and properties
once something was made from them; with `TRUE`, `CodesAreInherited` and
`ListsForAllSignals` fail (`eobj_signal.c:47`). A class is deleted only when
nothing of it is left, as its documentation asks. What callbacks are passed is
abstracted to whether they let the emission go on. In `Eobj` the classes exist
before the objects; `EobjProperty` has them come and go. Setters and getters are
the application's and keep a copy of each property in a field; `Answers` says for
which properties a getter has a case. Every class has both: without a
`property_get` the call takes the location of the value for the next name
(`eobj_object.c:698`). The `free_cb` of object data is taken to call nothing of eobj.

What `eobj_object_properties_get` hands out for a string is the block that the
container owns, not a copy (`eobj_property.c:573`). The next getter frees it
(`eobj_property.c:71`), and at the latest the end of the call (`eobj_object.c:713`):
the caller never sees a string that was not freed, unless it is NULL. `got` keeps
for each location whether that happened, and `ReadsWhatWasSet` says that it happens
to these strings and to nothing else. A getter without a case leaves the container
as it was, so that the location gets the value of the name before, in its type
(`eobj_object.c:703`); the property says nothing of these.

### Runs

| run | instance | what it shows |
|---|---|---|
| `eobj_classes` | 3 classes, 4 signals, 1 object, 2 properties of two types; everything may be made and deleted in any order | codes and lists agree between a class, its subclasses and its objects; what a getter tells of a property is what was set, defaulted or reset, and exactly the strings that are not NULL are freed by then |
| `eobj_objects` | 2 objects, 2 callbacks, 1 name, a default handler | nothing freed is used, an emission knows when its object goes, "destroyed" is said once and before the destructors |
| `eobj_destroy` | 2 objects, 1 callback, 1 name, 1 weak pointer | the name table and the weak pointers never lead to a freed object, the inductive invariant of the proofs holds, an object that is destroyed is freed in the end |

`MaxDepth` bounds the callbacks inside one another that call eobj: with 2 a
callback of a callback acts on the object of both. `MaxNodes` callbacks are ever
connected, two where an emission must have a next one. Two objects are a name's
old and new owner, and the purge's current and next object. One object is enough
for `eobj_classes`, where what matters is the line of classes above it. In
`eobj_classes` deadlock is not an error; `Eobj` has no state without a step
while no fault is met.

*Fairness* (`eobj_destroy`): the library goes on when it is called, weakly; the main
loop comes round, and callbacks return at every depth, strongly. An application
that calls eobj again and again in a callback that never returns, or never lets
the main loop run, is no fault of eobj. Strong fairness is needed as other calls
come between.

### Proofs

`EobjClassProofs`, for any number of classes, signals and objects, with
`~Late`: `ClassTypeCorrect`, `CodesInherited`, `CodesCurrent` and
`ListsSuffice`, from `ClassInv`, which adds that existing classes inherit from
existing ones (`Linked`). A class that is extended has no subclass and no object,
so that nothing below it has to agree; a class that is made begins with the
signals of its parent (`ConcatKeeps`).

`EobjClassProofs.ReadsAsSet`: `ReadsWhatWasSet`, with `~Late`. `PropertyInv` adds that
the field that the class of an object keeps for a property holds what was asked
for last (`FieldsHold`); the class that is found is the first of the line that
declares the property (`Owner`), and it stays that one, as nothing is declared in
a class that has subclasses or objects. `LeftAsAsked` says what one name of a call
that reads leaves, whatever the container held.

`EobjProofs`, for any number of objects, callbacks, names and weak pointers, any
depth, and `Rules = AllRules`: `SafeAlways`, and from it `ObjectTypeCorrect`,
`NothingFreedIsUsed`, `NamesAlwaysAgree`, `EmissionAlwaysKnows`,
`DestroyedIsSaidOnce`. None of these is inductive: whether a frame is right
depends on the frames below it and on what callbacks did since. `SafeInv` says
of each frame what holds of its object (`Sound`): it exists, its emission finds
its lists and its next callback, its name is still to be taken, it is marked
before its destructors run. And it says which frames can be above which
(`Shape`): the loops that free are at the bottom, above them only the object
they free and then callbacks; a name is waited for by one frame at most. That is
where the rules are used: freeing happens only at the bottom of the stack, below
no emission, so that all other frames keep their objects (`Push`, `Pop`: what
a stack gains and loses). `Store` relates the tables. There is one lemma for each
action.

`WeakPointersSafe` needs the rule "weak on living" alone and has its own invariant,
`WeakOk`: a pointer that is set leads to an object that is allocated, not marked,
and knows the pointer.

Only model-checked: that objects are freed in the end (liveness).

## Not modelled

* **Equanime registry, pools, surfaces** (`server/lib`): lists of hosts, controllers,
  layers, inputs and outputs that modules fill before the first client and that are
  only read after. Positions, levels and pools are set by no message of the
  protocol. What a look-up finds is a choice in `EquServer`.
* **Equanime library life cycle**: `equ_init` and `equ_shutdown` are a counter, which
  a stray `equ_shutdown` makes negative (listed as a hazard); the accessors copy
  fields.
* **DCC contents**: bytes of files and chats, sizes confirmed, packets in part.
* **eirc**: the memory of events, which Ecore frees after the handlers, and the
  numbers of event types, which are global variables that `eirc_session_new`
  (`eirc.c:818`) assigns again for each session; the model has one session.
* **eobj**: `eobj_object_notification_callback_remove` compares with a variable that
  is never assigned (`eobj_object.c:801`): every call is undefined, and no model
  could say which callback goes. Object data is a pointer that is kept; its `free_cb` runs when the object is freed.
* **emm and the buddy allocator**: a superseded first fit over one arena and an
  experiment that nothing calls. Both are sequential and their properties (blocks
  do not overlap, parts make the whole) are those of a unit test over small sizes.
* **ecore_li, libuio**: events of devices become Ecore events, and attributes become
  strings, one by one and without state between them; most of the lines are tables of key names.
* **Drivers, kernel modules**: effects on registers of particular boards.
* **efl-sharp**: each method forwards to a function outside the repository.
* **eix, evg, esvg, esessions, prototypes, dummy, examples, tests, doxygen2gwiki**:
  programs whose results are pixels, windows or text.

These are most of the repository by lines: the model covers about 15% of all
implementation lines, and nearly all of the parts it has.

## Plan

What would be worth adding next, in this order:

1. DCC: one transfer between two peers, as a refinement of "the receiver has a
   prefix of the file", with the sizes that are confirmed (`dcc.c:341`,
   `dcc.c:450`).
2. Equanime: with cut replies, which of the statements of a call a lone client
   keeps.
3. The registry behind `EquServer`, with modules that register while clients ask.
4. The two allocators against "no two blocks overlap and the parts make the whole".
