# Verification of vmp-sa, the JT/T-1078 to RTMP stream server

The server accepts TCP connections from vehicle terminals that send JT/T-1078
packets, asks an HTTP service where each stream belongs, and pushes the H.264
it finds to an RTMP server. This directory holds TLA+ models of the code that
decides when memory is freed, which thread runs what and in which order data
leaves; TLC configurations that check them; and TLAPS proofs.

## 1. Inventory

| part | source | state | operations | threads |
|---|---|---|---|---|
| thread pool | `common/threadpool/ThreadPool.c`, `mw/common/tp.c` | counters, one persistent-job slot, three job queues, `mutex`, two conditions | AddPersistent, Add, Remove, SetAttr, Shutdown, WorkerThread | every caller, every worker |
| core, start-up | `bll/bll_core.c`, `bll/bll.c`, `app/main.c` | `flowid`, the stream servers' `client_cnt` | start the HTTP loop and the listener; make a session per connection | main, core thread, stream server threads |
| listener and stream servers | `mw/server/server_listener.c` | per server an event base and a relay pair `in_buf`/`out_buf` | accept, relay the socket to a server by hash of the fd | listener thread, one thread per server |
| stream session | `bll/bll_h264_stream.c` | flags `cond`, `running`, `publish`; NALU list with `list_mutex`, `cond_empty`; the socket's bufferevent | read handler, event callback, close, release, URL answer | stream server thread, HTTP thread, publisher thread |
| RTMP publisher | `mw/publish/rtmp_publish.c`, `mw/protocol/tima_rtmp_publisher.c` | `cond`, `connected`, RTMP object | start, connect, send, release | one pool thread per session |
| URL query, HTTP loop | `bll/bll_http_base.c`, `mw/http/*` | pending requests on one event base | post, reply, time-out, free | HTTP thread |
| parsers, packagers, buffer | `mw/protocol/*`, `mw/support/tima_buffer.c` | a growing buffer per channel | parse a packet, split NAL units, pack | stream server thread |
| timer, list, free list | `common/threadpool/TimerThread.c`, `LinkedList.c`, `FreeList.c` | a sorted event queue; nodes that serve two chains | schedule, remove, shut down; add, delete, destroy | timer worker, callers; whoever holds the owner's lock |
| vector, node registry | `vmp/src/vmp_vector.c`, `vmp/src/vmp_node.c` | one block of elements | add, set, remove, resize; register, find | start-up |
| cache, utilities | `mw/cache/*`, `common/utils/*` | filled at start-up | look up, read | all |

Interaction: a listener thread accepts and writes the socket into a stream
server's relay pair; that server's thread creates the session node and
registers the bufferevent; the first packet starts the URL query on the HTTP
thread; its answer makes a publisher node and gives its thread function to the
pool as a persistent job; the publisher thread takes packages from the
session's list. Closing goes the other way and can begin on any of the three
threads. Nothing but `list_mutex` and the pool's `mutex` synchronises them.

What is hard here: the lifetime of a session shared by three threads, guarded
by plain integers; a condition variable signalled without its mutex; a pool
call that gives up its mutex in the middle; results that are ignored. The
properties that make each part correct:

* session: no access after free, one release per session, a release in the
  end, an ordered stream without holes;
* pool: the thread limits, exact counters, each accepted job run once, calls
  that return;
* servers: no socket lost or handled before the server is ready, an exact
  count of clients;
* parsers and buffer: what is drained is what was parsed, whatever way the
  bytes arrive; writes stay inside the buffer;
* URL query: one answer per query, no use of a freed node, nothing pending for
  ever;
* timer: no oversleeping, no event twice or never;
* list, free list, vector: they are sequences, and memory has one owner.

`PROJECT.json` lists the hazards line by line.

## 2. Plan

Done, in this order: the session and its races; the pool; the stream servers;
the pure and pointer level parts below them (buffer, framing, NAL units, list,
vector); the pool's shutdown, removal and priorities; the timer; the URL query
with libevent's HTTP client; the RTMP connection. Five abstract specifications
are stated and refined: `SessionLife`, `PacketChannel`, `ItemList`,
`QueryService` and `GenericVector`.

Composition: `SessionRaces` extends `StreamSession`, `ThreadPoolLife` extends
`ThreadPool`, `StreamStart` joins `UrlQuery` and `RtmpPublisher`, `Structures`
the four data structures. The other modules meet at named interfaces:
`StreamServers` starts the sessions `StreamSession` describes; `Jt1078Framing`
refines its read handler's "packet" and `H264Depacketizer` its "0 to `MaxNalus`
packages"; `StreamStart` refines its `QueryAnswer`, its "lost" query and its
`connected`; `TimaBuffer` is the buffer under `H264Depacketizer`, `LinkedList`
the queues of `ThreadPool` and `TimerThread`.

Left: one composition of `StreamSession` with `Jt1078Framing` and
`H264Depacketizer`, in place of the named interfaces; the token request and the
configuration files.

## 3. Modules

### StreamSession

One session and its publisher. The variables carry the names of the fields
they stand for (`cond`, `running`, `publish`, `list_size`, `nalu_list`,
`connected`); `pcond` is the publisher's `cond`. Memory is the variables `node`
and `pub` ("live", "freed"), the bufferevent is `bev`. `pc` gives the position
of the threads "stream" (the event loop of the session's stream server),
"hbase" (the HTTP loop) and "pub" (the pool thread of the publisher).

Each access to a shared field is one step, because no lock covers the flags;
the critical sections of `list_mutex` are one step each, except that
`list_del_nalu`'s test and its wait are two, so that the unlocked broadcast can
fall between them. Steps and code:

* `Receive`, `PeerClose`, `ReadCallback`, `EventCallback`: libevent's
  `bufferevent_readcb` and its deferred callbacks (read before event);
* `RdCheck` ... `RdExit`: `stream_input_handler` with `media_stream_proc` and
  `h264_stream_proc`. A packet is "video", "other" (audio, transparent data) or
  "bad" (a wrong magic, or a body the copy buffer cannot hold); a video packet
  yields 0 to `MaxNalus` packages;
* `EvCond`, `CcCond`, `CcWait`, `CloseBranch`, `PushEnd*`, `Release*`,
  `ListClearOut`: `stream_socket_eventcb`, `client_connection_close`,
  `rtmp_push_end` and `h264_stream_release`, for whichever thread runs them;
* `QueryAnswer`, `Push*`: `url_query_callback` and `rtmp_push_start`; a query
  may also be "lost", since the result of posting it is ignored;
* `Pub*`, `ListDel*`, `CondWait`, `SpuriousWakeup`: `rtmp_publish_thread`,
  `list_traverse`, `list_del_nalu`;
* `UseFreed`: a step whose memory is gone. It records `fault` and the thread
  stops; the other threads go on, which is one outcome undefined behaviour
  allows and the one that shows what the rest of the code still does.

Packages are numbered in queueing order; `added`, `popped` and `lastSent` are
the last numbers queued, taken and sent. Left out: bytes, timestamps, the read
watermark, log output.

### SessionRaces

`StreamSession` with a history variable `raced` that records which of five
windows a behaviour went through. It never restrains a step. The windows are
predicates over the state: a release before the publisher is attached, a second
close, a publisher that overtakes `rtmp_push_end`, a read handler that entered
after its closer looked, and a lost wakeup. The module also states the
fairness used for liveness.

### SessionLife

What a session promises: packages are queued, and sent in that order, each at
most once and none left out; the session is closed, counted out of `client_cnt`
once, and released; nothing is queued or sent behind the release. `Break` is a
race, after which only the order of the packages is promised. `SessionRaces`
maps it to the code's fields: `added`, `lastSent`, the number of decrements of
`client_cnt`, and `Life`, which is "broken" once a memory window was open, else
"released" when the node is freed, "closing" when the session's `cond` is
cleared, and "open".

### ThreadPool

Every operation of the pool runs under `tp->mutex` and gives it up only in a
condition wait, so a step is the code from one such point to the next. A client
is outside, or waits at one of the three waits of the code: for someone else's
worker to start ("cw_pending"), for its own ("cw_start"), for the slot to be
emptied ("ap_wait"). `asleep` is the set of clients that are blocked on
`start_and_shutdown`; a broadcast empties it, and `ClientWakeup` is a spurious
wakeup. A worker is "none", "starting", "top" (about to enter the loop's
critical section), "idle", "awake", "timedout" or "run". `AddWorker`'s locals
survive the wait in `cjobs` and `cthreads`. `BumpPriority` may find any prefix
of the low and medium queues starved; the clock is in `JobPriorities`. A job is
known by the number of the call that made it. `Init` is the pool after a
successful `ThreadPoolInit`: with the program's minimum of 0 threads it creates
none, and a pool that fails to initialise is shut down before anybody has it.
Left out: statistics, priorities
of the kernel, allocation failure, `SetAttr` and `INFINITE_THREADS`.

### StreamServers

The listener thread (`lpc`) creates `NumServers` server threads and listens
without waiting for them, since `barrier_wait` is commented out. A server
thread (`spc`) goes through `setup_server` one shared field at a time: its event
base, the pair, the callback, enabling. `Accept` copies the server's event base
into the message, as `server_accept_handler` does; `Relay` writes it into the
pair. The pair has one lock, so `Relay` and `SetupEnable` include the transfer
libevent makes under it, and `RelayCallback` clears `readcb_pending` before the
handler runs. `handle_message` is split at its accesses to `flowid` and
`client_cnt`, each increment a load and a store. A session is "started",
"served" once its first packet has set other threads to work, and then released
on its server's thread or on another one; its inner life is `StreamSession`,
whose double release is left out here so that the drift of the count has one
cause. `client_cnt` wraps at `CountMod`, 2^32 in the code. Failing
`pthread_create`, bind and `evbuffer_add` are actions; the first two, like a
NULL pointer, end the process (`fault`), after which no step is possible.
`early` and `crowded` are history: connections accepted before their server was
set up, and counters that two threads were changing at once. Left out: the
address, the log output, the node registry that `node_create` reads.

### ThreadPoolLife

`ThreadPool` with `ThreadPoolShutdown` and `ThreadPoolRemove`. `Shutdown` is the
critical section that frees the queued jobs and sets `shutdown`; `Destroy` the
code after its wait. `WorkerStops` is a worker that sees the flag, at the top of
its loop or after a wait. `PoolStep` admits the steps of `ThreadPool` while the
pool lives and begins no call after the shutdown. `Remove` looks at the high, medium and low queue and the
slot in that order.

### JobPriorities

The three queues with the times `BumpPriority` compares. `SetClock` may set any
time, since `gettimeofday` is not monotonic. One turn of `BumpPriority`'s loop
is one step: `BumpMed`, `BumpLow` or `BumpDone`, then `Pick` by priority.

### TimerThread

`TimerThreadSchedule` is a step that computes the time (`CalculateEventTime`)
and a later one that inserts under the mutex (`Enqueue`); `calls` says whether
the job itself will use the timer. `JobKinds` are the kinds of job that are
scheduled: short or persistent, using the timer or not. The worker's turn is `WorkerLock`, then one
of exit, hand-on (`WorkerAdds`, `WorkerAddsPersistent`) or wait. The pool is
what the timer sees of it. `WorkerAddsPersistent` keeps the mutex while it waits
for a thread to take the slot, as the code does; `Accepts` is the pool's test of
its free threads. A persistent job need not return. Nothing in the program starts
a timer thread; the module describes the library as it is.

### LinkedList, ItemList

Pointers `next`, `prev` and `item` per node. The free list's `next` lies on
`prev` (`FreeListNode` overlays `ListNode`), so freeing a node overwrites it.
`CreateListNode` takes the head of the free list or new memory, or fails.
`ListDestroy` is one step per node. `ItemList` is a sequence with insertion and
deletion at a position; the refinement maps it to the items along `next`.

### TimaBuffer

`used`, `total` (the recorded size) and `blockSize` (the real one) of
`tima_buffer.c`. An append is `Strdup` or `StrdupEx`, then `Grow` once per turn
of the loop of `tima_buffer_expand`, `Realloc` or `ReallocFails`, and `Write`. `Align`, `Reset`, `Clean` are the
remaining operations. Contents are left out.

### Jt1078Framing, PacketChannel

A stream is a sequence of packets with a position, a size and the size their
header claims; the input buffer is the interval of positions from `drained` to
`received`. `Arrive` is `bufferevent_readcb` with the watermarks and
`bufferevent_inbuf_wm_cb`; `Parse` is `packet_jt1078_parse`: 0 (wait), -1 (bad
magic) or the length to take; `Take` is one turn of `stream_input_handler`.
Close by another thread is `CloseDisable` and `CloseCond`. `PacketChannel`
delivers a prefix of the packets in order and may stop.

### H264Depacketizer

Bytes matter here: a stream is a sequence of bytes with the offsets of the NAL
units in it, and is cut into bodies anywhere. `StreamsAssumption` says what the
offsets have to do with the bytes, and is Annex B of H.264, not this program: a
start code of three or four bytes before each unit, no start code inside a
payload (the encoder's emulation prevention), a last payload byte that is not
zero (the RBSP stop bit), at least two units, the last one up to the end. Its
clause that a unit lies behind every earlier one follows from the others, but by
induction over the units; it is stated so that the proofs may use it. `out` is
what `list_add_nalu` queued, one group of packets for the configuration and one
per unit read. The type of a unit is the low five bits of its first byte
(`TypeOf`). `find_start_code`, `nalu_read` and
`MetaGet` are `tima_h264_parse.c`; `Body`, `Nalu` and `Align` are
`h264_stream_proc`. A record that the code reads uninitialised is a separate
step (`MetaUndefined`), as are a lost append, a configuration that finds no
memory (`MetaAllocFails`), a packager that fails, and an alignment past the fill
level (`AlignOverrun`), after which nothing more is
said. The layout of FLV tags is left out.

### UrlQuery, QueryService

A query is the node of `tima_get_property.c`, its `evhttp_request` and its
connection. The caller makes the node (`Query`), posts it and then frees the
posted text through the node (`FreePostData`); the HTTP thread connects,
retries with a timer, writes, reads first line, header, body, chunks and
trailer, and calls back. Every state of the connection can fail. A reply is
what `tima_get_property_json_parse` distinguishes. `QueryService` begins and
answers each query at most once.

### VmpVector, GenericVector

The vector of `vmp_vector.c`: capacity, size, elements, the identity of the
block, flags. Every call is an action, a call that needs memory may fail.
`fault` records a write outside the block. `UnregisterClass` is the registry's
search and removal. `GenericVector` is a sequence with `Put`, `RemoveAt` and
`Cut`, and two ways to end, after which nothing is promised: `AddOverruns`, only
behind one to three elements, and `ResizeOverruns`. Which call makes a step is
not part of it: the refinement says that the elements change in one of these
ways, not that `tmVectorSetSize` is the call that cuts.

### RtmpPublisher

What a publisher holds of the outside world: the RTMP object, whether it
counts as connected, its socket, and a thread of the pool. The connecting steps
are those of `tima_rtmp_connect`, each of which may fail; librtmp is external:
`RTMP_Connect` closes its socket when it fails, and a failing send may close it
too. The loop of `rtmp_publish_thread` is `Traverse` (the test of `cond`), then
`list_del_nalu` at "list": a package is there (`Send`, `SendFails`) or the thread
waits on `cond_empty` (`CondWait`) without looking at `cond` again.
`rtmp_push_end` is two steps, `Set` and `Broadcast`, and takes no mutex, so the
publisher may fall asleep between or behind them (`LostWakeup`). What the list
holds, and the memory the closing threads share, is `StreamSession`'s.

A publisher waits in the pool's slot ("slot") until one of the `PoolThreads`
threads takes it up. The model counts the threads the pool has for publishers;
the server threads are persistent jobs from start-up on and never come back.

### StreamStart

`UrlQuery` and `RtmpPublisher` for the same sessions: `PushStart` is
`url_query_callback` with `rtmp_push_start`, part of the HTTP thread's step that
answers the query. An answer with NODE_SUCCESS puts the publisher into the
pool's slot, or the pool refuses it; every other answer leaves the session
without one. While a publisher is in the slot the HTTP thread waits in
`ThreadPoolAddPersistent` and serves no query (`HttpFree`). The callback is one
step up to that wait, so the query's node counts as freed while the code still
waits and frees it after; nothing else of the query happens in between but the
caller's `FreePostData`, whose late access `NodeLifetime` admits anyway.

### Structures

`TimaBuffer`, `LinkedList`, `VmpVector` and `JobPriorities` side by side. They
share no memory and each is used under its owner's lock, so a behaviour
exercises one of them (`exercised`) and leaves the others as created.

The definitions introduced by "Mutant of" are deliberate faults: each shows
that a property notices it.

## 4. Runs

| run | configuration | checks |
|---|---|---|
| `session` | 2 packets, up to 2 packages each, fairness | `QueueInOrder`, `FaultNeedsRace`, `ReleasedOnceUnlessRaced`, `GaplessStream`, `SessionSpec`, `EventuallyReleased` |
| `pool_life` | 3 workers for a limit of 2, 2 clients, 2 calls, failing thread creation, time-outs, removal and shutdown at any moment, fairness | `TypeOK`, `ThreadBounds`, `BusyExact`, `OneFate`, `ShutdownEnds` |
| `pool_progress` | 2 workers, 2 clients of which one adds persistent jobs, 4 calls, fairness | `NoJobLost`, `CallReturns`, `QueuedStarts` |
| `servers` | 2 servers, 2 connections, failing calls, fairness | `FaultNeedsEarlyAccept`, `RelayInOrder`, `NotificationKept`, `CountExactUnlessCrowded`, `FlowIdsDistinct`, `EveryConnServed` |
| `timer` | 1 client, 2 pool threads, 3 events, short jobs that schedule and persistent ones that do not, clock up to 1, fairness | `NeverOversleeps`, `OneFate`, `DueHandedOn`, `ShutdownReturns` |
| `stream_start` | 2 sessions, 1 pool thread, 1 retry, fairness | `NodeLifetime`, `SendsOnlyH264`, `ServiceSpec`, `SocketReturned`, `QueryLeadsToPublisher` |
| `framing` | all streams of up to 3 packets of 5 shapes | `CompleteWaits`, `SuspendedOnlyStalled`, `ChannelSpec` |
| `h264_units` | streams of 5 units, bodies of up to 21 bytes, one failure | `UnitsExact`, `OverrunOnlyAtCodeEnd` |
| `structures` | a first block of 2 bytes and appends of up to 5; 3 nodes, 2 items, free list of 3; 2 values, capacities up to 5; 3 jobs, a clock of 3 values | `WriteInBlock`, `ListConsistent`, `ItemListSpec`, `VectorSpec`, `PinnedStays`, `SamePriorityInOrder` |
| `session_double_release` | 2 packets, up to 2 packages | `ReleasedOnce` is violated |
| `pool_slot_overwritten` | 2 clients, persistent jobs only | `NoJobLost` is violated |
| `pool_shutdown_starting` | 2 workers, 2 clients, 2 calls | `ShutdownWaits` is violated |

Bounds. The session's control does not depend on the packet number after the
first one names the session; two packets give a first and a later one, and two
packages per packet make the list longer than one, so that the broadcast on the
empty list, the plain append and the clearing of several nodes all happen. The
pool's limit of 2 threads is the smallest at which one thread can be persistent
and one not; the third worker identity is there for a limit that fails; two
calls suffice for a shutdown that meets a starting worker and a full slot, four
for a pool that fills up, idles and is asked again. The minimum of
0 threads is the program's own; `BoundsCorrect` covers the others. `cthreads` is
counted up to one above the queued jobs, beyond which `AddWorker`'s test does
not depend on it. Two servers are needed for two threads at `flowid`, and two
connections let a session be counted in while another is counted out, or both
wait in one pair. Three timer events fill two pool threads and the slot, with
every mixture of short and persistent jobs, and two times give due and future
events and every order. Two sessions compete for one thread of the pool, so that
the HTTP thread waits for the first publisher while the second query is open;
with one retry there is an attempt that is repeated and one that is the last,
where the code has three retries and the theorems any number; `MaxContinues`
bounds the "100 Continue" replies, which the code takes without limit. In
`framing` the sizes are scaled down (header 3, copy buffer 6, watermarks 7 and
9) so that packets shorter and longer than the copy buffer, claims beyond the
packet and a full input buffer all occur within three packets. Streams of five
units hold the parameter sets in front, both start codes and a second parameter
set in the middle; a body may end at every byte. A first block of 2 bytes makes
the growth by half pass every small size, the equal one included. Three list
nodes give an inner node, and the free list overflows. Capacities up to 5 lie on
both sides of 4, where a quarter more begins to be more. The clock's three
values lie below, between and at the two waiting times. Deadlock is not checked:
a session ends, a pool at rest waits for calls, the servers wait for
connections, and a bounded number of calls is made.

Fairness. Every thread that is not blocked runs (`WF` per thread). The NALU
list's mutex is held for a few instructions at a time, so a thread that waits
for it gets it although the publisher may take it in between (`SF`). A short job
returns, a persistent one owes nothing, and neither does the peer. `IdleIsLong`
is the assumption that `maxIdleTime` (5 s) is longer than the time a woken
client or a new thread needs to run; without it `AddWorker` may start worker
after worker, each of which dies before the caller looks. It is used in
`pool_progress`, where one client only adds persistent jobs: two may overwrite
the slot, which is the finding of `pool_slot_overwritten`. `ThreadPoolLife`
assumes that running jobs return, persistent ones included, as a shutdown must. In `StreamServers` the listener finishes
handing over a connection, the server threads run, and a release that began
ends. In `StreamStart` the HTTP loop runs and every state of a connection ends,
since libevent arms a time-out for connecting, reading and writing and a timer
for each retry (a peer that keeps sending a byte before each time-out is
excluded); a free thread takes the job in the slot, the publisher's thread runs
and librtmp's blocking calls return, and a closer that cleared `cond` makes its
broadcast. Nothing is assumed to end a session, to fill its list or to wake a
publisher that waits. In `TimerThread` time passes, the timer's worker runs, and
the pool's threads take jobs and finish the short ones; persistent jobs need not
return.

What the violations show:

* `ReleasedOnce`: the peer closes as the URL query fails (or as a send fails);
  both threads pass their tests and run `h264_stream_release`, which decrements
  `client_cnt` twice and frees the session twice.
* `NoJobLost`: `ThreadPoolAddPersistent` writes the slot without looking. Two
  callers that reach it together lose a job, and both are told it succeeded.
* `ShutdownWaits`: a thread that was created but has not run yet is not in
  `totalThreads`; the shutdown destroys the mutex the thread will lock.

Further places where code and comments differ show in the passing properties, as
the exception each of them names:

* `WriteInBlock`: when growth by half reaches exactly `used + length`, the
  terminating zero is written one byte behind the block (`tima_buffer.c:36`, 87);
* `CallReturns`: with all threads busy with persistent jobs the difference
  `totalThreads - persistentThreads - 1` is -1, not 0, and the call blocks
  although the comment at `ThreadPool.c:788` says it fails. With two clients it
  can block below the limit as well: a caller's new worker is taken by another
  caller's job while the first one waits for the mutex;
* `CountExactUnlessCrowded`: a server's thread loads `client_cnt` for a new
  session, a publisher thread decrements it for an old one, and the server's
  store undoes the decrement; the comments at both places ask for the lock;
* `AddOverrunsOnlyTiny`: when a vector of capacity 1 to 3 cannot be doubled, the
  fallback of a quarter more is no growth, counts as success, and the element is
  written behind the block;
* in the definitions themselves: `LowStarved` compares low priority jobs with
  `maxIdleTime` where the comment speaks of the starvation time, and
  `FreeListFree` tests `length + 1 < max`, so the free list never reaches its
  maximum. `AddDone` advances `lastJobId` after a point where the mutex may have
  been given up, so two calls can share a number.

What the refinements show. `SessionSpec`: seen from outside, a session lives as
`SessionLife` says in every interleaving, until one of the four memory windows
opens. `ChannelSpec`: however TCP cuts the stream, the
session sees whole packets in order, each once, up to the first one it cannot
take. `ItemListSpec`: the pointer list is a sequence. `ServiceSpec`: a query is
answered at most once, whatever fails. `VectorSpec`: the vector is a sequence
until a call writes outside its block, which adding does only behind one to
three elements. All five are proved as well (section 5).

Reachable and excluded by name, not hidden: `UnitsExact` says nothing of a
stream that lost a body, met a failing packager or an unset record;
`DueHandedOn` excludes a timer's worker that stays in `ThreadPoolAddPersistent`
with its mutex because every pool thread has a persistent job, or because those
that have not, two or more, wait for that mutex; the run reaches both.
`SocketReturned`, like `EventuallyReleased`, excludes a publisher that sleeps on
after the broadcast that was to end it (`bll_h264_stream.c:622`): such a
publisher keeps its socket and its thread for ever. `QueryLeadsToPublisher`
excludes the HTTP thread that stays in `ThreadPoolAddPersistent` because
publishers hold every thread (`ThreadPool.c:790`): then no session gets an answer
any more. `NodeLifetime` admits the one case it names, an answer
that overtakes the caller. A publisher that never connected keeps its RTMP
object, which `rtmp_publish_disconnect` does not free; `SocketsCorrect` says that
it keeps no socket.

The session's races are not stated as one violation each: `FaultNeedsRace` is
the positive form. It says that the four memory windows are complete, which is
what a repair has to close.

## 5. Proofs

Every invariant and every safety property that a passing run checks, the five
refinements included, is proved for all values of the constants. Each invariant below was
checked by TLC on the run's instance before it was proved.

**`StreamSessionProofs`** (the session, for every `MaxPackets` and `MaxNalus`;
assumption `BoundsAssumption`). Three invariants, each proved action by action:

* `IInv == TypeOK /\ QueueInOrder /\ PacketHeld` gives `TypeCorrect` and
  `QueueCorrect`. `QueueInOrder` alone is not inductive: `RdNext` takes the
  head of `input`, which exists only because `RdPacket` saw it and nobody else
  removes from it.
* `Ordered` gives `GaplessCorrect`: `Spec => GaplessStream`, an action property
  that holds in racy behaviours too. The publisher sends what it pops
  (`SentWhatPopped`) and pops the oldest package not yet popped (`OldestNext`).
  A failed send breaks this, and `EndOrder` says why nothing is sent after it:
  the publisher comes back from closing only with its `cond` cleared or the
  node freed. `StartOrder` says that `cond` is never set again. `ListClearOut`
  could leave a gap, but the HTTP thread runs it only without a publisher, the
  publisher pops nothing after it, and the stream's thread queues nothing
  between it and the free.
* `RInv` gives `FaultCorrect` (`MSpec => []FaultNeedsRace`) and
  `ReleaseCorrect` (`MSpec => []ReleasedOnceUnlessRaced`). While no memory
  window has been open, a session is in one of six phases: open; closed by the
  failed query, by the failed send, by the peer before there is a query, by the
  peer with a publisher; ending. A phase fixes who may close, who holds the
  node, and how far `h264_stream_release` is. `PhaseStep` shows that a step
  that opens no window leads from phase to phase, and that in no phase a thread
  reaches freed memory. The windows are needed in exactly seven actions:
  `ReadCallback`, `EventCallback`, `EvCond`, `CcCond`, `CcWait`, `PubSendFail`,
  `PubExit`. Those are the places where a repair has to act. `WatchCalm` ties
  `raced` to the windows, and `WatchedIsSession` says that watching restrains
  no step.
* `SessionCorrect`: `MSpec => SessionSpec`, the refinement. `Footprint` sorts
  the steps: one queues, one sends, one counts out, one frees, and the others
  leave all of this alone and at most clear `cond` of a live session.
  `CountSteps` gives the abstract step of the first three, from `IInv` and
  `Ordered`, and so holds in racy behaviours too. While no window has been open
  (`WInv`), the phase gives the rest (`PhaseLife`): a send and a count happen to
  a live session, a count only after the close and to a session not yet counted
  out, a free only to one that was. `QuietSteps` says that a step that queues,
  sends or counts opens no window, so a step that opens one is `Break` and
  nothing else.

**`ThreadPoolProofs`** (every set of workers and clients, every number of calls,
all attributes; assumption `PoolAssumption`).

* `BoundsCorrect`: `Spec => []ThreadBounds`, from `BInv`. That
  `pendingWorkerThreadStart` equals the number of threads on their way up is
  what lets `CreateWorker`'s test of `totalThreads + 1` stand for all threads.
* `PoolCorrect`: `Spec => [](TypeOK /\ BusyExact /\ RunsOnce)`, from `PoolInv`.
  `JobsApart` says that the queues, the slot and the jobs that waiting clients
  carry are disjoint from each other and from what was started; `WorkInv` ties
  the counters to the workers' positions.
* `LifeTypeCorrect`, `LifeBusyCorrect`, `LifeBoundsCorrect` and
  `OneFateCorrect`: the same with removal and shutdown. A step of the pool
  brings no old job back (`NothingBack`), so what was removed or freed stays
  out (`Gone`). The lower limit holds until the shutdown, which ends all
  threads; counters and upper limit hold throughout.
* `NoJobLostCorrect`: `Spec => []NoJobLost` under the hypothesis `OneAdder`
  that at most one client adds persistent jobs. The hypothesis cannot go: the
  run `pool_slot_overwritten` shows the loss with two. `KeptInv` follows a job
  from the call through the wait (`Lent`) to the return (`Granted`).

**`StreamServersProofs`** (every number of servers, every finite set of
connections; assumption `ServersAssumption`).

* `RelayCorrect`, `NotificationCorrect`, `FaultCorrect` from `IInv`.
  `SetupOrder` ties the fields of a server to the progress of its thread, which
  is why a transfer always finds the callback set; `ThreadsMade` says that
  every server thread exists before the listener accepts; `HandEarly` and
  `MessagesEarly` follow a NULL event base from the accept through the pair to
  the session.
* `TypeCorrect`, `CountCorrect`, `FlowIdsCorrect` from `CInv`, which adds
  `RelayedOnce` and `StagesKept` (a connection's state follows from its place
  among the messages relayed and taken, so that a connection is counted once),
  `FlowsBelow` (no session has a larger flow id than the counter) and
  `CountsKept` (the register of the one thread that changes `client_cnt` is up
  to date). The count cannot pass `CountMod` because there are fewer
  connections.

**`TimerThreadProofs`** (every number of callers, threads and events, any time
and every set of kinds of jobs; assumption `TimerAssumption`): `TypeCorrect`, `NeverOversleepsCorrect`,
`OneFateCorrect`. The common invariant `TimerInv` adds `Sorted` (the queue is in
the order of the times, so that its head is the first event) and `SlotIsHead`
(the event that is being handed on as a persistent job is still the head of the
queue, which the worker's mutex protects). The first lemmas say what insertion
and deletion at a position do to a sequence without repetitions.

**`Jt1078FramingProofs`** (every stream, all sizes and watermarks): `TypeCorrect`,
`WaitsCorrect`, `SuspendedCorrect`, `StalledCorrect` and the refinement
`ChannelCorrect`. The invariant ties the front of the buffer to the last packet
delivered (`drained = Front`): that is why at most one packet begins at the
front, why it is the next one, and why nothing is taken again. Assumptions:
`StreamAssumption` (packets lie end to end, and a claim is at least a header)
and those on the sizes.

**`H264DepacketizerProofs`** (every stream, every cut into bodies; assumptions
`BodyAssumption` and `StreamsAssumption`).

* `OverrunCorrect`: `Spec => []OverrunOnlyAtCodeEnd`, which does not need
  `StreamsAssumption`. `nalu_read` counts a start code twice only when the code
  ends the buffer, and then it is a four byte one, since three bytes at the end
  are not searched (`NaluInBuffer`); otherwise `pos` stays in the buffer
  (`PosInBuffer`).
* `UnitsCorrect`: `Spec => []UnitsExact`, from `UInv`. As long as nothing failed
  and nothing unset was used, the buffer is what was received without a prefix,
  and `pos` in it is where a unit's payload begins; which unit, the number of
  groups queued tells, and those are the groups of the units before it. The work
  is in what `nalu_read` finds from there: inside a payload, across its end and
  in front of a four byte code there is no start code but the next unit's, and
  that one is found as soon as four bytes behind the payload are there.

**`StreamStartProofs`** (every set of queries, every number of retries and of
pool threads).

* Of the query: `TypeCorrect`, `NodeCorrect`, `AttemptsCorrect`,
  `SuccessCorrect` and the refinement `ServiceCorrect`. The strengthening is
  `CallerAgrees`: before the request is made there is nothing but the node, and
  after it the query has an outcome.
* Of the composition: `StartIsQuery` (`StartSpec => Spec`), so that all of this
  carries over (`StartNodeCorrect`), and `SendsCorrect`:
  `StartSpec => []SendsOnlyH264`. `StartedAnswered` says that whatever a
  publisher did, its query was answered with success, and the refinement says
  that an answer is final.
* `SocketsCorrect`: `StartSpec => []SocketsOwned`, the safety half of
  `SocketReturned`: an open socket belongs to a thread that is between
  `RTMP_Connect` and `RTMP_ConnectStream`, or is in its loop with `connected`
  set, which is what `rtmp_publish_disconnect` tests. It is inductive with the
  types, and holds for lost wakeups and full pools too.

**`StructuresProofs`** (the four data structures, all their constants).

* Buffer: `WriteCorrect` and `UsedCorrect`. `BlockHoldsTotal`: the real block is
  not smaller than the recorded total, also after a failed realloc; `RoomMade`:
  at the copy the data fits, and fills the total only right after a growth to
  exactly that size.
* Vector: `VecTypeCorrect`, `TinyCorrect`, `PinnedCorrect`
  (`VecSpec => PinnedStays`: while a pointer is out the block is neither moved
  nor freed; `PinnedAlive`, only a live vector is pinned, is why `Create` cannot
  disturb it) and the refinement `VectorCorrect`: `VecSpec => VectorSpec`, one
  abstract step or a stutter per call; `TinyCorrect` is what makes an overrun of
  `tmVectorAddElement` an abstract one.
* List: `ConsistentCorrect` and the refinement `ListCorrect`. The three
  conjuncts of `ListConsistent` are inductive only together: a node from the
  free list leaves the chain intact only if it is not in it, and the head of
  the free list is a node only if the links of spare nodes are intact.
* Job queues: `OrderCorrect`: `PrioSpec => []SamePriorityInOrder`. `BumpPriority`
  moves heads to tails only, and a queue never holds a job of a higher priority
  than its own (`OnlyMovedUp`).
* `StructuresCorrect` carries all of it over to the composition the run checks.

Proved without a run: the types of the session, the servers, the timer, the
framing, the query and the vector, `RunsOnce`, `UsedInside`, `StalledStays`,
`AttemptsBounded`, `SuccessIsH264`, `SocketsOwned` and `AddOverrunsOnlyTiny`.

Only model-checked:

* the liveness properties (`EventuallyReleased`, `ShutdownEnds`, `CallReturns`,
  `QueuedStarts`, `EveryConnServed`, `DueHandedOn`, `ShutdownReturns`,
  `SocketReturned`, `QueryLeadsToPublisher`): fairness and `ENABLED` are beyond
  the provers;
* the three violations, which are single behaviours.

## 6. Not modelled

Most lines of the repository are not this program's: the headers of installed
dependencies (sqlite3, curl, libevent), libevent, jansson and iniparser. Of
libevent the models hold what the program relies on: the socket bufferevent's
reading, watermarks and deferred callbacks, the relay pair, and the HTTP client
connection. Its event loop, buffers, DNS, HTTP server and other back ends, and
jansson, are taken as given.

Of the program itself:

* `ThreadPoolStop`, `ThreadPoolSetAttr`, `ThreadPoolGetAttr` and the pool's
  statistics: nothing calls them;
* the FLV tags and AAC packets of the packagers: straight-line byte copying
  without state; librtmp and the audio codec are external, and the audio branch
  of the session is empty;
* configuration and cache (read once at start-up into fixed fields), logging,
  file and string helpers;
* the token request, which the core thread never reaches, the demos and the
  unused TCP server.

`PROJECT.json` gives the status and the reason part by part.
