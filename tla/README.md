# Verification of the systems and network programming labs

TLA+ models, model-checking runs and machine-checked proofs for the C programs
of this repository: five labs and a VPN. Every definition was translated from
the C source; `PROJECT.json` gives the lines each one stands for, and the
comment above each property says which behaviour of the code it is about.

## 1. The system

The repository holds independent programs; what they share is the style of
systems programming: processes and threads that meet over sockets, pipes,
FIFOs, an eventfd, a lock file or a network that loses datagrams.

| part | state it keeps | operations | what is hard |
|---|---|---|---|
| **VPN tunnel**, `FINAL VPN-PROJECT PART2`, `step6b authentication` ("the main heeat of the project", `README.md`) with step6a, and `step5b`, without a token | per host: `now`, `last_keepalive_sent`, `last_packet_received`, `peer_alive`; datagrams in flight | forward a packet from the TUN device, receive DATA or KEEPALIVE, send keepalives, notice silence | clocks of two hosts, loss, duplication, reordering, crash and restart, blocking reads after `select()`, times that are old when they are stored, datagrams of strangers |
| **Dynamic renderer**, `Lab5/task5` | queue of row chunks, worker table (state, chunk, time), rows received, image | accept, hand out a chunk, collect a result, give a lost chunk back, time out, terminate | workers that die, hang or are slow at any point of the exchange, half-sent messages, SIGPIPE |
| **Static renderers**, `Lab5/task4-con` and `task4` | sockets, image | accept, send a share, receive a share (`task4-con`) | lost workers, an `accept()` that fails, a wrong success message |
| **Key-value store**, `Lab3` | an array of slots | set, get, delete | holes left by deletes, a full table |
| **Key-value over UDP**, `Lab3` | requests and answers in flight, retry counter | request with time-out and retry; answer | late requests and answers, duplicated requests, a reader or the store going back in time |
| **Key-value over TCP**, `Lab3` | connections, epoll events, sockets' contents | accept, read a request, answer, close | edge-triggered events, reuse of descriptors, clients that die |
| **Web servers**, `Lab4/task1` to `task4` | connections; a ring of descriptors with mutex and condition; an epoll | accept, hand over, answer, close | threads, inherited descriptors, clients that hold up or bring down a single process, a ring that overruns, edges, full sockets, a full descriptor table |
| **Log servers**, `Lab2` | FIFOs, descriptors, edges; an eventfd | read a message and log it, alert, open a FIFO on request, stop | edge-triggered reads, several messages in a read, FIFOs that lose their writers, threads that race for data |
| **Daemons**, `Lab1` | pid file and its lock; two pipes, a running sum | start, refuse to start twice, exchange numbers, time out, stop | what a lock belongs to, deadlock at shutdown, full pipes, killed processes |

The programs do not interact with one another, except that the key-value
clients and servers, the masters and workers, and the log clients and servers
are pairs. `KvUdp` and `KvTcp` therefore extend `KvStore`, and `DynamicRender`
uses the chunk arithmetic of `RowChunks`.

## 2. Modules and plan

The order is that of importance: the two programs with the richest failure
handling, then the store and its two services, then the servers that are all
concurrency, then the daemons.

| module | models | status |
|---|---|---|
| `RowChunks` | `build_queue()`: how the rows are cut into chunks | done |
| `ChunkPool` | *abstract*: what the dynamic renderer promises, a pool of chunks of which each is done once | done |
| `DynamicRender`, `MCDynamicRender`, `DynamicRender_proofs` | master, workers, protocol of `Lab5/task5` | checked and proved |
| `VpnTunnel`, `MCVpnTunnel`, `VpnTunnel_proofs` | step6b (and 6a) and step5b, chosen by `step` | checked and proved |
| `KvMap` | *abstract*: a bounded map | done |
| `KvStore`, `KvStore_proofs` | `kv_store.c`, an implementation of `KvMap`; it runs inside `KvUdp` and `KvTcp` | checked and proved |
| `KvUdp`, `MCKvUdp`, `KvUdp_proofs` | UDP client and server, on top of `KvStore` | checked and proved |
| `KvTcp`, `MCKvTcp`, `KvTcp_proofs` | TCP client, benchmark and epoll server, on top of `KvStore` | checked and proved |
| `WorkQueue` | *abstract*: a bounded queue from which each connection is served once | done |
| `HttpPool`, `MCHttpPool`, `HttpPool_proofs` | the web server with threads, an implementation of `WorkQueue` | checked and proved |
| `HttpEpoll`, `MCHttpEpoll` | the web server with epoll | checked and proved, in `Daemon_proofs` |
| `HttpFork`, `MCHttpFork` | the forking web server and the serial one, chosen by `server` | checked and proved, in `HttpPool_proofs` |
| `LogServer` | the clients, the FIFOs and the log servers with epoll, `Lab2/task1` to `task3` | checked and proved, in `LogStatic_proofs` |
| `LogEventfd`, `MCLogServer` | extends it by the log server with threads and an eventfd, `Lab2/task4` | checked and proved, in `LogStatic_proofs` |
| `StaticRender`, `MCStaticRender` | `Lab5/task4-con` and `task4`, chosen by `version` | checked and proved, in `LogStatic_proofs` |
| `PidLock`, `SumDaemon` and their `MC` modules | the daemons; `SumDaemon` in its three versions | checked and proved, in `Daemon_proofs` |

Everything that is to be proved about is written without recursive operators,
one action per operation, with invariants that are conjunctions of named parts.
What is left:

1. *Models.* Malformed requests in `KvUdp` and `KvTcp`; `Lab5/task6` once its
   `protocol.c` is complete.
2. *Abstract specifications.* A register that is served once per request for
   `KvTcp`; the pool of chunks, `ChunkPool`, for `StaticRender` too.
3. *Proofs.* Every state invariant and every refinement of a run is proved. To
   come: the refinements of item 2, and action properties (what a restart, a
   retry or a close may never do), as far as they say more than the invariants.

A theorem names the property it proves, so that modules with names in common
cannot be proved about together. Small components share a module of proofs with
another one that has none of their names: `HttpFork` with `HttpPool`,
`HttpEpoll` with the daemons, `StaticRender` with the log servers. That is why
some modules prefix their `Init`, `Next` and `Spec`.

## 3. How the models correspond to the code

General conventions. A process or a thread has a `pc` whose values name the
call it is in or about to make; a step runs up to the next point where
another process can see or change something. A connection is a sequence of
messages, or of the parts that `send_all()` sends one by one where a crash
between two parts matters. Messages carry what the receiver acts upon; pixels,
texts and addresses are left out. `Faults` (or a Boolean constant such as `MayHangUp`) is
the set of things the environment may do in a run; no fault is ever forced to happen. Definitions
introduced by "Slip to be caught" are not part of a model: they are plausible
mistakes in the definition that follows them, and `PROJECT.json` pairs each
with a property that notices the mistake.

**DynamicRender.** `pc` is the position of the master's loops in `master.c`, `i`
the worker they are at; `queue`, `queue_head`, `completed_rows` are the
variables of the code, the worker table is `state`, `chunk` and a flag for
"past `WORKER_TIMEOUT`". The workers' loop and `protocol.c` are actions on the two sockets
of a connection. A chunk of a lost worker is appended to the queue exactly as
`requeue_chunk()` does. The master implements `ChunkPool`: waiting chunks are the
queue from `queue_head` on, chunks in work are those of busy workers, done chunks
are those in the image.

**VpnTunnel.** Two hosts. Clock values are kept as *ages* (seconds since), each
cut off beyond what the code compares it with (`NowCap`, `SentCap`,
`ReceivedCap`); `Tick` lets a second pass for both. `pc` goes through `select`, the
clock section, TUN and UDP; `ready` is what `select()` has reported. A datagram has
its command, whether its authentication word is right, and its payload, which is in
clear or XORed. `step` says which program both hosts run, from the start: in step5b no word
is tested, and a packet counts as of the time that was read after `select()`
(`HeardAt`), which may be older than the packet. `send_test` is somebody else who sends a
datagram in clear with a text: step6b's own has the token (`"known"`), step5b's has none
(`"stranger"`), and `Authorized` says which program lets it in - step5b all, whose host then
gets the text XORed. `heard` is a history of the real silence, beside
`received`, the program's note of it. Texts and `Hosts`, the ends whose host routes packets, bound
what travels. step6a is step6b with `strcmp`
for `memcmp`, which tell the same headers apart. `Faults` gives each host the kinds of fault that may befall it.

**KvStore.** `kv_store_set`, `kv_store_get` and `kv_store_del` are actions on the
array of slots, with the loops of the code replaced by "the first slot such that";
refusals (too long, full, not found) are the code's return values. `KvMap` states
the same as a function from keys to values with a bound on its size.

**KvUdp, KvTcp.** The clients of `kv_client.c` and `kv_bench.c` and the servers
around the same store. In UDP, a caller's request and each retry are datagrams of
their own, and so are the answers. The time-out of 200 ms, doubled at each retry, knows
nothing of the network: a caller of `Hasty` may also end an attempt whose datagrams are
only late, so that its request can reach the store after its call has ended. In
TCP, descriptors are numbers that are reused and may run out: `accept()` then fails, the loop ends,
and what is in the backlog stays there without an edge (`AcceptFails`; `full` remembers it). The number a
server has is chosen at the start from `FdLimits`. An epoll batch is a set of events on descriptors, and the kernel's view of the other end (up, finished, reset) decides
what `recv()` and `send()` return: the second piece of an answer that is sent to a
client that has gone may meet a reset, and be a SIGPIPE or an error.

**HttpPool, HttpFork, HttpEpoll.** In `HttpFork` a child has the name of its browser;
in the serial server the parent runs `handle_client()` itself, so that a client that says
nothing or does not read (`Stuck`) or a SIGPIPE stops it for all. A client that has asked may stop
reading (`"stalled"`), which blocks the `send()` of a page that is larger than the two sockets; a page they
take goes out in any case, which is why no other kind of client that does not read is needed.
A client is one connection. A section under the
mutex is one step. The ring is modelled with its indices, so that it overruns as in
the code; `WorkQueue`, which it implements, knows neither indices nor descriptors, only
connections: those main has passed on (`PassedOn`), those in the ring in order
(`Queued`), and the one each worker has (`Serving`). The answer is what it is to the client: an end of file, a page, or (in
`HttpEpoll`) a page that a full socket has cut.

**LogServer.** FIFOs, with the readers and writers that have them open.
A `read()` takes everything there is, of which the first message is logged, as the
code parses its buffer once. What a FIFO holds is assumed to fit into the buffer.
`server` says which kind runs. **LogEventfd** adds the server whose threads read the FIFOs
and throw away what they read, add the *number* of the descriptor to an eventfd, and leave it to
`main` to read again from the descriptor with the number that it finds there, which may be a
sum of several. When the sum is the number of the eventfd itself, `main` reads the next sum and prints its
eight bytes as a line (`stray`).

**StaticRender.** `i` and the three loops of `master.c`; a result is absent, partly
or wholly in the socket. A `malloc()` that fails in `recv_result()` (`protocol.c:267`), which would skip
the share of a worker that lives, is left out. In `task4` there are two loops and a `sleep()`, and an entry of
`worker_sockets` that an `accept()` has not filled is any descriptor (`Target`).

**PidLock, SumDaemon.** A lock belongs to a file and to all processes that share the
descriptor, and a file may lose its name; both programs that use the name start in
the same model. `SumDaemon` runs one of three programs (`version`): the one that watches its child, the one
that blocks, and the one that ends after `Rounds`. The sum daemon's parent and child are two processes with their two pipes; signals are
steps of the environment, and the child has the handler it inherits.

## 4. What the runs show

| run | shows | bounds |
|---|---|---|
| `render_faults` | With every kind of fault at once (crashes and hangs of workers, slow workers, failing `accept()`, `select()` and sends): no chunk is lost or scheduled twice (`ChunksPartitioned`); the inductive invariant of the proof holds (`IInv`), so that the head of the queue stays in range and rows are counted once; the master implements `ChunkPool`, which publishes only complete images (`PoolSpec`). Unless a host is lost, the master and all workers end, a render without a fault with its image saved (`RenderEnds`) | 2 workers, 5 rows in chunks of 2: the last chunk is shorter, and there are more chunks than workers |
| `vpn_safety` | One end meets a network that duplicates and reorders, and datagrams of `send_test`; the other crashes, restarts, and has calls that fail: silence is reported within a round of the loop (`SilenceReportedInTime`), a peer is dead only after a real silence (`DeadOnlyAfterSilence`), a host gets only packets that the other host sent, decrypted, or the text of a `send_test` that is let in (`DeliveredWasSent`), and the inductive invariant of the proof holds (`VpnInv`) | step6b and step5b; intervals of 1 s, 1 packet from one host, 2 datagrams in flight, one beside that of a `send_test`; a network that delays for more than a second is left to the theorems |
| `vpn_alive` | With one lost datagram at a time, crashes and restarts: no live peer looks dead while both run (`NoFalseTimeout`), a crashed peer is noticed (`DeadPeerNoticed`), and peers that stay up see each other again (`PeersReconnect`). Two keepalives lost in a row would be too many: the third comes after 15 seconds, and the loop checks the time-out before it reads what has arrived | step6b and step5b, the code's 5 and 15 s |
| `kv_udp` | Concurrent callers with repeated requests: a caller gives up only after that many losses or a late datagram (`GivesUpOnlyAfterLosses`), the last write stands (`LastWriteStands`), a read returns a value that is not older than what finished before (`ReadsAreRegular`), except that the write of a caller that repeated it too early can come back at any time (the model has runs in which it does; requests carry no number by which the server could tell), no key is ever in two slots (`UdpTypeOK`, a part of `LastWriteStands`), and the slots answer every sequence of calls as `KvMap` does (`MapSpec`) | 3 callers, 3 keys and a refused value for 2 slots, 1 retry; one caller is hasty |
| `kv_tcp` | Clients that die anywhere, and too few descriptors: no wake-up is lost but for a backlog that `accept()` had no descriptor for (`NoLostWakeup`), each request has one answer, in order (`OneAnswerPerRequest`), events match connections although descriptors are reused (`EventsMatchConnections`); as long as the service lasts, requests are answered (`RequestAnswered`) and connections closed (`ConnectionReclaimed`), unless they stay in that backlog for good | 2 clients, 2 requests each, 1 or 2 descriptors |
| `http_pool` | No connection is handled twice, and none is lost before the ring overruns (`OnePlacePerConnection`); nobody sleeps while work waits (`SomeoneIsAwake`); everyone who stays and reads is answered until then, unless clients that say nothing or do not read hold all workers for ever (`EveryClientAnswered`); ring, descriptors and workers implement `WorkQueue`, which says what an overrun loses (`QueueSpec`) | 2 threads, 3 slots, 3 clients, who can overrun it once; that it is a queue again afterwards is shown by the theorem |
| `http_fork` | No process keeps a stranger's connection (`NothingInherited`), and every page ends (`EveryPageEnds`), with failing `fork()`, clients that say nothing, do not read or hang up; in the serial server, unless one of the first two holds it for ever or one that has gone brings it down | both servers, 3 clients |
| `http_epoll` | No edge is missed with a full descriptor table, but for the connections it leaves in the queue (`NothingForgotten`); whoever asks and stays is answered although others are silent (`EveryoneAnswered`) | 3 clients, 2 descriptors |
| `log_server` | No edge of a FIFO is missed (`NothingForgotten`), the log keeps each client's order (`LogInOrder`), no message stays in a FIFO (`NoMessageStays`), SIGINT ends the server (`ServerStops`); with a FIFO that two clients share, that is closed and opened again or twice, and a full alert FIFO. With the eventfd, notifications that add up never pass for the number of a FIFO (`SumNamesItsFifo`): `main` reads from a FIFO only when its thread, alone and once, has said so. What the threads throw away is in the model and no property denies it | epoll: 1 FIFO, 1 request; eventfd: 3 FIFOs as in the code; 2 clients, 2 messages, 1 alert |
| `static_render` | Shares are whole and only those of dead workers are missing (`SharesAreWhole`), no worker gets the task of another unless an `accept()` failed, and only a worker that hangs keeps the master from its end (`MasterEnds`) | both versions, 3 workers as in the code, 2 rows each |
| `pid` | Until a daemon removes the name, daemons of `lab1sourcecode.c` run one at a time, whoever is killed and whatever daemons of `lab1_source_code.c` run beside them (`SingleDaemon`); the name leads to every running daemon's file and no lock outlives its processes (`PidFileTellsTruth`) | 5 starts, 2 of `lab1_source_code.c` |
| `sum` | The n-th sum is 1 + ... + n however the pipe fills (`SumsAreRight`); no child outlives its parent (`NoOrphan`); `lab1_task2.c` always stops, `lab1_source_code.c` once its child has gone (`DaemonStops`), `lab1_task1.c` after its ten rounds | 3 versions; 8 numbers, 10 in `lab1_task1.c`; a pipe of 2, 5 s |

Types are checked with the first invariant of each run, of which they are a conjunct.

*Why the bounds are enough.* Each is chosen so that the case a property is
about happens: more chunks than workers, a ring no larger than the number of
clients, fewer descriptors than connections, a pipe that fills before the
time-out, more keys than slots, clocks that run past both time-outs. The
mutated definitions are a check of this: each property fails under some plausible
mistake within the bounds of its run. Where a bound is not in the code (`MaxLost`,
`MaxLag`, `NetCap`, `TestCap`, `Hosts`, `SocketCap`, `MaxRequests`, `MaxAdds`, `MaxNum`, `PipeCap`,
`Messages` and `MaxRetries` where they are less than the code's 5 and 3) the module names it
next to its constant. The theorems of section 5 hold without them.

*Deadlock* is checked in `render_faults` and `vpn_alive`; in `render_faults` because
`Next` lets a render that has ended stutter explicitly. The others
may stop legitimately (all clients served, all starts over, or a bound on datagrams in flight
reached), and their runs say so; that they do not stop too early is a liveness property.

*Fairness.* Weak fairness of each process or thread as a whole: a process that can run
is scheduled, as an operating system does. Time passes (`Tick`) in the VPN, and
datagrams that are not lost arrive. No fault, crash, restart, signal or human
action is ever assumed to happen. Each reading thread of `LogEventfd` is fair by itself. Clients are fair only where the code makes them
go on by themselves: a worker, `kv_client`, a log client. Browsers never have to ask,
read or leave. A `send()` to one that stops reading and reads again, any number of times, comes to its end,
as each time some more of a finite page goes out: hence strong fairness of `Send`
in `HttpPool` and of `Answer` and `SeeEnd` in `HttpFork`. In
`SumDaemon` the child needs strong fairness because it may be stopped and continued again and
again, and SIGSTOP is followed by SIGCONT. Liveness is claimed as far as the code
goes: where a lost host, a SIGPIPE, an overrun ring or a client that dies between its two sends
ends the service, the property says so as a disjunct.

## 5. What is proved

With TLAPS, for every value of the constants that meets the named assumptions.

**`DynamicRender_proofs`**, from `GeometryAssumption` (height and chunk size are
positive) and `RenderAssumption` (there is a worker; faults are those listed).
`TypeCorrect`, `Invariance`, `NoChunkLost`, `HeadExact`, `RowsExact`,
`SavedComplete`, `ReceivedForGood` and `ImplementsPool`: for any number of workers, any
image and any faults, every chunk is at each moment in exactly one place (waiting,
with a worker, or painted), the head of the queue counts what was dispatched and not
returned, completed rows are counted once, a saved image is complete, rows that
were received stay, and the master implements `ChunkPool`. The invariant `IInv` is needed
because the partition of chunks is not inductive alone: that a result belongs to the
chunk of its worker depends on what is in the sockets of a worker in each
state, which `IInv` records.

**`VpnTunnel_proofs`**, from `PeersAssumption` (there are two hosts) and
`VpnAssumption` (ranges of the parameters). `TypeCorrect`, `Invariance`,
`DeadMeansSilent`, `SilenceReported`, `DeliveredGenuine`: for all intervals,
time-outs, losses, delays and crashes, a peer is declared dead only after
`PEER_TIMEOUT` of silence, counted by the packets it took in and not by what it noted (in step5b up to a
round less), a silence is reported within a round of the loop, and only packets that the peer has read
from its TUN device are written to the other's, or the text of a `send_test` that the program lets in.
`VpnInv` relates the ages of the clocks to the position in the loop, without which the bound on
the report is not inductive, relates the noted silence to the real one (`NotedInv`), and describes every
datagram in flight that will be let in as encrypted and genuine, or as the text of a `send_test`. The theorems hold for both programs: that
the time `HeardAt` stores keeps within what the last check allows is the lemma `HeardClock`, and
that no step changes `step` is part of `TypeOK`.

**`KvStore_proofs`**, from `StoreAssumption`. `OneSlotPerKey`, `StoreTypeCorrect`,
`StoreImplementsMap`: for any capacity, keys and values, no key is in two slots, and
the array of slots implements `KvMap`. The simulation rests on one-slot-per-key,
which makes the content of the slots a function, and on the lemma that the number of used slots is
the number of keys, so that the store is full exactly when the map is.

**`HttpPool_proofs`**, from `PoolAssumption` (a ring of two slots or more, a descriptor, a
worker). `TypeCorrect`, `Invariance`, `NoneTwiceNoneLost`, `NoLostWakeup`,
`ImplementsQueue`: for any number of clients, threads, slots and descriptors, no connection
is in two places and none is lost before an overrun; one signal per connection wakes
enough workers; and the server implements `WorkQueue`, before an overrun and after it.
Counting the places of a descriptor is not inductive: `PoolInv` says instead that
whoever has a descriptor has an open one (`OpenInv`), that no two have the same (`ApartInv`),
and that until an overrun each open one is with somebody (`HeldInv`). A few lemmas about the indices say
what `enqueue` and `dequeue` do to the sequence from `front` up to `rear`; all else
follows from these.

In the same module, from `ForkAssumption` (no browser is called "nobody"),
`ForkInvariance` and `NoStrangersHeld`: of any number of browsers, in both servers and
whichever forks fail, no process holds a connection that is not its own.
`ForkInv` adds that the parent has let go of a connection before it accepts the next.

**`VpnTunnel_proofs`**, from `AliveAssumption` in addition, also proves
`NobodyDeclaredDead`, the property `NoFalseTimeout`: while both ends run, neither is
declared dead. The assumption says for which numbers: no datagram is late, damaged
or a stranger's, and with `Period` the interval and the lag of a loop, `MaxLost + 1`
periods and three rounds of the loop fit into the time-out. 5 and 15 seconds are enough for
one loss in a row and no lag (2 * 5 + 3 = 13), the setting of `vpn_alive`. Two of the rounds
are what it takes until the loop, which checks before it reads, has read what has arrived;
the third is how old the time may be that step5b stores. `AliveInv` bounds the silence by
where the datagram is that will end it: not yet sent (`Since`, the age of the other end's
last keepalive), under way, arrived in this round or announced by `select()`; a lost one
adds a period.

**`KvUdp_proofs`**, from `UdpAssumption` (requests have the type of requests), on
top of `KvStore_proofs`. `UdpInvariance`, `GaveUpForAReason`, `LastWriteHolds`,
`RegularReads`, `UdpImplementsMap`: for any number of callers, retries, keys and slots. The
properties are about calls that have ended, while the store changes when a datagram
arrives; `UdpInv` therefore keeps an account of each caller's datagrams (`PathInv`: one on
its way, or as many lost as sent), says which write has left what a key holds
(`CurrentInv`), and explains a reader's answer when it is sent and not when it is received
(`ReadInv`).

**`KvTcp_proofs`**, from `TcpAssumption` (finitely many clients, none of which has the name
of the listening socket). `TcpInvariance`, `WakeupsAreKept`, `EventsFindConnections`,
`AnsweredOnce`, `TcpImplementsMap`: for any number of clients, requests and descriptors, down to none. `TcpInv` follows each request through both sockets
(`StageInv`), ties connections to clients, descriptors and the handler that runs
(`LinkInv`), and says of the batch of `epoll_wait` that it has one event for a connection at
most (`BatchInv`): without it, the close of a connection could leave an event behind.

**`Daemon_proofs`**, from `PidAssumption` (finitely many starts). `PidInvariance`,
`TruthOfThePidFile`, `OneDaemon`: for any number of starts of both programs. Why two
daemons exclude each other does not follow from what a lock is: `FilesInv` says that there
is one file until a name is removed, and `LockInv` that a daemon that keeps its descriptor
keeps its lock. From `SumAssumption`, `SumInvariance` and `SumsStayRight`: the sums are
right for any pipe, time-out and number of rounds, because the numbers in the two pipes
continue each other without a gap while there is a child (`FlowInv`). From
`EpollAssumption`, for `HttpEpoll`, `EpollInvariance` and `NoEdgeForgotten`: for any number
of browsers and descriptors; `EpollInv` adds that the event that is handled has left the
batch, so that a connection is not closed under an event.

**`LogStatic_proofs`**, from `LogAssumption` (the table of FIFOs names each once, no FIFO is
called "closed", the server with an eventfd has three at most). `LogInvariance`, `NoFifoForgotten`, `LogKeepsOrder`, `SumsNameTheirFifo`: for
any FIFOs, clients, messages and requests through the control FIFO. That no edge is
forgotten needs to know what makes an edge once `read()` has returned 0 (`EdgeInv`) and that
a request finds a free descriptor (`DescriptorInv`); the order needs that what is in a FIFO
is later than what is logged (`SentInv`); the eventfd is empty, holds one number, or at
least twice the smallest, which is more than any FIFO has (`EventInv`). From `StaticAssumption` (the rows divide evenly, as
the 600 rows by 3 workers of the code do), `StaticInvariance` and `SharesStayWhole`: for any
number of workers and rows; `StaticInv` adds how far the loops of the master are and what
they have left behind.

Before it was proved, each of these inductive invariants was checked by TLC on its run's
instance (`AliveInv` on instances without crashes).

**Only model-checked**: liveness, which needs fairness and is out of the
prover's reach: `RenderEnds`, `DeadPeerNoticed`, `PeersReconnect`,
`RequestAnswered`, `ConnectionReclaimed`, `EveryClientAnswered`, `EveryPageEnds`,
`EveryoneAnswered`, `NoMessageStays`, `ServerStops`, `MasterEnds`, `DaemonStops` and
`NoOrphan`.

## 6. Observations

What the models show the code to do, which a reader of its comments would not
expect. None of it is a property of a run; the properties above are stated so as
to hold beside it.

* `Lab5/task5/master.c:24` says "select() with a 5-second timeout detects
  unresponsive workers". The master also waits for an idle worker's request
  (line 213) and for the rest of a result (line 382) in a blocking `recv()`: a
  worker that hangs there is not detected, hence `LostHost` in the liveness properties.
* `Lab5/task5`: workers are sent away as soon as the queue is empty, although chunks that are still in
  flight may come back to it; the master then gives up.
* `Lab5/task4-con/master.c:174` prints "Distributed image generated successfully."
  also when shares are missing; `SharesAreWhole` says which.
* `Lab1/lab1_source_code.c:44` closes all descriptors and with them the lock it has
  just taken, so a second daemon may start; `SingleDaemon` is therefore about the
  other program only.
* Both daemons remove the name of the pid file while they hold its lock
  (`lab1sourcecode.c:194`), so that a start that has opened the old file and one that
  creates a new one may both run, hence `NameWasRemoved`.
* `lab1_source_code.c:188` waits for the child before it closes the pipe whose end
  the child waits for, hence the condition in `DaemonStops`.
* `kv_server_tcp.c:178`: when `accept()` fails for want of a descriptor, clients stay in the
  backlog, and although descriptors become free they stay there until another client
  connects and makes an edge; the busy wait at line 56 and this are why `RequestAnswered` and
  `ConnectionReclaimed` have their exceptions.
* step5b has no token, and so any datagram, `send_test`'s for one, is "decrypted" and written to the
  TUN device (`main.c:176-206`), and counts as a sign of life of the peer.
* `http_basic.c:73`, `http_threadpool.c:83`: a browser that asks for a large page and does not read it holds
  the serial server, or a worker, for as long as it likes, hence `Stuck` and `AllHeld`.
* `log_server.c:47`: the thread that "waits for data" (line 41) reads and so removes it; what `main`
  prints is what came after, and a message that comes alone is never printed. With two notifications of the first FIFO
  in the eventfd `main` reads the eventfd itself (line 128) and may print its bytes.
* `http_threadpool.c:94` does not test for a full ring, hence `overrun`.
* `log_server_task1.c:109`: of several messages that one `read()` returns, only
  the first is logged, hence `NoMessageStays` and not "every message is logged".

## 7. What is not modelled, and why

* The earlier steps of the VPN, PART1 and step5a, keep no state between two packets but
  a sequence number that nobody reads; each direction of step5b contains what they do.
* `Lab5/task3` only connects its workers. `Lab5/task6` cannot be built: its
  `protocol.c` breaks off inside `recv_result()`, and the `send_terminate()` its master
  calls is missing, so that there is no program whose behaviour could be translated. Its master
  would go wrong in ways the others do not (it never looks at what
  `recv_result()` returns, and rows handed to a worker that dies are never
  handed out again, so that its loop would not end).
* `kv_clients.c` is a copy of `kv_client.c`.
* A network that duplicates datagrams in `KvUdp`; a request arrives twice there when its caller repeats it.
* Messages that come to a log server without end: the loop of `log_server_task3.c:164` would then not
  look at `running` again.
* Floating-point arithmetic and image files, HTTP parsing and file names, texts of
  logs and alerts, what is in the pid file, TUN device set-up and IP addresses.
* Overflow of the running sum in the daemons, and log messages that do not fit into
  the buffer with those before them.
