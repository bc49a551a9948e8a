# TLA+ models of FlexTCP/TAS

FlexTCP (TAS) is a TCP stack split in three. A *fast path* (`flexnic/`) runs on
dedicated cores and handles every data segment of established connections. A
*kernel* process (`kernel/`) opens and accepts connections, runs congestion
control and asks for retransmissions. An *application library* (`stack/`, with
a socket layer in `sockets/`) shares the payload buffers with the fast path.
The three talk through shared-memory queues only, and wake each other through
event descriptors.

This project models all three, one module per component, and checks each on
small instances with TLC. With TLAPS it proves, for every size of everything,
the safety of a connection's data path, of the sequence arithmetic under it, of
the kernel's connection state machine, of the rings between kernel and fast
path, of a core's packet buffers, and of the socket layer's descriptors and
epoll. All source paths below are relative to `src/flextcp-code/`.

## Inventory

| Component | State | Operations | Talks to | Module |
|---|---|---|---|---|
| Arithmetic, `flexnic/tcp_common.h` | none | `tcp_txavail`, `tcp_valid_rxack`, `tcp_trim_rxbuf` | fast path | `TcpCommon` |
| Stream flows, `flexnic/fast_flows.c`, `stack/conn.c`, `stack/init.c` | `flextcp_pl_flowst` under `fs->lock`; the library's connection; `arx`/`atx` rings | segments, bumps, queue manager events, retransmission; poll, free, allocate, send | network, context queues, queue manager | `FastFlow`, `TcpPair`, `RecvWindow` |
| Object flows, same files | object headers in the buffers, per-context progress | cut into objects, give back in any order; allocate and send from several threads | the same | `ObjRecv`, `ObjSend` |
| Queue manager, `flexnic/qman.c` | credit, rate and send time per flow; a list and a skip list; virtual time | `qman_set`, `qman_poll` | flows | `Qman` |
| Steering, `flexnic/network.c`, `fast_flows.c` | redirection table, bucket counts, forwarding rings, credit per core | scale up and down, forward a flow | main loop | `Steering` |
| Load monitor, `flexnic/flexnic.c` | averages, cores in use | sample, decide | steering | `LoadMon` |
| Start, `flexnic/flexnic.c`, `network.c` | queue counters | threads, queues, device | | `FastStart` |
| Main loop, `flexnic/fastemu.c` | buffer cache, batch, pools | the polls of a round, flush | all of the fast path | `Dataplane` |
| Kernel queues, `kernel/nicif.c`, `flexnic/fast_kernel.c` | rings per core, private indices | packet to the kernel, send, retransmit request | kernel, fast path | `KernelQueues` |
| Flow table, `kernel/nicif.c`, `fast_flows.c` | hash table in shared memory | insert with displacement, lookup without a lock | kernel, fast path | `FlowTable` |
| Kernel TCP, `kernel/tcp.c`, `tap.c`, `appif_ctx.c` | connections, listeners, backlogs, ports, answers | open, listen, accept, segments of the slow path, timeouts; Linux handshake over a TAP device (a thread of its own) | ARP, NIC interface, applications | `KernelTcp`, `ConnService` |
| Application interface, `kernel/appif.c`, `stack/kernel.c` | sockets, requests, contexts | connect, new context, registration, exit | UX socket thread, main thread, processes | `AppIf` |
| Congestion control, `kernel/cc.c` | rate, window and progress of a connection | periodic update of four algorithms, retransmission | NIC interface | `CongControl` |
| ARP and routing, `kernel/arp.c`, `routing.c` | entries, waiting connections, routes | request, reply, timeout; resolve | TCP, network, TAP thread | `Arp`, `Routing` |
| Packet memory, `kernel/packetmem.c` | list of free regions | allocate, free | TCP, application interface | `PacketMem` |
| Timeouts, `utils/timeout.c` | two linked lists, wrapping clock | arm, disarm, poll | TCP, ARP, main loop | `Timeouts` |
| Blocking, `kernel/kernel.c`, `fastemu.c`, `sockets/epoll.c`, `utils/utils.c` | clocks, event descriptors | poll, wait, kick | everyone | `Wakeup` |
| Sockets, `sockets/` | descriptors, epoll lists, received pieces, listeners | POSIX calls | library | `SockFd`, `Epoll`, `SockData`, `SockControl` |

What is hard here: hardly anything that two actors share is locked. The fast
path learns the application's positions from *bumps* that may be old when they
are read, the library learns the fast path's from *notifications* that may be
lost when their queue is full, and both decide from wrapping positions and
32-bit sequence numbers what is free. The network reorders, duplicates and
loses. The queue manager is told of new data by differences only, and a flow
may change its core in between. The kernel adds timeouts that race answers, a
second and a third thread, and a hash table that is changed while the fast path
reads it. Threads that find nothing to do sleep, and who queues something for
them decides from its own clock whether to wake them. `PROJECT.json` lists each
such place ("hazards") with the property that covers it.

## Modules

Each component module has its state as variables, `Init`, one action per
handler or per step between two shared accesses, `Next`, and its `Fairness`
apart; `Spec` is the whole. A definition whose comment starts with "Mutation of"
is a deliberately wrong form of the definition that follows it: with it in
place, TLC finds the property violated that `PROJECT.json` pairs it with. No
specification uses one.

### Data path of a stream connection

`TcpCommon` is the arithmetic. `U32` and `U16` are the integer widths, with
`SeqMod` for 2^32 and `LenMod` for 2^16.

`FastFlow` (extends `TcpCommon`) is one end of a connection. A byte is its index
in its stream, so the buffers show which byte is where.

| Model | Code |
|---|---|
| `fs` | `struct flextcp_pl_flowst`; positions and sequence numbers, `rx_avail`, `tx_sent`, the out-of-order interval, `bump_seq`, the slow path flag |
| `conn` | `struct flextcp_connection`; `polling` is set between the start and the end of `flextcp_context_poll` |
| `kout` | the kernel's open event waits in the context queue |
| `arx`, `atx` | the queues of `fast_appctx.c`; entries also carry stream indices that no code reads |
| `qm` | `avail` of the flow's queue in `qman.c` |
| `txbuf`, `rxbuf` | the payload buffers |
| `hist` | stream indices behind the wrapping positions (ghost; nothing reads them except properties and the choice of payload) |
| `fast_flows_packet` | the handler up to `flow_tx_ack`: ack processing, trimming, out-of-order interval, copy, notification, credit |
| `flast_flows_bump`, `fast_flows_qman`, `fast_flows_retransmit` | the handlers of these names, with the `queue_fire` that leads to the second |
| `context_poll`, `event_arx_connupdate`, `conns_bump` | kernel queue, one notification, and the final bump pass of `flextcp_context_poll` |
| `connection_rx_done`, `connection_tx_alloc`, `connection_tx_send` | the library calls |
| `appif_conn_opened` | the kernel's open event, queued after the flow was added |
| `network_rx` | any segment of the peer's stream, at any offset, with any ack and window |

Each handler of the fast path holds `fs->lock` from its first access to its
last (`db_id`, read before it, changes for object connections only, see `ObjRecv`), and library and fast path meet
in the two queues only, so a handler, a library call, or one iteration of the
library's poll loop is one step. The payload buffers are shared without a lock;
that neither side touches bytes the other one uses is what `RxNoOverrun`,
`TxNoReuse`, `RxContent` and `TxContent` say.

`network_rx` leaves out the inputs `TrimMisses` names (a segment across the
sequence number wrap that starts inside a free part that ends before it): on
these the third case of `tcp_trim_rxbuf` keeps bytes that do not fit (see
Deviations). The results for `FastFlow` hold while no such segment arrives.

`TcpPair` composes two instances of `FastFlow` and a network: a set of
segments from which one is delivered, delivered and kept (duplication), or
dropped. `deliver`, `bump`, `send` and `rexmit` are the poll functions of
`flexnic/fastemu.c`, `app` is any step of the library.

`RecvWindow` keeps of a stream connection what decides whether its window opens
again: `Receive` (a segment, its notification and its ack), `FlowBump`
(`flast_flows_bump` with the window update), `Poll` (with room for `Room`
events) and `RxDone`. Streams of any length pass through it.

### Object connections, scheduling and the fast path's cores

* `ObjRecv`: `ReceiveNew` and `ReceiveMore` are `fast_flows_packet` for the
  first and for later segments of an object. Its header steers an object to a
  context (`db`, `fast_flows.c:521`), but the notification of the segment goes to
  the context looked up before (`:281`, `:622`), that of the object before.
  `Update` is the library's
  notification handler of a context, `RxDone` gives one object back, `Bump` the
  poll that announces free space. `SpecReorder` adds segments out of order.
* `ObjSend`: `TxAlloc`, `TxSend`, `Bump`, `Acked` are the library's calls and
  polls, `FlowBump`, `SendSegment`, `Ack`, `WindowUpdate` and `Retransmit` the
  fast path's handlers, with the one unit of credit an object flow has.
  `NextLoss` adds retransmission.
* `Qman`: `Set` is `qman_set`, `Poll` is `qman_poll` with both lists; links,
  levels and the 32-bit virtual time are the code's, the random level of an
  entry is a choice.
* `Steering`: `ScaleTo` and `PollScale` change the table (`network_scale_up`,
  `_down`), `MoreToSend`/`LessToSend` are the credit changes of a segment or a
  bump, `QmanSend`, `QmanForward` and `QmanFwd` are `fast_flows_qman` on the
  right core, on the wrong core and from the forwarding ring.
* `LoadMon`: `Iterate` counts cycles of a core, `ReadLoads` and `Decide` are the
  two halves of `flexnic_loadmon` with the scaling of core 0 between them.
* `FastStart`: `StartThread` and one step per phase of `common_thread`, which sets up
  the queues of a core and counts them (`network_rx_thread_init`, `_tx_`).
* `Dataplane`: `Loop` is one poll of a round of `dataplane_loop`; `NicDone`
  gives a buffer back; `AppPost` queues a bump.
* `Wakeup`: `Loop` is one step of a sleeper (clock, poll, decide, wait) of
  `Kind` "fast", "app" or "kernel", `Post` and `Kick` the two halves of queueing
  something. Times are subtracted in 32 bits (`Wide`, `Diff`). The fast path's clock
  has as many; `util_timeout_time_us`, which the others and every kick use, has 28
  (`Wrap`), so across its wrap a kick is always given. A `startwait` of 0 is unset.

### Kernel

* `KernelTcp`: one action per handler of `tcp.c` (`KinConnOpen`,
  `KinListenOpen`, `KinAcceptConn`, `ArpComplete`, `TcpPoll`, `TcpTimeout`,
  `ConnPacket`, `ListenerPacket`), the TAP thread (`TapSynAck`, `TapAccepted`)
  and the queue to the application. Failures of every allocation are choices.
  `ConnService` is what the application is promised: an answer only to a
  request and one at most, and, with `Answered`, one to every open request.
* `FlowTable`: one action per write of `flow_slot_alloc` and per read of
  the lookup.
* `AppIf`: the UX socket thread (`UxStep`: accept, receive, completions), the
  main thread (`MainStep`), and processes that connect, ask and end.
* `CongControl`: `CcPoll` with the algorithm `Alg` in integers of `W` bits. The
  clock has `TW` bits and is subtracted in `DW` (28 and 32, `timeout.c:46`), so a
  difference across its wrap is near 2^`DW`.
* `KernelQueues`: each access to a ring is a step; the sides keep their own
  index and see the type field of an entry only.
* `Arp`, `Routing`, `PacketMem`, `Timeouts`: the functions of these files.
  `PacketMem` splits an allocation into walk and update, `Arp` has the TAP
  thread's walk of the table, `Timeouts` keeps the true time beside the clock.

### Sockets

* `SockFd`: a step is what happens between two system calls or shared writes,
  for several threads, with the one-time initialisation.
* `Epoll`: `CtlAdd`, `CtlMod`, `CtlDel`, and `epoll_wait` as poll, scan, push back,
  block, all by any thread on any epoll and socket; events arrive in the poll of
  a thread that receives them (`Receivers`). The operations on a list are each
  one step.
* `SockData`: `recv`/`recvmsg`, `send`/`sendmsg` over vectors, and the events.
* `SockControl`: socket memory that is reused, requests to the kernel per
  context, and the events that answer them.

### Instances

`MCFastFlow` and `MCKernelTcp` are the instances of these two; `TcpPair` is its
own; `MCTcpCommon` compares `TcpCommon` with definitions that do not wrap, on
every input.

`MCKernel`, `MCFast`, `MCSock` (safety), `MCKernelLive` and `MCFastLive`
(liveness) each hold instances of several components. The components of one
such module share no state in the models (each sees its neighbours through the
queues and inputs it has of its own), so nothing is lost by running them one at
a time: a behaviour chooses its `part` at the start and runs that component
alone. In the safety modules the variables of the others are `Off`; in the
liveness modules, where TLC evaluates every formula in every behaviour, they stay
in an initial state. The assumptions of every instance are evaluated as the
`ASSUME` of the module.

One component of each, whose safety is proved, is extended instead of
instantiated, so that run and theorem are about the same definition:
`KernelQueues` in `MCKernel`, `MCTcpCommon` in `MCFast`, `Epoll` in `MCSock` (three
parts that restrict one instance to different threads, epolls, sockets and
events) and `SockFd` in `MCFastLive`. Its constants are in the cfg, and its variables do not change while another part runs. Of `Core`,
`ObjRecv` and `Window`, the instances of `Dataplane`, `ObjRecv` and `RecvWindow` in
`MCFast`, and of `Mem`, that of `PacketMem` in `MCKernel`, the constants are in the
cfg as well, since their properties are proved for all of them.

Three components let several threads at what the code does not lock, and lose
what they keep when two meet there (Deviations). The runs take every
interleaving but those: `NoRaces` (`Epoll`, in `MCSock`), `Undisturbed`
(`PacketMem`) and `Unmixed` (`KernelQueues`, both in `MCKernel`) are action
formulas that say which step would meet another thread half way, and the
theorems have them as provisos.

## Runs

| Run | Property | What it says |
|---|---|---|
| `flow_rx` | `TypeOK` | no unsigned counter of `FastFlow` wraps |
| | `RxNoOverrun` | the fast path writes only to bytes the application has freed |
| | `OooInWindow` | the out-of-order interval stays inside the free part |
| | `RxContent` | received bytes and the interval hold the bytes of the stream |
| | `WindowNeverShrinks` | the right edge of the advertised window never moves back |
| `flow_tx` | `NoEarlyTxBump` | nothing is acknowledged before the open event is seen |
| | `TxNoReuse`, `TxContent` | the application writes over no unacknowledged byte; what is read for sending is what was written |
| | `QmanCovers` | the credit covers what can be sent |
| `pair` | `StreamIntact`, `AckedIsReceived` | what is received is what was sent; nothing unreceived is acknowledged |
| `pair_live` | `SentIsDelivered` | what is sent arrives |
| `kernel_tcp` | `ConnsSound` | no freed connection is in a list, with a listener or waiting; no four-tuple has two connections |
| | `TimeoutHitsHandshake` | an armed timeout belongs to a listed connection in SYN_SENT (`tcp_timeout` aborts otherwise) |
| | `AnswersRequests` | the kernel implements `ConnService` |
| `kernel` | `FlowsFound` | registered flows are where the lookup searches, and a lookup finds them while entries are displaced under it |
| | `MemoryPartitioned` | every byte of packet memory has one owner |
| | `TimeoutsExact` | no timeout early, missed or slept past, wherever the clock wraps; links agree |
| | `ResolutionsSound` | who waits for an address waits once; pending entries and only they are armed; addresses told were announced; the local network is direct |
| | `AppsRegistered` | a request is in one place; a context is announced after it was registered |
| | `RatesBounded` | window and rate stay in their limits; a loss halves them at the next decision |
| | `RingsInOrder` | both rings hold what was written and not read, in order |
| `fast` | `ArithmeticExact` | every trim, ack and bump order against definitions that do not wrap |
| | `QueuesListed` | no queue with bytes is forgotten; the lists are sound, in order, and no faster than the clock |
| | `FlowsSteered` | groups are on cores in use, evenly; a flow that moves stays covered by credit; decisions settle |
| | `BuffersOwned` | every packet buffer has one place; the batch never overflows |
| | `ReceiveBuffersSound` | nothing counts as free that is not, for streams and objects |
| | `ObjectsSent` | no unfinished object is sent; a flow that may send has credit; segments end with objects |
| `sockets` | `EventsKept` | no socket with an unmasked event is on the inactive list; a socket is on one list of its epoll, once |
| | `DataExact` | receive and send copy the right bytes, to and from the right places |
| | `ConnectionsKept` | connections are returned once and never forgotten; a refused move changes nothing |
| `kernel_live` | `HandshakesEnd` | opens are answered, peers get their SYN-ACK, no SYN waits beside an accept |
| | `WaitsEnd` | timeouts trigger, resolutions and lookups end, contexts are made |
| | `StallEnds` | a stalled connection is acknowledged or retransmitted |
| | `KernelServed` | both rings are served; a sleeping kernel finds what is queued |
| `fast_live` | `FlowsServed` | queues fire, moved flows send, contexts are served |
| | `CoresStartAndStop` | the device starts complete; idle cores are given up |
| | `TransfersEnd` | objects are received and sent, windows open again, notifications are taken |
| | `DescriptorsSound` | a call reaches the socket its descriptor was reserved for |
| | `SocketsServed` | kicks, ready sockets, connections and initialisation are not lost |
| `flow_recvd`, `kernel_open_two` | | violations, see Findings |

The properties of the last five groups are conjunctions of named properties of
the components, one per part; the comment above each lists them, and each is
stated and commented in the component's module.

**Bounds.** Positions wrap after 3 to 8 bytes, sequence numbers after 16 or 32,
with initial numbers next to the wrap, clocks after 3 to 12 ticks (and differences of
clocks after 6 to 32), so both kinds of wrap happen in the same behaviour. Streams are longer than the buffers
in `flow_rx` and `flow_tx`, and unbounded in `RecvWindow`, `ObjRecv`, `ObjSend` and
`SockData`, where only what is in the buffers is kept. In `flow_rx` a length has
three values (`LenMod` = 3), fewer than the buffer, so the 16-bit truncation of
the out-of-order length occurs. Queues hold 0 to 2 entries, so full queues and
lost notifications happen. `MaxCredit` stops the arrival of segments while much
credit is unspent; without it duplicate acks with alternating windows grow the
credit without bound, which the code allows too. `NetCap` bounds the segments in
the network; above it one of the older ones is lost, which the network may do
anyway. There are two actors of each kind where they interfere and three where
a third matters (queues of the skip list, cores of a redirection table,
processes for two descriptors, flows for a displacement, timeouts with one
handled per poll). Packet memory, the sending side of the kernel's rings and the
epolls have two threads each. `MaxScales`, `Rounds` and `MaxCtx` bound scalings, rounds of
congestion control and contexts; the other behaviours go on for ever. The kernel
runs one open and two accepts of a peer on shared ports, with each allocation
failing or not.

Some instances stay on the near side of a limit beyond which the code fails
(see Deviations): at most three quarters of a receive buffer unread (`MaxUnread`),
object buffers never full (`MaxFill`), objects in several segments to the context
of the one before (`Apart` FALSE; those in one segment go anywhere), equal ring
lengths, delays at least a poll below half the clock range, an address timeout
whose double fits its width, three flows in the table, no overflow of
`timestamp()` (`Jumps`).

**Deadlock** is checked in the runs of `FastFlow`. Elsewhere a behaviour may stop
(everything delivered, every request made, an assertion of the code failed):
the other cfgs switch the check off, or the MC module lets such a part stutter.

**Fairness.** What every component assumes is its `Fairness`; the liveness
properties of `kernel_live` and `fast_live` have it as their antecedent, because
a behaviour runs one part only.

* *Loops.* Kernel, fast path cores and library run endless polling loops
  (`kernel.c:99`, `fastemu.c:121`, `flextcp_context_poll`): weak fairness of the polls.
  In `Qman` it is stated as "`nolimitFirst` is flipped again and again": a poll is
  always possible and is the step that flips it. That an application polls
  again and again is an assumption about the application.
* *Timers and clocks* advance: weak fairness of `Tick`, `Advance`, `TcpTimeout`,
  `ArpTimeout`.
* *Network.* Data or acks sent again and again arrive: strong fairness per place
  of the stream (`TcpPair`), of a SYN-ACK (`PeerReceives`). Without it the network may
  lose everything. Nothing is assumed of ARP replies.
* *Retries.* `issue_retransmits` is repeated while bytes stay unacknowledged
  (`cc.c:158`): in the end the request is queued (strong fairness of that outcome).
* *Applications* return to their waits and accept on readable listeners
  (`Epoll`, `SockControl`), finish objects they started (`ObjSend`), free what they read.
* *NIC.* It transmits what it was given (`NicDone`), and `ContextsServed` assumes that
  again and again it has transmitted everything when `tx_flush` runs: a NIC that
  is full at every flush leaves the contexts no room. With pools smaller than
  ring, cache and batch together every buffer can be held up, so the live
  instance has more (`TxBufs`).

## Findings

Two disagreements of the code with its own words are kept as runs:

* `flow_recvd`: a completely full receive buffer has equal head and tail, and
  `conn_rx_recvdbytes` (`stack/conn.c:565`) takes it for empty, so it can never be
  freed again.
* `kernel_open_two`: `conn_failed` (`kernel/tcp.c:655`) looks at the first
  connection of the list only; with two handshakes under way the second one to
  fail is never reported to the application.

### Deviations

TLC finds these with the component's module and the constants given (all others
as in the instances of the MC modules); the property is defined in the module.
Where an instance above avoids one of them, its constants say so.

| Module | Property | Source | Constants | What happens |
|---|---|---|---|---|
| `MCTcpCommon` | `TrimFitsBuffer` | `flexnic/tcp_common.h:127` | any | a wrapping segment that starts in a non-wrapping free part is cut at neither end |
| `FastFlow` | `OpenAssertion` | `stack/init.c:317` | `RxLen` 2, `MSS` 2 | a whole buffer received before the open event fails `assert(conn->rxb_head < conn->rxb_len)` |
| `FastFlow` | `SendInWindow` | `flexnic/tcp_common.h:207` | `Windows` {0, 1, 3} | window minus bytes in flight wraps after a smaller window; the flow sends past it |
| `KernelTcp` | `PeerConnects` | `kernel/tcp.c:414` | `Kinds` {"SYN_ECN"} | a repeated SYN with ECN flags is not recognised, the lost SYN-ACK not repeated |
| `KernelTcp` | `NeverAborts` | `kernel/tcp.c:676` | two opens, `Kinds` {"SYN_ACK", "RST"} | a connection that failed further down the list is found again, disarmed: `assert(c->to_armed)` fails |
| `KernelTcp` | `OpenFindsPort` | `kernel/tcp.c:554` | any | after port 65535 the `uint16_t` is 0, `ports[0]` counts as unused and 0 as failure: an open fails although ports are free |
| `KernelTcp` | `AppListLive` | `kernel/appif_ctx.c:66` | two opens | a failed connection is freed and stays in `app->conns` |
| `KernelTcp` | `EventsKept` | `kernel/appif_ctx.c:127` | an open and an accept | the TAP thread and the main thread use `kout_pos` without a lock; an event is overwritten |
| `KernelTcp` | `TuplesUnique` | `kernel/tcp.c:709` | two listeners on a port | a SYN repeated after a listener joined is accepted twice |
| `KernelTcp` | `NoDangling` | `kernel/tcp.c:422` | `PeerTs` `TsMixed` | a SYN repeated without the timestamp option fails a connection whose completion is queued; it is freed and `tcp_poll` reads it |
| `KernelTcp` | `NoIdleAccept` | `kernel/tcp.c:858` | a peer without timestamps | when a backlog entry fails the next one is not tried |
| `KernelTcp` | `EcnNegotiated` | `kernel/tcp.c:824` | `Kinds` {"SYN", "SYN_ECN"} | the ECN flag of a failed attempt stays set for the next |
| `FlowTable` | `FlowsReachable` | `kernel/nicif.c:667` | four flows | an entry displaced twice keeps its first distance and leaves its neighbourhood |
| `PacketMem` | `AllMerged` | `kernel/packetmem.c:95` | `MemSize` 4, `Lengths` {1, 2} | a region freed after its predecessor is put before it and never merged |
| `PacketMem` | `Partition` | `kernel/appif.c:478` | `Threads` {"main", "ux"}, without `Undisturbed` | two threads take the same region |
| `Timeouts` | `NeverEarly` | `utils/timeout.c:94` | `Delays` {0, 1, 3}, `Gap` 2 | a delay near half the range fires at once, the poll timestamp being older |
| `Qman` | `NotFaster` | `flexnic/qman.c:531` | `Jumps` {0, 3} | the multiplication in `timestamp()` overflows and the virtual clock passes the real one |
| `SockFd` | `EpollEntryFree` | `sockets/manage_fd.c:87` | two threads | closing an epoll descriptor leaves its entry; the next `epoll_create1` asserts |
| `Epoll` | `InactiveQuiet` | `sockets/epoll.c:294` | two threads, without `NoRaces` | an event that comes between check and deactivation is lost |
| `Epoll` | `WaitsOut` | `sockets/epoll.c:297` | `Timeouts` {1} | the comparison with the deadline is the wrong way round |
| `Epoll` | `BlockedIdle` | `sockets/epoll.c:269` | `Timeouts` {-1} | `startwait` of an earlier call lets a wait block before it looks at the active list |
| `SockData` | `EarlyFits` | `stack/init.c:317` | `RxLen` 3 | as at `FastFlow`, seen from the sockets |
| `SockData` | `WritableExact` | `sockets/transfer.c:317` | any | nothing clears EPOLLOUT |
| `SockControl` | `EntryFound` | `sockets/control.c:351` | two threads, one listener | the shared list of pending accepts loses an entry and an assertion fails |
| `SockControl` | `EventsFindSocket` | `sockets/control.c:75` | `CloseBusy` TRUE | the answer to a request finds another socket in the memory |
| `Arp` | `Resolved` | `kernel/arp.c:290` | `W` 3, `ToMax` 7 | the doubled timeout wraps to 0 and a request is repeated for ever |
| `Arp` | `NoFreedRead` | `kernel/arp.c:319` | `Tap` TRUE, two peers, three entries | the TAP thread reads a freed entry |
| `Routing` | `Returns` | `kernel/routing.c:66` | `MaxRoutes` 1 | a gateway outside the local network is looked up for ever |
| `AppIf` | `RightAnswer` | `kernel/appif.c:609` | `Crash` TRUE | an answer goes to the process that got the descriptor next |
| `AppIf` | `KernelUp` | `kernel/appif.c:609` | `Crash` TRUE | writing to a process that ended raises SIGPIPE |
| `AppIf` | `NewctxReturns` | `stack/kernel.c:178` | `Doorbells` 1 | a refused request closes the socket, `read` returns 0 and the loop goes on |
| `CongControl` | `RateLimited` | `kernel/cc.c:343` | `Alg` "rate", `RateMin` 0 | a rate of 0 means no limit to the queue manager |
| `LoadMon` | `DownOnlyIdle` | `flexnic/flexnic.c:337` | `Loads` {TRUE}, `MaxIter` 2, `Period` 3 | busy cycles exceed the interval, the idle cycles wrap, a core is given up at full load |
| `KernelQueues` | `Intact` | `kernel/nicif.c:354` | `Threads` {"main", "tap"}, `Payloads` {0, 1}, without `Unmixed` | two threads are given one entry; length and contents do not match |
| `KernelQueues` | `TxServed` | `kernel/nicif.c:578` | `RxLen` 2, `TxLen` 3 | the transmit index wraps at the receive length |
| `Wakeup` | `Served` | `flexnic/fastemu.c:166` | `Kind` "fast", `PollCycle` 2, `Wrap` 6, `Wide` 12 | an entry queued exactly `POLL_CYCLE` after the last wakes nobody |
| `Wakeup` | `Served` | `sockets/epoll.c:263` | `Kind` "app", `PollCycle` 2, `Wrap` 6, `Wide` 12 | what is queued between poll and clock is not kicked for and not seen |
| `ObjRecv` | `NotifiedSteered` | `flexnic/fast_flows.c:281` | two contexts | `db_id` is read before the header of an object sets it; the context of the object before is notified |
| `ObjRecv` | `BumpWithin` | `flexnic/fast_flows.c:281` | two contexts, `RxLen` 4, `Sizes` {1, 2}, `MaxFill` 3, `Apart` TRUE | the rest of an object is announced to a context that was not told of its start |
| `ObjRecv` | `HeadBeyond` | `stack/init.c:649` | `MaxFill` = `RxLen` | with a full buffer an earlier object moves the head back |
| `ObjRecv` | `Received` | `stack/conn.c:364` | `RxLen` 6, `Sizes` {2, 5}, `MaxFill` 6 | freed space is not announced while half of the buffer was not received in whole objects |
| `ObjRecv`, `SpecReorder` | `BumpWithin` | `flexnic/fast_flows.c:568` | `RxLen` 5, `Sizes` {2} | the out-of-order interval is added to the notification of another object |
| `ObjSend`, `SpecLoss` | `SegmentsWithin` | `flexnic/fast_flows.c:1061` | `TxLen` 8, `Sizes` {3}, `Windows` {6} | `tx_objrem` is not restored by a retransmission; segments cross objects |
| `ObjSend`, `SpecWindow` | `NoAbort` | `flexnic/fast_flows.c:141` | `HdrLen` 2, `Windows` {0, 1, 3} | a window that ends in a header aborts the fast path |
| `RecvWindow` | `Reopens` | `stack/conn.c:61` | `RxLen` 8, `MaxUnread` 7 | after nearly a whole buffer no bump is due and the window stays closed |
| `RecvWindow` | `Reopens` | `flexnic/fast_flows.c:769` | `Lossy` TRUE | a lost window update is not repeated |
| `RecvWindow` | `Taken` | `stack/init.c:495` | `Room` 1 | a notification that wraps needs room for two events |

## Proofs

The theorems hold for every value of the constants that the named assumptions
allow; none of the bounds above is in them. Each proof has the same shape: an
inductive invariant, one lemma per action that shows how it is preserved, and a
lemma that it implies the property. None of the properties is inductive itself;
what has to be added, and why, follows. TLC checked each inductive invariant on
the component's instance before it was proved.

| Module | Theorems | Property |
|---|---|---|
| `FastFlow_proofs` | `TypeCorrect`, `NoOverrun`, `OooFits`, `NoReuse`, `NoLostWakeup`, `TxBumpAssertion`, `WindowMonotone` | `TypeOK`, `RxNoOverrun`, `OooInWindow`, `TxNoReuse`, `QmanCovers`, `NoEarlyTxBump`, `WindowNeverShrinks` |
| | `TxIntact`, `RxIntact` | `TxContent`, `RxContent` |
| `TcpPair_proofs` | `StreamsIntact`, `AckedReceived`; `StreamsUnlessMissed` | `StreamIntact`, `AckedIsReceived` |
| `MCFast_proofs` | `Exact`, `OneOwner`, `ReceiveSound`; `ReceiveWindowSound` | `ArithmeticExact`, `BuffersOwned`, `ReceiveBuffersSound` (and its half for streams) |
| `KernelTcp_proofs` | `HandshakeTimeouts`, `ConnsSafe`, `ImplementsService`; `NothingDangles`, `FourTuplesUnique` | `TimeoutHitsHandshake`, `ConnsSound`, `AnswersRequests` (and the two halves of `ConnsSound`) |
| `MCKernel_proofs` | `RingsOrdered`, `MCMemPartitioned`; `RxRingsOrdered`, `MemPartitioned` | `RingsInOrder`, `MemoryPartitioned` (and its receiving half, and that of `PacketMem` by itself) |
| `SockFd_proofs` | `DispatchSafe` | `DescriptorsSound` |
| `Epoll_proofs` | `EventsAreKept`, `OneThreadKeepsAll` | `EventsKept` |

**Data path** (`FastFlow_proofs`). The bytes `flast_flows_bump` frees are computed
from a position that the library wrote some time before; to know that they are
free one has to know how the positions in the queued bumps, in the library's
connection and in the flow state follow each other. The inductive invariant
`IInv` (theorem `Invariance`) is therefore:

* `TypeOK` and `FlowOK`: types, the bytes in flight and unsent fit the transmit
  buffer with one byte left, the out-of-order interval fits;
* `RxOrder`, `TxOrder`: the stream indices are in order;
* `ConnRx`, `ConnTx`: the library's positions are the fast path's, advanced by
  the difference of the indices;
* `AtxChain`: the same for every queued bump, each at least as far as the one
  before it;
* `ArxChain`: queued notifications together reach no further than the fast path;
* `QmanCovers`.

A bump that the 32-bit comparison takes for stale changes nothing, so this
argument does not need bump numbers at all.

`TxIntact` adds `TxFilled`: what the application has written is in place also
where it was not handed over yet, since `connection_tx_send` hands it over without
looking at the buffer. `RxIntact` adds `RxHeld`, which says of the out-of-order
interval, in terms of circular positions, what `RxContent` says in terms of the
stream; that a segment fills free bytes only, and the right ones, is `IInv` and
the arithmetic of the trimmed segment. Assumed: a segment and a buffer together
are smaller than the sequence space, MSS fits a length (`FastFlowAssumption`,
`TcpCommonAssumption`), and, for `RxIntact`, `SegmentLifetime`: no segment arrives
whose sequence numbers have come round again, which nothing in the fast path
could notice. As in the runs no segment arrives that `TrimMisses` names.

`TcpCommon_proofs` has what these need of the arithmetic, most of all `TrimFits`
and `RxackInBuffer`.

**Two ends and a network** (`TcpPair_proofs`). `RxIntact` takes it for granted that a
segment carries bytes of the peer's stream; here the segments are those that the
other end sent, and the network may lose, repeat and delay each of them for any
time. `FastFlow_proofs` shows of one end (section "One end of a conversation") that
it stays in order (`End(h, r)`) when any segment arrives that carries bytes below
the index `h` at their place in the peer's stream and acknowledges at most what
the peer has received (`Carried`), and that what it sends is such a segment for
the other end. What `End` adds to `IInv` is that the 32-bit sequence numbers of the
flow state are those of the stream indices (`Numbered`): that, and no list of the
segments under way, is why a stale acknowledgement is refused, or else
acknowledges what has arrived. `PairInv` is `End` of both ends, and that every
segment in the network is of its sender's stream (`Genuine`), which stays true
while the segment is late since both numbers only grow. The network keeps
segments for ever, so sequence numbers must not come round: the assumption is
`StreamsAssumption`, a stream and a receive buffer together are shorter than the
sequence space (with real networks, within a segment's lifetime). That the peer
sends past the window it was given (`SendInWindow` in Deviations) does no harm, the
receiver cuts such a segment. What does harm is the segment `TrimMisses` names:
`StreamsUnlessMissed` says that both properties hold as long as no such segment
is in the network, and `StreamsIntact` and `AckedReceived` that they hold without
that proviso when no stream crosses the wrap of its sequence numbers, or both
start so close to it that the first receive buffer reaches across (`Covers`). The
instance of `pair` has one stream of each kind.

**Arithmetic** (`MCFast_proofs`). `Exact` is the other half: cutting a segment,
accepting an acknowledgement and telling bumps apart do on every input exactly
what their definitions over numbers that do not wrap do. It assumes `HalfSpace`,
a length and the receive buffer are each at most half of the sequence space,
as 2^16 and the buffer sizes are of 2^32.

**Kernel TCP** (`KernelTcp_proofs`). A connection and its request move between the
global list, a listener's list, ARP, the completion queue, the TAP thread and the
queue to the application. The invariant says in which states a connection can be
in each:

* `Types`, and `Lists`: lists have no doubles, which states are in which list,
  only listed connections in SYN_SENT are armed. These two are inductive
  (`ListsInvariant`) and give `HandshakeTimeouts`;
* `Comps`: a queued completion is of a listed connection that is not waiting for
  ARP, one per connection, and cannot fail before it is taken;
* `TuplesInv`: listed connections, and listed and backlog entries, have different
  four-tuples, and the port table agrees with the lists;
* `AnswersInv`: a request has one connection that still owes the answer, or one
  answer in the queue, or one answer read.

`NothingDangles` needs the first of these and `Comps`, `FourTuplesUnique` `TuplesInv`,
`ImplementsService` all but `TuplesInv`; a step of `KernelTcp` is a step of
`ConnService` or changes none of its variables. `HandshakeTimeouts` holds in every
behaviour. The others hold in those in which one kind of segment does not come,
which nothing in the code prevents and without which TLC finds the violations in
Deviations: `TsKept`, no SYN without the timestamp option for an open connection
(`NothingDangles` and `ImplementsService`; `NoDangling` there), and `SynsTogether`, no
repeated SYN that goes to another listener of the port than the first
(`FourTuplesUnique`; `TuplesUnique` there). `ConnsSafe` puts the two together.
Ports may run out in all of them, and an open may find none when the search
passes 65535.

**Kernel rings** (`MCKernel_proofs`). The two sides of a ring share no index.
The invariant (`RxRings`, `TxRings`) is that the writer's index is the reader's,
advanced by the number of entries between them, and that exactly these entries
have a type; with a full ring both indices are equal and the type alone tells
full from empty. `Composing` says what a sending thread has got between
`nicif_tx_alloc` and `nicif_tx_send`, and that no other has got anything.
`RxRingsOrdered`, the half of the receiving rings, has no proviso. `RingsOrdered`
assumes that both rings have the same length (`SameLengths`; they have by default,
`kernel/config.c:408`, and the kernel wraps one index at the other's length, see
`TxServed` in Deviations), and holds for any number of threads in the behaviours
in which none takes, composes or sends an entry while another has one
(`Unmixed`). The main loop and the TAP thread do keep apart most of the time, but
nothing makes them (`Intact` in Deviations).

**Packet memory** (`MCKernel_proofs`). `packetmem.c` keeps its free regions in a linked
list that a request walks, splits and merges. The invariant (`MemInv`) is that
the regions of all live handles, free or in a caller's hands, tile the memory
without gap or overlap (`Tiled`), that the list is a sequence of different
handles, exactly the live ones no caller has (`Listed`), and that what a walk
found is still linked where it was found (`FoundSound`). Four lemmas carry the
list operations: insertion, removal, cutting a region and merging it with a
neighbour (`ListInsert`, `ListRemove`, `SplitTiled`, `AbsorbSound`). The order of the list
is not needed for `Partition`, only for how much is merged (`AllMerged`). Assumed:
`MemAssumption`, for every memory size, set of lengths and number of handles. Any
number of threads may allocate and free; `MemPartitioned` is about the behaviours
in which none changes the list between another's walk and its update
(`Undisturbed`), as the code, which has no lock, does not ensure: `Partition` in
Deviations shows what happens otherwise. `MCMemPartitioned` says the same of the
specification that the run checks.

**Packet buffers** (`MCFast_proofs`). While `poll_queues` runs, the buffers it has
used are in the cache and in the batch until `bufcache_alloc` advances the head, so
counting the cache from its head finds buffers in two places. The invariant
counts it from behind the used ones (`Places`), and says that the loop stays within
what `bufcache_prealloc` granted it, which neither wraps the cache nor overfills
the batch (`Progress`). Assumed: `DataplaneAssumption` only (sizes are positive; the
cache is no smaller than a batch).

**Receive window** (`MCFast_proofs`, `ReceiveWindowSound`, and the first half of `ReceiveSound`). Three sides count
one buffer: the fast path what is free, the library what it was told has come,
the application what it was given. `NothingOverwritten` relates the first and
the last; what is between them is in two queues. The invariant (`WinInv`) says
where these end: the notifications add up from the library's head to the fast
path's next byte (`Notified`), the tail plus what is unread is that byte, and
every queued bump frees no more than what is in neither count, later ones no
less than earlier ones (`Chained`), so that a bump that comes late, or with
others, frees what it says. `After`, the poll loop, is a recursive function; where
it stops is found as the least index at which it has no room left. Assumed:
`RecvWindowAssumption`, for every length of buffer, segment and queue, and with
or without the loss of window updates.

**Buffer of objects** (`MCFast_proofs`, second half). Objects arrive in order, are
given to threads of several contexts and come back in any order; only the run
from the tail on is freed. `FreedExact`, `HeadBeyond` and `BumpWithin` need an
invariant of two parts (`ObjInv`). `Buffer`: the objects follow each other from the
tail on, those and the free space fill the buffer, what has arrived ends at
the fast path's position, and the head is past every object a thread has or
has given back. `Queued`: the notifications of a context are a chain in which
each leaves less of its object to come, an object that is not complete is in
one chain without a break, and no thread has it. `ReceiveSound` is about the
behaviours in which the peer never fills the last byte (`NeverFull`) and no object
in several segments changes the context (`KeptTogether`). The code ensures
neither: positions are circular, so with a full buffer head and tail are equal
and `HeadBeyond` fails, and the first notification of an object that changes the
context goes to the wrong one, so that `BumpWithin` fails, see Deviations. An
object in one segment may change the context in every behaviour: the context
that is told of it then is not the one it was steered to, but it is told all.

**Descriptors** (`SockFd_proofs`). The kernel hands a closed descriptor, and malloc
a freed socket, to another thread at once. The invariant says what a thread
holds between two of its steps (`Holders`, `Sockets`), that nobody else holds it,
that a reserved descriptor without an entry is in some thread's hands (`Reserved`),
that entries, companions and their descriptors belong together (`Table`,
`Companions`), and that one thread initialises (`Boot`). Assumed: `FdAssumption` (a
table no larger than the descriptors there are; addresses are not descriptors).

**Epoll** (`Epoll_proofs`). No lock protects a socket's events and the lists. The
invariant is that what a thread has read of a socket is still so when it acts on
it (`AllStillSo`), that the lists are disjoint and complete (`AllLists`), and
what the threads and the events in flight refer to (`AllWaiting`, `Delivery`).
Threads add, modify, remove, wait on and receive events for any epoll and
socket. `EventsAreKept` holds in the behaviours in which no thread changes the
events or the mask of a socket while another is between reading and using them
(`NoRaces`), and `OneThreadKeepsAll` says that an application with one thread needs
no such proviso. Without it TLC finds a lost event (`InactiveQuiet` in Deviations).

**Only model-checked.** The properties of the components that the table does not name.
All liveness and `ENABLED`, which are out of the prover's reach, and what needs
induction over data, such as the reachability of an entry in the linked lists of
`Qman`: the library's induction theorems take an operator as a parameter. Where a
least number had to be found (the lowest free descriptor, the first free port,
the first position at which a walk goes wrong), the set form of well-founded
induction was enough.

## Not modelled

* Object connections and several cores at once: `ObjSend` and `ObjRecv` run on one
  core, and `Steering` keeps the credit of a flow and not its buffers.
* Connection state machine and data path in one model: `KernelTcp` ends where
  `FastFlow` begins, with the flow added and the open event queued.
* A stream connection that two threads use at once.
* Linux descriptors on an epoll (`num_linux`, `epoll.c:96`, `:236`): they live in an
  epoll of Linux, and `epoll_wait` on an epoll with one of them is Linux's, which
  looks at no socket of the stack. The steps of an operation on an epoll's list are one step; two threads
  in the list at once can damage it.
* The interposed `accept`, which accepts on the listener's Linux socket too and keeps
  that descriptor as a companion (`interpose.c:168`); answers with an error status to accepts and to other requests in
  `SockControl`.
* Closing connections: the code has none in the fast path, and the kernel frees
  failed ones only.
* ECN and RTT counters of the fast path (inputs of `CongControl`), TCP options
  (only whether a peer offers timestamps), header layout, checksums, tracing,
  statistics. Sequence numbers of handshake segments.
* The end of a forwarding ring (`fast_flows.c:79`): the rings of `Steering` are
  unbounded, since nothing but the speed of the other core bounds them.
* `send_network_raw` with a full queue (`kernel/internal.h:851`), which copies to a
  pointer it was not given.
* Start-up and option parsing, DPDK and memory mapping, `dummyem.c`,
  `splittcp.c`, the Linux driver, and applications and benchmarks (`flexkvs`,
  `mystorm`, `mtcp`, `tests`): no protocol state of the stack, or not part of it.

## Plan

Done: every component of the stack has a module and its safety and liveness are
checked; the theorems above are proved. What a continuation would prove, the
first ones first:

1. `Arp`: `WaitsOnce` and `PendingArmed`; `AppIf`: `OnePlace`; `Timeouts`:
   `NeverEarly`. The invariants are those of `KernelTcp_proofs` in small: who is in
   which list.
2. `SockData`: `DataExact`, a copy over vectors against the concatenated bytes.
3. `Steering`: `TableExact` and `Covered` for any number of cores and scalings.
4. `FlowTable`: a lookup finds a flow while entries are displaced.

What needs induction over a linked list (reachability in `Qman`) stays with TLC.
