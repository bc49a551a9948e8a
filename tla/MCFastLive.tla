----------------------------- MODULE MCFastLive -----------------------------
(***************************************************************************)
(* Small instances of the parts of the fast path, of the library and of    *)
(* the socket layer for liveness, and of its descriptors for safety.  A    *)
(* behaviour runs one part, chosen at the start; the others stay in an     *)
(* initial state.  Each liveness property states the fairness of its own   *)
(* part.                                                                   *)
(***************************************************************************)
EXTENDS SockFd, Sequences

VARIABLES
  part,  \* the part that runs
  \* Qman
  since, t, fired,
  \* Steering
  reta, buckets, cur, scale_to, scales, given, avail, credit, ring,
  \* LoadMon
  lm_cur, lm_scale_to, lm_age, idle, delta, elapsed, ewma_busy, ewma_cycles, waiting_n, lm_num, busy,
  \* FastStart
  launched, start_pc, rxq, txq, next_rx_id, next_tx_id, starts, ready, device_running, start_aborted,
  \* Dataplane
  dp_pc, txpool, rxpool, cache, head, num, batch, nic, work, next_ctx, q,
  \* ObjRecv
  rx_pos, rx_avail_, objrem, db, ooo, rx_hdr, notes, obj_len_rem, obj_pos, rxb_head, rxb_tail, rxb_nictail,
  rx_held, live,
  \* ObjSend
  txb_head_alloc, txb_head, txb_nichead, txb_tail, hdr, held, objs, bump_seq, obj_atx, obj_arx, tx_head,
  tx_next_pos, tx_sent, tx_objrem, rx_remote_avail, rx_dupack_cnt, fs_bump_seq, obj_credit, chunk,
  obj_aborted,
  \* RecvWindow
  rx_next_pos, rx_avail, wnd, arx, atx, win_head, win_tail, win_nictail, pending, unread,
  \* Wakeup
  w_clk, w_pc, queue, found, w_startwait, w_ts, left, ev, pst, w_last,
  \* Epoll
  ep_events, mask, active, inactive, pend, th, startwait, early,
  \* SockControl
  sock, kin, kout, kl, kctx, came, ctl, handed, ctl_aborted

(* A queue that has a rate and the queue of an object connection.          *)
Qman == INSTANCE Qman WITH
  Queues <- {"q1", "q2"}, Levels <- 1, Half <- 3, Jumps <- {0}, Costs <- {1}, MSS <- 1, Amounts <- {1},
  MaxAvail <- 1, Num <- 1, Gap <- 1

(* Flows of two groups, one of which moves to the other core and back.     *)
Steering == INSTANCE Steering WITH
  MaxCores <- 2, Size <- 2, ByteMax <- 255, Flows <- {"f1", "f2"},
  GroupOf <- [f \in {"f1", "f2"} |-> IF f = "f1" THEN 1 ELSE 0], MaxBytes <- 1, Mss <- 1, MaxScales <- 2

(* Two cores that at last find no work.                                    *)
LoadMon == INSTANCE LoadMon WITH
  cur <- lm_cur, scale_to <- lm_scale_to, age <- lm_age, num <- lm_num, MaxCores <- 2, Tick <- 6,
  MaxIter <- 1, Period <- 1, Smooth <- 1, WaitN <- 1, W <- 12, Loads <- BOOLEAN

(* Three threads that set up the device.                                   *)
Start == INSTANCE FastStart WITH
  pc <- start_pc, aborted <- start_aborted, CoresMax <- 3

(* Two contexts, one of which may fill every batch.                        *)
Dataplane == INSTANCE Dataplane WITH
  pc <- dp_pc, Batch <- 1, CacheSize <- 1, KernelMax <- 1, Contexts <- 2, TxBufs <- 5, RxBufs <- 1, Ring <- 2

(* Objects of one and two bytes for two contexts.                          *)
ObjRecv == INSTANCE ObjRecv WITH
  avail <- rx_avail_, hdr <- rx_hdr, held <- rx_held, pos <- rx_pos, Contexts <- {"c0", "c1"},
  RxLen <- 3, Sizes <- {1, 2}, MaxFill <- 2, Apart <- FALSE

(* Objects of several segments and a window that closes.                   *)
ObjSend == INSTANCE ObjSend WITH
  credit <- obj_credit, arx <- obj_arx, atx <- obj_atx, aborted <- obj_aborted, Contexts <- {"c0"},
  TxLen <- 4, Sizes <- {2, 3}, HdrLen <- 1, Mss <- 1, Windows <- {0, 2}, QueueLen <- 1, BumpMod <- 6

(* A window that closes when the application is slow.                      *)
Window == INSTANCE RecvWindow WITH
  rxb_head <- win_head, rxb_tail <- win_tail, rxb_nictail <- win_nictail, RxLen <- 4, Mss <- 2, Room <- 2,
  MaxUnread <- 3, QueueLen <- 2, Lossy <- FALSE

(* A fast-path core without active queues and an application that block.   *)
WakeFast == INSTANCE Wakeup WITH
  clk <- w_clk, pc <- w_pc, startwait <- w_startwait, ts <- w_ts, last <- w_last, Kind <- "fast",
  Posters <- {"other"}, PollCycle <- 1, Wrap <- 3, Wide <- 6, Long <- 1, Timers <- {-1}

WakeApp == INSTANCE Wakeup WITH
  clk <- w_clk, pc <- w_pc, startwait <- w_startwait, ts <- w_ts, last <- w_last, Kind <- "app",
  Posters <- {"other"}, PollCycle <- 1, Wrap <- 3, Wide <- 6, Long <- 1, Timers <- {-1, 0, 1}

(* Two sockets and room for one event.                                     *)
Epoll == INSTANCE Epoll WITH
  Threads <- {"t1"}, Epolls <- {"e1"}, Socks <- {"s1", "s2"},
  Receivers <- [s \in {"s1", "s2"} |-> {"t1"}], Events <- {"in"}, Err <- "err", MaxEvents <- 1,
  Timeouts <- {0}

(* A server, its listener and a connection.                                *)
Accept == INSTANCE SockControl WITH
  so <- sock, th <- ctl, aborted <- ctl_aborted, Threads <- {"t1"}, Addrs <- {"a1", "a2", "a3"},
  MaxConns <- 1, CloseBusy <- FALSE

(* The instances meet the assumptions of their modules. *)
ASSUME Assumptions ==
  /\ Qman!QmanAssumption /\ Steering!SteeringAssumption /\ LoadMon!LoadMonAssumption
  /\ Start!FastStartAssumption /\ Dataplane!DataplaneAssumption /\ ObjRecv!ObjRecvAssumption
  /\ ObjSend!ObjSendAssumption /\ Window!RecvWindowAssumption /\ WakeFast!WakeupAssumption
  /\ WakeApp!WakeupAssumption /\ Epoll!EpollAssumption /\ Accept!ControlAssumption /\ FdAssumption
-----------------------------------------------------------------------------
qmanVars == <<since, t, fired>>
steeringVars == <<reta, buckets, cur, scale_to, scales, given, avail, credit, ring>>
loadMonVars == <<lm_cur, lm_scale_to, lm_age, idle, delta, elapsed, ewma_busy, ewma_cycles, waiting_n,
                 lm_num, busy>>
fastStartVars == <<launched, start_pc, rxq, txq, next_rx_id, next_tx_id, starts, ready, device_running,
                   start_aborted>>
dataplaneVars == <<dp_pc, txpool, rxpool, cache, head, num, batch, nic, work, next_ctx, q>>
objRecvVars == <<rx_pos, rx_avail_, objrem, db, ooo, rx_hdr, notes, obj_len_rem, obj_pos, rxb_head,
                 rxb_tail, rxb_nictail, rx_held, live>>
objSendVars == <<txb_head_alloc, txb_head, txb_nichead, txb_tail, hdr, held, objs, bump_seq, obj_atx,
                 obj_arx, tx_head, tx_next_pos, tx_sent, tx_objrem, rx_remote_avail, rx_dupack_cnt,
                 fs_bump_seq, obj_credit, chunk, obj_aborted>>
recvWindowVars == <<rx_next_pos, rx_avail, wnd, arx, atx, win_head, win_tail, win_nictail, pending, unread>>
wakeupVars == <<w_clk, w_pc, queue, found, w_startwait, w_ts, left, ev, pst, w_last>>
epollVars == <<ep_events, mask, active, inactive, pend, th, startwait, early>>
sockControlVars == <<sock, kin, kout, kl, kctx, came, ctl, handed, ctl_aborted>>
mcVars == <<part, vars, qmanVars, steeringVars, loadMonVars, fastStartVars, dataplaneVars, objRecvVars, objSendVars,
                recvWindowVars, wakeupVars, epollVars, sockControlVars>>

MCInit ==
  /\ part \in {"qman", "steering", "load_mon", "start", "dataplane", "obj_recv", "obj_send", "window",
               "wake_fast", "wake_app", "epoll", "accept", "fd"}
  /\ Qman!Init
  /\ Steering!Init
  /\ LoadMon!Init
  /\ Start!Init
  /\ Dataplane!Init
  /\ ObjRecv!Init /\ (part # "obj_recv" => db = "c0")
  /\ ObjSend!Init
  /\ Window!Init
  /\ CASE part = "wake_fast" -> WakeFast!Init
       [] OTHER -> WakeApp!Init
  /\ part \notin {"wake_fast", "wake_app"} => w_clk = 0
  /\ Epoll!Init
  /\ Accept!Init
  /\ Init

(* The other parts stand still. *)
OthersRest ==
  /\ UNCHANGED part
  /\ IF part = "qman" THEN TRUE ELSE UNCHANGED qmanVars
  /\ IF part = "steering" THEN TRUE ELSE UNCHANGED steeringVars
  /\ IF part = "load_mon" THEN TRUE ELSE UNCHANGED loadMonVars
  /\ IF part = "start" THEN TRUE ELSE UNCHANGED fastStartVars
  /\ IF part = "dataplane" THEN TRUE ELSE UNCHANGED dataplaneVars
  /\ IF part = "obj_recv" THEN TRUE ELSE UNCHANGED objRecvVars
  /\ IF part = "obj_send" THEN TRUE ELSE UNCHANGED objSendVars
  /\ IF part = "window" THEN TRUE ELSE UNCHANGED recvWindowVars
  /\ IF part \in {"wake_fast", "wake_app"} THEN TRUE ELSE UNCHANGED wakeupVars
  /\ IF part = "epoll" THEN TRUE ELSE UNCHANGED epollVars
  /\ IF part = "accept" THEN TRUE ELSE UNCHANGED sockControlVars
  /\ IF part = "fd" THEN TRUE ELSE UNCHANGED vars

MCNext ==
  \/ part = "qman" /\ Qman!MixedNext({"q1"}) /\ OthersRest
  \/ part = "steering" /\ Steering!Next /\ OthersRest
  \/ part = "load_mon" /\ LoadMon!Next /\ OthersRest
  \/ part = "start" /\ Start!Next /\ OthersRest
  \/ part = "dataplane" /\ Dataplane!Next /\ OthersRest
  \/ part = "obj_recv" /\ ObjRecv!Next /\ OthersRest
  \/ part = "obj_send" /\ ObjSend!Next /\ OthersRest
  \/ part = "window" /\ Window!Next /\ OthersRest
  \/ part = "wake_fast" /\ WakeFast!Next /\ OthersRest
  \/ part = "wake_app" /\ WakeApp!Next /\ OthersRest
  \/ part = "epoll" /\ Epoll!Next /\ OthersRest
  \/ part = "accept" /\ Accept!ServerNext /\ OthersRest
  \/ part = "fd" /\ Next /\ OthersRest

MCSpec == MCInit /\ [][MCNext]_mcVars
-----------------------------------------------------------------------------
(* qman.c, fast_flows.c, network.c and fastemu.c: every queue that has     *)
(* bytes fires or its bytes are taken back, with and without a rate; every *)
(* flow's data is sent although scaling moves the flow between cores; and  *)
(* every context is served, also if another one always fills the batch.    *)
FlowsServed ==
  /\ Qman!Fairness => Qman!Served
  /\ Steering!Fairness => Steering!AllSent
  /\ Dataplane!Fairness => Dataplane!ContextsServed

(* network.c and flexnic.c: the device starts, once and with every queue   *)
(* set up, in whichever order the threads set up theirs, unless the        *)
(* process gave up; and when the cores find no more work the fast path is  *)
(* scaled down to one (flexnic_loadmon).                                   *)
CoresStartAndStop ==
  /\ Start!Fairness => Start!Starts
  /\ [](part = "start" => Start!TypeOK /\ Start!StartedComplete)
  /\ LoadMon!Fairness => LoadMon!IdleShrinks

(* stack/conn.c, stack/init.c and fast_flows.c: an object whose first      *)
(* segment came is received and given to a thread, also when those before  *)
(* and after it go to another context; what the library declared ready is  *)
(* sent; a window that closed is opened again; and a notification that     *)
(* found no room for its events is taken by a later poll.                  *)
TransfersEnd ==
  /\ ObjRecv!Fairness => ObjRecv!Received /\ ObjRecv!Given
  /\ ObjSend!Fairness => ObjSend!Sent
  /\ Window!Fairness => Window!Reopens /\ Window!Taken

(* fastemu.c and sockets/: a kick is never lost, also one that comes just  *)
(* before the wait; a ready socket is reported although others are always  *)
(* ready and a wait reports one; every connection that comes in is         *)
(* returned by an accept, unless memory for sockets runs out; and every    *)
(* thread gets past ensure_init, also the one that calls socket functions  *)
(* from inside.                                                            *)
SocketsServed ==
  /\ part = "wake_fast" /\ WakeFast!Fairness => WakeFast!KickServes
  /\ part = "wake_app" /\ WakeApp!Fairness => WakeApp!KickServes
  /\ Epoll!Fairness => Epoll!Reported
  /\ Accept!Fairness => Accept!Accepted
  /\ Fairness => InitEnds
=============================================================================
