------------------------------- MODULE MCFast -------------------------------
(***************************************************************************)
(* Small instances of the parts of the fast path, and of the library where *)
(* the two share a buffer (all but FastFlow, see MCFastFlow). The parts    *)
(* share no state in the model: a behaviour runs one part, chosen at the   *)
(* start, and the variables of the others do not change.                   *)
(***************************************************************************)
EXTENDS MCTcpCommon, TLC

CONSTANTS Nil, q1, q2, r1, r2, r3,
          Batch, CacheSize, KernelMax, Contexts, TxBufs, RxBufs, Ring,  \* Dataplane
          ObjContexts, ObjLen, ObjSizes, ObjFill, ObjApart,             \* ObjRecv
          WinLen, WinMss, WinRoom, WinUnread, WinQueue, WinLossy        \* RecvWindow

VARIABLES
  part,  \* the part that runs
  \* Qman
  since, t, fired,
  \* Steering
  reta, buckets, cur, scale_to, scales, given, avail, credit, ring,
  \* LoadMon
  lm_cur, lm_scale_to, age, idle, delta, elapsed, ewma_busy, ewma_cycles, waiting_n, lm_num, busy,
  \* Dataplane
  pc, txpool, rxpool, cache, head, num, batch, nic, work, next_ctx, q,
  \* ObjRecv
  pos, obj_avail, objrem, db, ooo, rx_hdr, notes, obj_len_rem, obj_pos, rxb_head, rxb_tail, rxb_nictail,
  rx_held, live,
  \* ObjSend
  txb_head_alloc, txb_head, txb_nichead, txb_tail, hdr, held, objs, bump_seq, atx, arx, tx_head,
  tx_next_pos, tx_sent, tx_objrem, rx_remote_avail, rx_dupack_cnt, fs_bump_seq, obj_credit, chunk, aborted,
  \* RecvWindow
  rx_next_pos, rx_avail, wnd, win_arx, win_atx, win_head, win_tail, win_nictail, pending, unread

(* Queues may be exchanged. *)
Symmetric == Permutations({q1, q2}) \cup Permutations({r1, r2, r3})

(* Two queues in both lists; three in the skip list.                       *)
Qman == INSTANCE Qman WITH
  Queues <- {q1, q2}, Levels <- 1, Half <- 3, Jumps <- {0}, Costs <- {1}, MSS <- 1, Amounts <- {2},
  MaxAvail <- 2, Num <- 1, Gap <- 1

QmanThree == INSTANCE Qman WITH
  Queues <- {r1, r2, r3}, Levels <- 2, Half <- 3, Jumps <- {0}, Costs <- {1}, MSS <- 1, Amounts <- {1},
  MaxAvail <- 1, Num <- 1, Gap <- 1

(* Flows of the first and the last group while two scalings move groups;   *)
(* and a table that the cores do not divide evenly.                        *)
Steering == INSTANCE Steering WITH
  MaxCores <- 3, Size <- 6, ByteMax <- 255, Flows <- {"f1", "f2"},
  GroupOf <- [f \in {"f1", "f2"} |-> IF f = "f1" THEN 5 ELSE 0], MaxBytes <- 1, Mss <- 2, MaxScales <- 2

Balance == INSTANCE Steering WITH
  MaxCores <- 4, Size <- 8, ByteMax <- 255, Flows <- {"f1"}, GroupOf <- [f \in {"f1"} |-> 0], MaxBytes <- 1,
  Mss <- 2, MaxScales <- 3

LoadMon == INSTANCE LoadMon WITH
  cur <- lm_cur, scale_to <- lm_scale_to, num <- lm_num, MaxCores <- 2, Tick <- 6, MaxIter <- 1,
  Period <- 2, Smooth <- 2, WaitN <- 2, W <- 12, Loads <- BOOLEAN

(* A batch, a cache and a ring that fill up.                               *)
Core == INSTANCE Dataplane

(* Objects of one and several bytes for two contexts (in the cfg); those   *)
(* of several segments stay with the context of the one before.            *)
ObjRecv == INSTANCE ObjRecv WITH
  avail <- obj_avail, hdr <- rx_hdr, held <- rx_held, Contexts <- ObjContexts, RxLen <- ObjLen,
  Sizes <- ObjSizes, MaxFill <- ObjFill, Apart <- ObjApart

(* Two threads that send objects; and one, with losses.                    *)
ObjSend == INSTANCE ObjSend WITH
  credit <- obj_credit, Contexts <- {"c0", "c1"}, TxLen <- 4, Sizes <- {1, 2}, HdrLen <- 1, Mss <- 2,
  Windows <- {0, 2}, QueueLen <- 1, BumpMod <- 4

ObjLoss == INSTANCE ObjSend WITH
  credit <- obj_credit, Contexts <- {"c0"}, TxLen <- 4, Sizes <- {1, 2}, HdrLen <- 1, Mss <- 2,
  Windows <- {0, 2}, QueueLen <- 1, BumpMod <- 4

Window == INSTANCE RecvWindow WITH
  arx <- win_arx, atx <- win_atx, rxb_head <- win_head, rxb_tail <- win_tail, rxb_nictail <- win_nictail,
  RxLen <- WinLen, Mss <- WinMss, Room <- WinRoom, MaxUnread <- WinUnread, QueueLen <- WinQueue, Lossy <- WinLossy

(* The instances meet the assumptions of their modules. *)
ASSUME Assumptions ==
  /\ Qman!QmanAssumption /\ QmanThree!QmanAssumption /\ Steering!SteeringAssumption
  /\ Balance!SteeringAssumption /\ LoadMon!LoadMonAssumption /\ Core!DataplaneAssumption
  /\ ObjRecv!ObjRecvAssumption /\ ObjSend!ObjSendAssumption /\ ObjLoss!ObjSendAssumption
  /\ Window!RecvWindowAssumption
-----------------------------------------------------------------------------
qmanVars == <<since, t, fired>>
steeringVars == <<reta, buckets, cur, scale_to, scales, given, avail, credit, ring>>
loadMonVars == <<lm_cur, lm_scale_to, age, idle, delta, elapsed, ewma_busy, ewma_cycles, waiting_n, lm_num,
                 busy>>
dataplaneVars == <<pc, txpool, rxpool, cache, head, num, batch, nic, work, next_ctx, q>>
objRecvVars == <<pos, obj_avail, objrem, db, ooo, rx_hdr, notes, obj_len_rem, obj_pos, rxb_head, rxb_tail,
                 rxb_nictail, rx_held, live>>
objSendVars == <<txb_head_alloc, txb_head, txb_nichead, txb_tail, hdr, held, objs, bump_seq, atx, arx,
                 tx_head, tx_next_pos, tx_sent, tx_objrem, rx_remote_avail, rx_dupack_cnt, fs_bump_seq,
                 obj_credit, chunk, aborted>>
recvWindowVars == <<rx_next_pos, rx_avail, wnd, win_arx, win_atx, win_head, win_tail, win_nictail, pending,
                    unread>>
mcVars == <<part, in, qmanVars, steeringVars, loadMonVars, dataplaneVars, objRecvVars,
                objSendVars, recvWindowVars>>

Off == "off"

MCInit ==
  /\ part \in {"common", "qman", "qman_three", "steering", "balance", "load_mon", "dataplane", "obj_recv",
               "obj_send", "obj_loss", "window"}
  /\ IF part = "common" THEN Init
     ELSE in = [kind |-> "bump", seq |-> 0, last |-> 0]
  /\ CASE part = "qman" -> Qman!Init
       [] part = "qman_three" -> QmanThree!Init
       [] OTHER -> since = Off /\ t = Off /\ fired = Off
  /\ CASE part = "steering" -> Steering!Init
       [] part = "balance" -> Balance!Init
       [] OTHER -> /\ reta = Off /\ buckets = Off /\ cur = Off /\ scale_to = Off /\ scales = Off
                   /\ given = Off /\ avail = Off /\ credit = Off /\ ring = Off
  /\ IF part = "load_mon" THEN LoadMon!Init
     ELSE /\ lm_cur = Off /\ lm_scale_to = Off /\ age = Off /\ idle = Off /\ delta = Off /\ elapsed = Off
          /\ ewma_busy = Off /\ ewma_cycles = Off /\ waiting_n = Off /\ lm_num = Off /\ busy = Off
  /\ IF part = "dataplane" THEN Core!Init
     ELSE /\ pc = Off /\ txpool = Off /\ rxpool = Off /\ cache = Off /\ head = Off /\ num = Off
          /\ batch = Off /\ nic = Off /\ work = Off /\ next_ctx = Off /\ q = Off
  /\ IF part = "obj_recv" THEN ObjRecv!Init
     ELSE /\ pos = Off /\ obj_avail = Off /\ objrem = Off /\ db = Off /\ ooo = Off /\ rx_hdr = Off
          /\ notes = Off /\ obj_len_rem = Off /\ obj_pos = Off /\ rxb_head = Off /\ rxb_tail = Off
          /\ rxb_nictail = Off /\ rx_held = Off /\ live = Off
  /\ CASE part = "obj_send" -> ObjSend!Init
       [] part = "obj_loss" -> ObjLoss!Init
       [] OTHER -> /\ txb_head_alloc = Off /\ txb_head = Off /\ txb_nichead = Off /\ txb_tail = Off
                   /\ hdr = Off /\ held = Off /\ objs = Off /\ bump_seq = Off /\ atx = Off /\ arx = Off
                   /\ tx_head = Off /\ tx_next_pos = Off /\ tx_sent = Off /\ tx_objrem = Off
                   /\ rx_remote_avail = Off /\ rx_dupack_cnt = Off /\ fs_bump_seq = Off /\ obj_credit = Off
                   /\ chunk = Off /\ aborted = Off
  /\ IF part = "window" THEN Window!Init
     ELSE /\ rx_next_pos = Off /\ rx_avail = Off /\ wnd = Off /\ win_arx = Off /\ win_atx = Off
          /\ win_head = Off /\ win_tail = Off /\ win_nictail = Off /\ pending = Off /\ unread = Off

(* The other parts stand still. *)
OthersRest ==
  /\ UNCHANGED part
  /\ IF part = "common" THEN TRUE ELSE UNCHANGED in
  /\ IF part \in {"qman", "qman_three"} THEN TRUE ELSE UNCHANGED qmanVars
  /\ IF part \in {"steering", "balance"} THEN TRUE ELSE UNCHANGED steeringVars
  /\ IF part = "load_mon" THEN TRUE ELSE UNCHANGED loadMonVars
  /\ IF part = "dataplane" THEN TRUE ELSE UNCHANGED dataplaneVars
  /\ IF part = "obj_recv" THEN TRUE ELSE UNCHANGED objRecvVars
  /\ IF part \in {"obj_send", "obj_loss"} THEN TRUE ELSE UNCHANGED objSendVars
  /\ IF part = "window" THEN TRUE ELSE UNCHANGED recvWindowVars

(* Parts that really may stop. *)
Rest == part \in {"qman", "qman_three", "obj_recv", "obj_send", "obj_loss", "window"} /\ UNCHANGED mcVars

MCNext ==
  \/ part = "common" /\ Next /\ OthersRest
  \/ part = "qman" /\ Qman!Next /\ OthersRest
  \/ part = "qman_three" /\ QmanThree!RatedNext /\ OthersRest
  \/ part = "steering" /\ Steering!Next /\ OthersRest
  \/ part = "balance" /\ Balance!Next /\ OthersRest
  \/ part = "load_mon" /\ LoadMon!Next /\ OthersRest
  \/ part = "dataplane" /\ Core!Next /\ OthersRest
  \/ part = "obj_recv" /\ ObjRecv!Next /\ OthersRest
  \/ part = "obj_send" /\ ObjSend!Next /\ OthersRest
  \/ part = "obj_loss" /\ ObjLoss!NextLoss /\ OthersRest
  \/ part = "window" /\ Window!Next /\ OthersRest
  \/ Rest

MCSpec == MCInit /\ [][MCNext]_mcVars
-----------------------------------------------------------------------------
(* qman.c: a queue that has bytes is in a list; the lists hold the queues  *)
(* flagged for them, each once, and each level of the skip list is a part  *)
(* of the one below; the skip list is in the order of the virtual times,   *)
(* none in the past nor further off than a full chunk at the slowest rate; *)
(* and one poll advances the virtual clock by no more than the time since  *)
(* the last poll.                                                          *)
QueuesListed ==
  [][/\ part = "qman" => Qman!TypeOK' /\ Qman!ListsSound' /\ Qman!NoneForgotten' /\ Qman!InOrder'
     /\ part = "qman_three" =>
          /\ QmanThree!TypeOK' /\ QmanThree!ListsSound' /\ QmanThree!NoneForgotten'
          /\ QmanThree!NotFasterStep]_mcVars

(* network.c, fast_flows.c and flexnic.c: after any scalings every flow    *)
(* group is steered to a core in use, the counts are the table's, and no   *)
(* core has more than twice its share; while a flow moves, what it can     *)
(* send is covered by credit on some core or by an entry in a forwarding   *)
(* ring; and what one decision of flexnic_loadmon asks for, the next one,  *)
(* for the same load, does not take back.                                  *)
FlowsSteered ==
  /\ part = "steering" => Steering!TypeOK /\ Steering!TableExact /\ Steering!Covered
  /\ part = "balance" => Balance!TypeOK /\ Balance!TableExact /\ Balance!Balanced
  /\ part = "load_mon" => LoadMon!TypeOK /\ LoadMon!Settles

(* fastemu.c: every packet buffer is in one place: pools, cache, batch or  *)
(* NIC; the batch is never full, which would abort, and no more cached     *)
(* buffers are used than there are.                                        *)
BuffersOwned == part = "dataplane" => Core!TypeOK /\ Core!OwnedOnce /\ Core!NeverFull

(* conn.c, init.c and fast_flows.c: however late notifications and bumps   *)
(* are, the fast path never counts bytes as free that are not, and the     *)
(* peer has no window beyond them.  Of a buffer of objects exactly the     *)
(* part up to the first object not given back is freed, its head never     *)
(* moves back, and no notification reaches past the object it is about.    *)
ReceiveBuffersSound ==
  /\ part = "window" => Window!TypeOK /\ Window!NothingOverwritten
  /\ part = "obj_recv" => ObjRecv!TypeOK /\ ObjRecv!FreedExact /\ ObjRecv!HeadBeyond /\ ObjRecv!BumpWithin

(* conn.c and fast_flows.c: no unfinished object is sent, in whatever      *)
(* order the threads finish theirs; while the flow may send the queue      *)
(* manager has credit for it, whatever the order of bumps, segments,       *)
(* acknowledgements and retransmissions; and without losses no segment     *)
(* reaches from one object into the next ("we need to be careful to make   *)
(* segments end on segment boundaries").                                   *)
ObjectsSent ==
  [][/\ part = "obj_send" =>
          ObjSend!TypeOK' /\ ObjSend!ReadyPrefix' /\ ObjSend!Armed' /\ ObjSend!SegmentsWithinStep
     /\ part = "obj_loss" => ObjLoss!ReadyPrefix' /\ ObjLoss!Armed']_mcVars
=============================================================================
