---------------------------- MODULE MCKernelLive ----------------------------
(***************************************************************************)
(* Small instances of the parts of the kernel for liveness. A behaviour    *)
(* runs one part, chosen at the start; the others stay in an initial       *)
(* state. Each property states the fairness of its own part.               *)
(***************************************************************************)
EXTENDS Integers, Sequences

CONSTANTS NoConn, Nil

VARIABLES
  part,  \* the part that runs
  \* KernelTcp
  kconn, tcp_conns, lst, ports, port_hint, async_q, arp, app_conns, kout, kout_pos, app_pos, linux, ktap,
  kwire, up, asked, ktold, kern,
  \* KernelTcpOpen
  o_conn, o_tcp_conns, o_lst, o_ports, o_port_hint, o_async_q, o_arp, o_app_conns, o_kout, o_kout_pos,
  o_app_pos, o_linux, o_tap, o_wire, o_up, o_asked, o_told, o_kern,
  \* Timeouts
  clock, to_age, sincePoll, mgr, to_left, armed, handled, to_aborted,
  \* Arp
  ent, arp_table, conn, cq, wire, tap, told, err,
  \* Routing
  config, table, pc, ip, dest,
  \* AppIf
  proc, pend, req, fds, st, batch, uxq, pq, notified, apps, free, ids, dead,
  \* CongControl
  now, last_ts, c, loss, dec, cc_left,
  \* KernelQueues
  q_up, rx, rx_head, rx_tail, accepted, processed, rxq_next, tx, tx_head, tx_tail, hold, q_sent, intact,
  \* Wakeup
  w_clk, w_pc, queue, found, startwait, w_ts, left, ev, pst, w_last

(* Two peers that connect to a listener, whose SYN-ACKs are lost.          *)
Peer == INSTANCE KernelTcp WITH
  conn <- kconn, tap <- ktap, wire <- kwire, told <- ktold, Conns <- {1}, Peers <- {"p1", "p2"},
  Opens <- {}, Accepts <- {"a1"}, Listeners <- {"l1"}, ListenPort <- [l \in {"l1"} |-> 2], FirstEph <- 2,
  LastPort <- 2, BacklogLen <- 2, KoutLen <- 1, Retries <- 0, Kinds <- {"SYN"},
  PeerTs <- [p \in {"p1", "p2"} |-> {TRUE}], PeerHash <- [p \in {"p1", "p2"} |-> 1], NicFails <- FALSE

(* Two open requests, memory for one connection, segments lost or out of   *)
(* place.                                                                  *)
Open == INSTANCE KernelTcp WITH
  conn <- o_conn, tcp_conns <- o_tcp_conns, lst <- o_lst, ports <- o_ports, port_hint <- o_port_hint,
  async_q <- o_async_q, arp <- o_arp, app_conns <- o_app_conns, kout <- o_kout, kout_pos <- o_kout_pos,
  app_pos <- o_app_pos, linux <- o_linux, tap <- o_tap, wire <- o_wire, up <- o_up, asked <- o_asked,
  told <- o_told, kern <- o_kern, Conns <- {1}, Peers <- {"p1", "p2"}, Opens <- {"o1", "o2"}, Accepts <- {},
  Listeners <- {}, ListenPort <- <<>>, FirstEph <- 2, LastPort <- 3, BacklogLen <- 2, KoutLen <- 2,
  Retries <- 1, Kinds <- {"SYN", "SYN_ACK", "RST"}, PeerTs <- [p \in {"p1", "p2"} |-> {TRUE}],
  PeerHash <- [p \in {"p1", "p2"} |-> 1], NicFails <- TRUE

(* More timeouts due than one poll handles.                                *)
Timeouts == INSTANCE Timeouts WITH
  left <- to_left, age <- to_age, aborted <- to_aborted, Timers <- {"t1", "t2"}, Half <- 4,
  MaxTimeouts <- 1, Delays <- {0, 2}, Gap <- 1

(* Requests of two connections for one address.                            *)
Arp == INSTANCE Arp WITH
  table <- arp_table, Conns <- {"c1", "c2"}, Peers <- {"p1"}, Me <- "me", Macs <- {"m1"},
  Ents <- {"e1", "e2"}, W <- 3, To <- 1, ToMax <- 3, Tap <- FALSE

(* Every configuration with a route.                                       *)
Routing == INSTANCE Routing WITH
  B <- 2, MaxRoutes <- 1

(* Two processes that ask for contexts.                                    *)
AppIf == INSTANCE AppIf WITH
  Procs <- {"p1", "p2"}, NFds <- 2, MaxCtx <- 1, Doorbells <- 2, AppstNum <- 2, CtxNum <- 2, Fail <- FALSE,
  Crash <- FALSE

(* A connection whose peer stops acknowledging.                            *)
Cong == INSTANCE CongControl WITH
  left <- cc_left, Alg <- "const", W <- 8, TW <- 3, DW <- 5, Counts <- {0, 1}, Rtts <- {0}, Mss <- 10, TxLen <- 40,
  LinkBw <- 1, Ns <- 1, RttInit <- 2, Interval <- 1, Gran <- 2, RexmitInts <- 2, RateInit <- 20,
  RateMin <- 3, Step <- 20, Mimd <- 0, Weight <- 64, MinPkts <- 5, Tlow <- 2, Thigh <- 4, Alpha <- 128,
  Beta <- 200, MinRtt <- 1, Starts <- {0}, Late <- 1, Rounds <- 0

(* Two cores, one of which may always have packets.                        *)
Queues == INSTANCE KernelQueues WITH
  up <- q_up, sent <- q_sent, NumCores <- 2, RxLen <- 2, TxLen <- 2, Threads <- {"main"}, Payloads <- {}

(* Timeouts that are due, soon and more than a second off, or none.        *)
Wakeup == INSTANCE Wakeup WITH
  clk <- w_clk, pc <- w_pc, ts <- w_ts, last <- w_last, Kind <- "kernel", Posters <- {"app"},
  PollCycle <- 1, Wrap <- 3, Wide <- 6, Long <- 2, Timers <- {-1, 0, 1, 3}

(* The instances meet the assumptions of their modules. *)
ASSUME Assumptions ==
  /\ Timeouts!TimeAssumption /\ Arp!ArpAssumption /\ Routing!RoutingAssumption /\ AppIf!AppIfAssumption
  /\ Cong!CongAssumption /\ Queues!KernelQueuesAssumption /\ Wakeup!WakeupAssumption
-----------------------------------------------------------------------------
kernelTcpVars == <<kconn, tcp_conns, lst, ports, port_hint, async_q, arp, app_conns, kout, kout_pos,
                   app_pos, linux, ktap, kwire, up, asked, ktold, kern>>
kernelTcpOpenVars == <<o_conn, o_tcp_conns, o_lst, o_ports, o_port_hint, o_async_q, o_arp, o_app_conns,
                       o_kout, o_kout_pos, o_app_pos, o_linux, o_tap, o_wire, o_up, o_asked, o_told, o_kern>>
timeoutsVars == <<clock, to_age, sincePoll, mgr, to_left, armed, handled, to_aborted>>
arpVars == <<ent, arp_table, conn, cq, wire, tap, told, err>>
routingVars == <<config, table, pc, ip, dest>>
appIfVars == <<proc, pend, req, fds, st, batch, uxq, pq, notified, apps, free, ids, dead>>
congControlVars == <<now, last_ts, c, loss, dec, cc_left>>
kernelQueuesVars == <<q_up, rx, rx_head, rx_tail, accepted, processed, rxq_next, tx, tx_head, tx_tail, hold,
                      q_sent, intact>>
wakeupVars == <<w_clk, w_pc, queue, found, startwait, w_ts, left, ev, pst, w_last>>
vars == <<part, kernelTcpVars, kernelTcpOpenVars, timeoutsVars, arpVars, routingVars, appIfVars,
                congControlVars, kernelQueuesVars, wakeupVars>>

Init ==
  /\ part \in {"peer", "open", "timeouts", "arp", "routing", "appif", "cong", "queues", "wakeup"}
  /\ Peer!Init /\ (part # "peer" => port_hint = 2)
  /\ Open!Init /\ (part # "open" => o_port_hint = 2)
  /\ Timeouts!Init /\ (part # "timeouts" => clock = 0)
  /\ Arp!Init /\ (part # "arp" => arp_table = <<"e1">>)
  /\ Routing!Init /\ (part # "routing" => config = [ip |-> 1, prefix |-> 0, routes |-> <<>>])
  /\ AppIf!Init
  /\ Cong!Init
  /\ Queues!Init
  /\ Wakeup!Init /\ (part # "wakeup" => w_clk = 0)

(* The other parts stand still. *)
OthersRest ==
  /\ UNCHANGED part
  /\ IF part = "peer" THEN TRUE ELSE UNCHANGED kernelTcpVars
  /\ IF part = "open" THEN TRUE ELSE UNCHANGED kernelTcpOpenVars
  /\ IF part = "timeouts" THEN TRUE ELSE UNCHANGED timeoutsVars
  /\ IF part = "arp" THEN TRUE ELSE UNCHANGED arpVars
  /\ IF part = "routing" THEN TRUE ELSE UNCHANGED routingVars
  /\ IF part = "appif" THEN TRUE ELSE UNCHANGED appIfVars
  /\ IF part = "cong" THEN TRUE ELSE UNCHANGED congControlVars
  /\ IF part = "queues" THEN TRUE ELSE UNCHANGED kernelQueuesVars
  /\ IF part = "wakeup" THEN TRUE ELSE UNCHANGED wakeupVars

Next ==
  \/ part = "peer" /\ Peer!Next /\ OthersRest
  \/ part = "open" /\ Open!Next /\ OthersRest
  \/ part = "timeouts" /\ Timeouts!Next /\ OthersRest
  \/ part = "arp" /\ Arp!Next /\ OthersRest
  \/ part = "routing" /\ Routing!Next /\ OthersRest
  \/ part = "appif" /\ AppIf!Next /\ OthersRest
  \/ part = "cong" /\ Cong!Next /\ OthersRest
  \/ part = "queues" /\ Queues!Next /\ OthersRest
  \/ part = "wakeup" /\ Wakeup!Next /\ OthersRest

Spec == Init /\ [][Next]_vars
-----------------------------------------------------------------------------
(* tcp.c: every open is answered in the end, by success, a reset or too    *)
(* many timeouts (ConnService with its fairness); a peer whose SYN was     *)
(* accepted gets a SYN-ACK in the end, though SYN-ACKs are lost, because   *)
(* it repeats its SYN; and no SYN stays in the backlog while a connection  *)
(* waits for one, in whichever order accepts and SYNs arrive.              *)
HandshakesEnd ==
  /\ Open!Fairness => Open!OpensAnswered
  /\ Peer!Fairness => Peer!PeerConnects
  /\ [](part = "peer" => Peer!NoIdleAccept)

(* arp.c, routing.c, appif.c, stack/kernel.c, utils/timeout.c: who waits   *)
(* for the kernel is answered.  Every armed timeout is triggered or        *)
(* disarmed, even when more are due than one poll handles; every           *)
(* resolution ends; routing_resolve returns for every table whose gateways *)
(* are in the network of the host; flextcp_kernel_newctx returns.          *)
WaitsEnd ==
  /\ Timeouts!Fairness => Timeouts!Triggers
  /\ Arp!Fairness => Arp!Resolved
  /\ Routing!Fairness => Routing!GatewaysReturn
  /\ AppIf!Fairness => AppIf!NewctxReturns

(* cc.c: a stall ends, with an acknowledgement or with a retransmission,   *)
(* whether or not the first requests to retransmit fail.                   *)
StallEnds == Cong!Fairness => Cong!StallEnds

(* nicif.c, fast_kernel.c, kernel.c: every packet for the kernel is        *)
(* processed, from whichever core, what the kernel sends is taken by its   *)
(* core, and what is queued for a kernel that sleeps is found, although    *)
(* kicks are left out while it should be polling.                          *)
KernelServed ==
  /\ Queues!Fairness => Queues!RxServed /\ Queues!TxServed
  /\ Wakeup!Fairness => Wakeup!Served
=============================================================================
