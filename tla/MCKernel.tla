------------------------------ MODULE MCKernel ------------------------------
(***************************************************************************)
(* Small instances of the parts of the kernel (all but tcp.c, see          *)
(* MCKernelTcp).  The parts share no state, so that an interleaving of two *)
(* of them shows nothing new: a behaviour runs one part, chosen at the     *)
(* start, and the variables of the others do not change.  The queues to    *)
(* the fast path are this module's own part: two entries, two cores.       *)
(***************************************************************************)
EXTENDS KernelQueues

CONSTANTS Nil,
          MemThreads, MemSize, Lengths, MaxHandles  \* PacketMem

VARIABLES
  part,                                                             \* the part that runs
  hash, htId, htHash, reg, tried, ins, look,                        \* FlowTable
  freelist, ph, live, owned, found,                                 \* PacketMem
  clock, age, sincePoll, mgr, left, armed, handled, aborted,        \* Timeouts
  ent, arp_table, conn, cq, wire, tap, told, err,                   \* Arp
  config, routing_table, pc, ip, dest,                              \* Routing
  proc, pend, req, fds, st, batch, uxq, pq, notified, apps, free, ids, dead, \* AppIf
  now, last_ts, cc, loss, dec, rounds                               \* CongControl

(* Three flows, two of them with the same home slot, at the end of the     *)
(* table, so that the neighbourhoods wrap.                                 *)
FlowTable == INSTANCE FlowTable WITH
  Flows <- {"f1", "f2", "f3"}, Entries <- 16, NbSz <- 2, Hashes <- {14, 15, 31}, NoFlow <- Nil

(* Two threads, and four handles for five bytes, so that malloc may fail. *)
Mem == INSTANCE PacketMem WITH Threads <- MemThreads

(* Clocks that wrap after a few steps. *)
Timeouts == INSTANCE Timeouts WITH
  Timers <- {"t1", "t2", "t3"}, Half <- 4, MaxTimeouts <- 1, Delays <- {0, 2}, Gap <- 1

(* Two connections that ask for the same or for different peers, with one  *)
(* entry besides the host's own; and a peer that changes its address while *)
(* the TAP thread walks the table.                                         *)
ArpPeers == INSTANCE Arp WITH table <- arp_table,
  Conns <- {"c1", "c2"}, Peers <- {"p1", "p2"}, Me <- "me", Macs <- {"m1"}, Ents <- {"e1", "e2"},
  W <- 3, To <- 1, ToMax <- 4, Tap <- FALSE
ArpMacs == INSTANCE Arp WITH table <- arp_table,
  Conns <- {"c1", "c2"}, Peers <- {"p1"}, Me <- "me", Macs <- {"m1", "m2"}, Ents <- {"e1", "e2"},
  W <- 3, To <- 1, ToMax <- 4, Tap <- TRUE

(* Every configuration with two routes over addresses of two bits. *)
Routing == INSTANCE Routing WITH table <- routing_table, B <- 2, MaxRoutes <- 2

(* More processes than descriptors; and processes that end. *)
AppIf == INSTANCE AppIf WITH
  Procs <- {"p1", "p2", "p3"}, NFds <- 2, MaxCtx <- 1, Doorbells <- 2, AppstNum <- 2, CtxNum <- 3,
  Fail <- TRUE, Crash <- FALSE
AppIfCrash == INSTANCE AppIf WITH
  Procs <- {"p1", "p2"}, NFds <- 2, MaxCtx <- 2, Doorbells <- 3, AppstNum <- 2, CtxNum <- 3,
  Fail <- TRUE, Crash <- TRUE

CongWin == INSTANCE CongControl WITH c <- cc, left <- rounds,
  Alg <- "win", W <- 8, TW <- 3, DW <- 5, Counts <- {0, 12}, Rtts <- {0}, Mss <- 10, TxLen <- 40, LinkBw <- 1, Ns <- 1,
  RttInit <- 1, Interval <- 1, Gran <- 2, RexmitInts <- 2, RateInit <- 20, RateMin <- 3, Step <- 20, Mimd <- 0,
  Weight <- 64, MinPkts <- 5, Tlow <- 2, Thigh <- 4, Alpha <- 128, Beta <- 200, MinRtt <- 1,
  Starts <- {1}, Late <- 1, Rounds <- 3
CongRate == INSTANCE CongControl WITH c <- cc, left <- rounds,
  Alg <- "rate", W <- 8, TW <- 3, DW <- 5, Counts <- {0, 3}, Rtts <- {2}, Mss <- 10, TxLen <- 40, LinkBw <- 1, Ns <- 1,
  RttInit <- 2, Interval <- 1, Gran <- 2, RexmitInts <- 2, RateInit <- 20, RateMin <- 3, Step <- 20, Mimd <- 0,
  Weight <- 64, MinPkts <- 5, Tlow <- 2, Thigh <- 4, Alpha <- 128, Beta <- 200, MinRtt <- 1,
  Starts <- {1}, Late <- 1, Rounds <- 2
CongTimely == INSTANCE CongControl WITH c <- cc, left <- rounds,
  Alg <- "timely", W <- 8, TW <- 3, DW <- 5, Counts <- {0, 9}, Rtts <- {0, 5}, Mss <- 10, TxLen <- 40, LinkBw <- 1, Ns <- 1,
  RttInit <- 2, Interval <- 1, Gran <- 2, RexmitInts <- 2, RateInit <- 20, RateMin <- 3, Step <- 20, Mimd <- 0,
  Weight <- 64, MinPkts <- 5, Tlow <- 1, Thigh <- 2, Alpha <- 128, Beta <- 250, MinRtt <- 1,
  Starts <- {1}, Late <- 0, Rounds <- 4

(* The instances meet the assumptions of their modules. *)
ASSUME Assumptions ==
  /\ FlowTable!TableAssumption /\ Mem!MemAssumption /\ Mem!NilAssumption /\ Timeouts!TimeAssumption
  /\ ArpPeers!ArpAssumption /\ ArpMacs!ArpAssumption /\ Routing!RoutingAssumption
  /\ AppIf!AppIfAssumption /\ AppIfCrash!AppIfAssumption
  /\ CongWin!CongAssumption /\ CongRate!CongAssumption /\ CongTimely!CongAssumption
  /\ KernelQueuesAssumption
-----------------------------------------------------------------------------
Off == "off"

MCInit ==
  /\ part \in {"flow_table", "packet_mem", "timeouts", "arp_peers", "arp_macs", "routing", "appif", "appif_crash",
               "cong_win", "cong_rate", "cong_timely", "queues"}
  /\ IF part = "flow_table" THEN FlowTable!Init
     ELSE hash = Off /\ htId = Off /\ htHash = Off /\ reg = Off /\ tried = Off /\ ins = Off /\ look = Off
  /\ IF part = "packet_mem" THEN Mem!Init
     ELSE freelist = Off /\ ph = Off /\ live = Off /\ owned = Off /\ found = Off
  /\ IF part = "timeouts" THEN Timeouts!Init
     ELSE clock = Off /\ age = Off /\ sincePoll = Off /\ mgr = Off /\ left = Off /\ armed = Off /\ handled = Off /\ aborted = Off
  /\ CASE part = "arp_peers" -> ArpPeers!Init
       [] part = "arp_macs" -> ArpMacs!Init
       [] OTHER -> ent = Off /\ arp_table = Off /\ conn = Off /\ cq = Off /\ wire = Off /\ tap = Off /\ told = Off /\ err = Off
  /\ IF part = "routing" THEN Routing!Init
     ELSE config = Off /\ routing_table = Off /\ pc = Off /\ ip = Off /\ dest = Off
  /\ CASE part = "appif" -> AppIf!Init
       [] part = "appif_crash" -> AppIfCrash!Init
       [] OTHER -> /\ proc = Off /\ pend = Off /\ req = Off /\ fds = Off /\ st = Off /\ batch = Off /\ uxq = Off
                   /\ pq = Off /\ notified = Off /\ apps = Off /\ free = Off /\ ids = Off /\ dead = Off
  /\ CASE part = "cong_win" -> CongWin!Init
       [] part = "cong_rate" -> CongRate!Init
       [] part = "cong_timely" -> CongTimely!Init
       [] OTHER -> now = Off /\ last_ts = Off /\ cc = Off /\ loss = Off /\ dec = Off /\ rounds = Off
  /\ Init                                                         \* KernelQueues

tableVars == <<hash, htId, htHash, reg, tried, ins, look>>
memVars == <<freelist, ph, live, owned, found>>
timeVars == <<clock, age, sincePoll, mgr, left, armed, handled, aborted>>
arpVars == <<ent, arp_table, conn, cq, wire, tap, told, err>>
routeVars == <<config, routing_table, pc, ip, dest>>
appVars == <<proc, pend, req, fds, st, batch, uxq, pq, notified, apps, free, ids, dead>>
congVars == <<now, last_ts, cc, loss, dec, rounds>>
mcVars == <<part, tableVars, memVars, timeVars, arpVars, routeVars, appVars, congVars, vars>>

(* The other parts stand still. *)
OthersRest ==
  /\ UNCHANGED part
  /\ IF part = "flow_table" THEN TRUE ELSE UNCHANGED tableVars
  /\ IF part = "packet_mem" THEN TRUE ELSE UNCHANGED memVars
  /\ IF part = "timeouts" THEN TRUE ELSE UNCHANGED timeVars
  /\ IF part \in {"arp_peers", "arp_macs"} THEN TRUE ELSE UNCHANGED arpVars
  /\ IF part = "routing" THEN TRUE ELSE UNCHANGED routeVars
  /\ IF part \in {"appif", "appif_crash"} THEN TRUE ELSE UNCHANGED appVars
  /\ IF part \in {"cong_win", "cong_rate", "cong_timely"} THEN TRUE ELSE UNCHANGED congVars
  /\ IF part = "queues" THEN TRUE ELSE UNCHANGED vars

(* Parts that really may stop: no more requests. *)
Rest == part \in {"flow_table", "packet_mem", "timeouts", "appif", "appif_crash"} /\ UNCHANGED mcVars

(* Where nothing but timing keeps two threads apart, the step keeps them   *)
(* apart: Undisturbed, Unmixed.                                            *)
MCNext ==
  \/ part = "flow_table" /\ FlowTable!Next /\ OthersRest
  \/ part = "packet_mem" /\ Mem!Next /\ Mem!Undisturbed /\ OthersRest
  \/ part = "timeouts" /\ Timeouts!Next /\ OthersRest
  \/ part = "arp_peers" /\ ArpPeers!Next /\ OthersRest
  \/ part = "arp_macs" /\ ArpMacs!Next /\ OthersRest
  \/ part = "routing" /\ Routing!Next /\ OthersRest
  \/ part = "appif" /\ AppIf!Next /\ OthersRest
  \/ part = "appif_crash" /\ AppIfCrash!Next /\ OthersRest
  \/ part = "cong_win" /\ CongWin!Next /\ OthersRest
  \/ part = "cong_rate" /\ CongRate!Next /\ OthersRest
  \/ part = "cong_timely" /\ CongTimely!Next /\ OthersRest
  \/ part = "queues" /\ Next /\ Unmixed /\ OthersRest
  \/ Rest

MCSpec == MCInit /\ [][MCNext]_mcVars
-----------------------------------------------------------------------------
(* nicif.c, flow_slot_alloc, and fast_flows.c, fast_flows_packet_fss: a    *)
(* registered flow stays where the lookup searches, however entries are    *)
(* displaced for later flows; it has one slot, a second one only while it  *)
(* is being moved; and a lookup finds a flow registered before it began,   *)
(* while the kernel displaces entries under it.  (The instance has three   *)
(* flows: with a fourth an entry displaced twice leaves the neighbourhood, *)
(* see the deviations in README.)                                          *)
FlowsFound ==
  part = "flow_table" =>
    /\ FlowTable!TypeOK /\ FlowTable!FlowsReachable /\ FlowTable!NoDuplicates
    /\ FlowTable!DisplacementAsserts /\ FlowTable!LookupFinds

(* packetmem.c: every byte of the DMA memory belongs to one region, of a   *)
(* caller or free, and the free list ends and leads to free regions only,  *)
(* whichever of the two threads takes a region or returns one.             *)
MemoryPartitioned ==
  part = "packet_mem" => Mem!TypeOK /\ Mem!Partition /\ Mem!ListSound

(* utils/timeout.c: no timeout is due before its time, none that has       *)
(* passed is taken for one in the future, the main loop sleeps past none   *)
(* (util_timeout_next), wherever the clock wraps, and the links of both    *)
(* lists agree in both directions.                                         *)
TimeoutsExact ==
  part = "timeouts" =>
    /\ Timeouts!TypeOK /\ Timeouts!ListsSound
    /\ Timeouts!NeverEarly /\ Timeouts!NeverMissed /\ Timeouts!NoOversleep

(* arp.c and routing.c: a connection that waits for an address is on one   *)
(* entry's list or its completion is queued; an entry has its timeout      *)
(* armed exactly while it is pending; a connection is given an address     *)
(* that was announced for the host it asked for; and an address of the     *)
(* host's own network is resolved directly whatever the routes are.        *)
ResolutionsSound ==
  /\ part = "arp_peers" =>
       ArpPeers!TypeOK /\ ArpPeers!WaitsOnce /\ ArpPeers!PendingArmed /\ ArpPeers!MacTold
  /\ part = "arp_macs" =>
       ArpMacs!TypeOK /\ ArpMacs!WaitsOnce /\ ArpMacs!PendingArmed /\ ArpMacs!MacTold
  /\ part = "routing" => Routing!TypeOK /\ Routing!LocalDirect

(* appif.c: a request of a process is in exactly one place on its way, and *)
(* until it is answered no other is read; a process is told of a context   *)
(* only after the context was registered with the fast path.               *)
AppsRegistered ==
  /\ part = "appif" => AppIf!TypeOK /\ AppIf!OnePlace /\ AppIf!ReadyRegistered
  /\ part = "appif_crash" => AppIfCrash!TypeOK

(* cc.c: the window is at least a segment and at most the send buffer, the *)
(* rate set for a flow is a limit (zero means none); a loss halves either  *)
(* at the next decision, also when intervals with too few packets came     *)
(* between; one round of timely takes at most half of the rate away; and   *)
(* the assertion of cc_next_ts holds although the clock wraps.             *)
RatesBounded ==
  [][/\ part = "cong_win" => CongWin!TypeOK' /\ CongWin!WindowBounds' /\ CongWin!LossHalvesStep
                            /\ CongWin!NextTsForward'
     /\ part = "cong_rate" => CongRate!TypeOK' /\ CongRate!RateLimited' /\ CongRate!LossHalvesStep
     /\ part = "cong_timely" => CongTimely!TypeOK' /\ CongTimely!TimelyHalvesStep]_mcVars
=============================================================================
