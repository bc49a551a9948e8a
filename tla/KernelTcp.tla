----------------------------- MODULE KernelTcp -----------------------------
(***************************************************************************)
(* The kernel's connection and listener state machine (kernel/tcp.c), the  *)
(* TAP thread that completes passive opens through Linux (kernel/tap.c)    *)
(* and the events both write into the application's kernel queue           *)
(* (kernel/appif_ctx.c).  The main thread's handlers are atomic with       *)
(* respect to each other; the TAP thread runs beside them, and its write   *)
(* into the queue of the application is split where it reads and where it  *)
(* writes the queue position.                                              *)
(***************************************************************************)
EXTENDS Naturals, Sequences, FiniteSets

CONSTANTS Conns,       \* connection structs that memory allows
          Peers,       \* remote (address, port) endpoints
          Opens,       \* open requests, named by their opaque value
          Accepts,     \* accept requests
          Listeners,   \* listeners the application may create
          ListenPort,  \* port that each listener is for
          FirstEph,    \* PORT_FIRST_EPH
          LastPort,    \* PORT_MAX
          BacklogLen,  \* backlog of a listener
          KoutLen,     \* entries of the queue from kernel to application
          Retries,     \* config.tcp_handshake_retries
          Kinds,       \* kinds of segment that peers send
          PeerTs,      \* with and without timestamp option, per peer
          PeerHash,    \* hash of a peer's four-tuple, for LMULTI
          NicFails,    \* may the NIC have no room for a flow (TRUE, FALSE)?
          NoConn       \* NULL

ASSUME TcpAssumption ==
  /\ FirstEph \in Nat /\ LastPort \in Nat /\ 0 < FirstEph /\ FirstEph <= LastPort
  /\ BacklogLen \in Nat \ {0} /\ KoutLen \in Nat \ {0} /\ Retries \in Nat
  /\ ListenPort \in [Listeners -> 1..LastPort]
  /\ PeerHash \in [Peers -> Nat]
  /\ PeerTs \in [Peers -> SUBSET BOOLEAN]
  /\ NoConn \notin Conns /\ NicFails \in BOOLEAN
  /\ Opens \cap Accepts = {}

VARIABLES
  conn,        \* the connection structs
  tcp_conns,   \* the global list of connections
  lst,         \* the listeners: open, backlog, waiting connections
  ports,       \* port table: type and listeners
  port_hint,   \* port_eph_hint
  async_q,     \* conn_async_q: completions for tcp_poll
  arp,         \* connections whose address is being resolved
  app_conns,   \* app->conns
  kout,        \* queue to the application, an array of entries
  kout_pos,    \* where the kernel writes next
  app_pos,     \* where the application reads next
  linux,       \* four-tuples whose SYN went to Linux and got no ACK yet
  tap,         \* the TAP thread inside appif_accept_conn
  wire,        \* four-tuples for which a SYN-ACK travels to the peer
  up,          \* four-tuples that the peer regards as established
  asked,       \* requests made by the application
  told,        \* answers it has read, per request
  kern         \* "up" or "abort" (assertion failed)

vars == <<conn, tcp_conns, lst, ports, port_hint, async_q, arp, app_conns,
          kout, kout_pos, app_pos, linux, tap, wire, up, asked, told, kern>>

Reqs == Opens \cup Accepts
Ports == 1..LastPort
Searched == {0} \cup FirstEph..LastPort   \* by port_alloc
Status == {"FREE", "SYN_WAIT", "ARP_PENDING", "SYN_SENT", "REG_SYNACK",
           "OPEN", "FAILED"}
NoReq == "none"
NoEvent == [ev |-> "invalid", op |-> NoReq, st |-> "ok"]

FreeConn == [st |-> "FREE", peer |-> NoConn, port |-> 0, req |-> NoReq,
             armed |-> FALSE, attempts |-> 0, ecn |-> FALSE, offered |-> FALSE]

Idle == [c |-> NoConn, pos |-> 0]

(* The main loop is entered with everything empty; opens that found no     *)
(* route leave nothing behind but the hint.                                *)
Init ==
  /\ conn = [c \in Conns |-> FreeConn]
  /\ tcp_conns = <<>>
  /\ lst = [l \in Listeners |-> [open |-> FALSE, backlog |-> <<>>, wait |-> <<>>]]
  /\ ports = [p \in Ports |-> [type |-> "UNUSED", ls |-> <<>>]]
  /\ port_hint \in Searched
  /\ async_q = <<>>
  /\ arp = {}
  /\ app_conns = {}
  /\ kout = [i \in 0..KoutLen-1 |-> NoEvent]
  /\ kout_pos = 0 /\ app_pos = 0
  /\ linux = {} /\ tap = Idle /\ wire = {} /\ up = {}
  /\ asked = {} /\ told = [r \in Reqs |-> <<>>]
  /\ kern = "up"
-----------------------------------------------------------------------------
(* The queue to the application.                                           *)

Room == kout[kout_pos] = NoEvent

(* An event is written if the next entry is free; otherwise it is dropped. *)
PutEvent(e) ==
  IF Room THEN /\ kout' = [kout EXCEPT ![kout_pos] = e]
               /\ kout_pos' = (kout_pos + 1) % KoutLen
          ELSE UNCHANGED <<kout, kout_pos>>

(* appif_conn_opened: a failed connection is destroyed once its event is   *)
(* written, and stays allocated, in CONN_FAILED, when it was dropped.      *)
ConnOpened(c, cs, st) ==
  /\ PutEvent([ev |-> "opened", op |-> cs[c].req, st |-> st])
  /\ conn' = IF st = "fail" /\ Room THEN [cs EXCEPT ![c] = FreeConn] ELSE cs

(* Mutation of ConnFailed: the failed connection stays in the list. *)
ConnFailedKeepsListed(c, cs) ==
  /\ ConnOpened(c, [cs EXCEPT ![c].st = "FAILED", ![c].armed = FALSE], "fail")
  /\ UNCHANGED tcp_conns

(* conn_failed: the loop returns after the first connection of the list,   *)
(* whether or not it is the one that failed.                               *)
ConnFailed(c, cs) ==
  IF tcp_conns # <<>> /\ Head(tcp_conns) = c
  THEN /\ tcp_conns' = Tail(tcp_conns)
       /\ ConnOpened(c, [cs EXCEPT ![c].st = "FAILED", ![c].armed = FALSE], "fail")
  ELSE /\ conn' = cs
       /\ UNCHANGED <<tcp_conns, kout, kout_pos>>
-----------------------------------------------------------------------------
(* Requests of the application, taken by appif_ctx_poll while there is     *)
(* room for an answer.                                                     *)

(* port_alloc: the first unused port from the hint on.  A uint16_t is 0     *)
(* after PORT_MAX, and PORT_FIRST_EPH after that; nothing is ever in       *)
(* ports[0], and 0 means that no port was found.                           *)
Unused == {0} \cup {p \in FirstEph..LastPort : ports[p].type = "UNUSED"}
Place(p) == IF p = 0 THEN 0 ELSE p - FirstEph + 1
Distance(p) == (Place(p) + (LastPort - FirstEph + 2) - Place(port_hint)) % (LastPort - FirstEph + 2)
PortAlloc == {p \in Unused : \A q \in Unused : Distance(p) <= Distance(q)}

NextPort(p) == CASE p = 0 -> FirstEph [] p = LastPort -> 0 [] OTHER -> p + 1

(* Mutation of SynSent: the handshake timeout is not armed. *)
SynSentUnarmed(cr) == [cr EXCEPT !.st = "SYN_SENT", !.attempts = 0]

(* conn_arp_done: the first SYN is sent and the handshake timeout armed. *)
SynSent(cr) == [cr EXCEPT !.st = "SYN_SENT", !.armed = TRUE, !.attempts = 0]

(* conn_alloc: any struct (with its two buffers) that is free. *)
FreeConns == {c \in Conns : conn[c].st = "FREE"}

(* tcp_open: the address is known, being resolved, or has no route.  Its   *)
(* failure is reported by kin_conn_open.                                   *)
TcpOpen(r, p) ==
  \/ /\ FreeConns = {}
     /\ PutEvent([ev |-> "opened", op |-> r, st |-> "fail"])
     /\ UNCHANGED <<conn, tcp_conns, ports, port_hint, arp, app_conns>>
  \/ \E port \in PortAlloc :
     /\ FreeConns # {} /\ port_hint' = NextPort(port)
     /\ \/ \* no port, or no route
           /\ PutEvent([ev |-> "opened", op |-> r, st |-> "fail"])
           /\ UNCHANGED <<conn, tcp_conns, ports, arp, app_conns>>
        \/ /\ port # 0
           /\ \E c \in FreeConns, resolved \in BOOLEAN :
                LET cr == [FreeConn EXCEPT !.st = "ARP_PENDING", !.peer = p,
                                           !.port = port, !.req = r] IN
                /\ conn' = [conn EXCEPT ![c] = IF resolved THEN SynSent(cr) ELSE cr]
                /\ arp' = IF resolved THEN arp ELSE arp \cup {c}
                /\ tcp_conns' = <<c>> \o tcp_conns
                /\ app_conns' = app_conns \cup {c}
           /\ ports' = [ports EXCEPT ![port] = [type |-> "CONN", ls |-> <<>>]]
           /\ UNCHANGED <<kout, kout_pos>>

KinConnOpen(r, p) ==
  /\ kern = "up" /\ Room /\ r \in Opens \ asked
  /\ asked' = asked \cup {r}
  /\ TcpOpen(r, p)
  /\ UNCHANGED <<lst, async_q, app_pos, linux, tap, wire, up, told, kern>>

(* tcp_listen, with and without SO_REUSEPORT. *)
ListenAllowed(port, reuseport) ==
  \/ ports[port].type = "UNUSED"
  \/ reuseport /\ ports[port].type = "LMULTI"

TcpListen(l, reuseport) ==
  IF ListenAllowed(ListenPort[l], reuseport)
  THEN /\ lst' = [lst EXCEPT ![l].open = TRUE]
       /\ ports' = [ports EXCEPT ![ListenPort[l]] =
            [type |-> IF reuseport THEN "LMULTI" ELSE "LISTEN", ls |-> Append(@.ls, l)]]
  ELSE UNCHANGED <<lst, ports>>

KinListenOpen(l, reuseport) ==
  /\ kern = "up" /\ Room /\ ~lst[l].open
  /\ TcpListen(l, reuseport)
  /\ PutEvent([ev |-> "listen", op |-> l,
               st |-> IF ListenAllowed(ListenPort[l], reuseport) THEN "ok" ELSE "fail"])
  /\ UNCHANGED <<conn, tcp_conns, port_hint, async_q, arp, app_conns, app_pos,
                 linux, tap, wire, up, asked, told, kern>>

(* tap_write hands the SYN to Linux; send_control_tap_rev acknowledges its *)
(* SYN-ACK; send_control sends a SYN-ACK to the peer.                      *)
TapWrite(t) == linux' = linux \cup {t}
SendControlTapRev(t) == linux' = linux \ {t}
SendSynAck(t) == wire' = wire \cup {t}

(* listener_accept: the oldest backlog entry of l goes to the connection   *)
(* that waits in front.  bl and wait are its backlog and waiting list, cs  *)
(* the connections.  A SYN without timestamp, or one for which the NIC has *)
(* no room, consumes the entry and leaves the connection waiting.          *)
ListenerAccept(l, bl, wait, cs) ==
  LET e == Head(bl)
      c == Head(wait)
      cr == [cs[c] EXCEPT !.st = "REG_SYNACK", !.peer = e.peer,
                          !.ecn = @ \/ e.ecn, !.offered = e.ecn] IN
  \/ /\ ~e.ts
     /\ lst' = [lst EXCEPT ![l].backlog = Tail(bl), ![l].wait = wait]
     /\ conn' = cs
     /\ UNCHANGED <<tcp_conns, linux, async_q>>
  \/ /\ e.ts /\ NicFails      \* nicif_connection_add fails
     /\ lst' = [lst EXCEPT ![l].backlog = Tail(bl), ![l].wait = wait]
     /\ conn' = [cs EXCEPT ![c] = cr]
     /\ UNCHANGED <<tcp_conns, linux, async_q>>
  \/ /\ e.ts
     /\ lst' = [lst EXCEPT ![l].backlog = Tail(bl), ![l].wait = Tail(wait)]
     /\ conn' = [cs EXCEPT ![c] = cr]
     /\ tcp_conns' = <<c>> \o tcp_conns
     /\ TapWrite(<<e.peer, ListenPort[l]>>)
     /\ async_q' = Append(async_q, [c |-> c, ok |-> TRUE])

(* tcp_accept: a new connection waits in front of the list, and is served  *)
(* at once from a backlog that is not empty.                               *)
TcpAccept(r, l, c) ==
  LET cs == [conn EXCEPT ![c] = [FreeConn EXCEPT !.st = "SYN_WAIT",
                                       !.port = ListenPort[l], !.req = r]]
      wait == <<c>> \o lst[l].wait IN
  IF lst[l].backlog # <<>>
  THEN ListenerAccept(l, lst[l].backlog, wait, cs)
  ELSE /\ conn' = cs
       /\ lst' = [lst EXCEPT ![l].wait = wait]
       /\ UNCHANGED <<tcp_conns, linux, async_q>>

(* kin_accept_conn on one of the application's listeners. *)
KinAcceptConn(r, l) ==
  /\ kern = "up" /\ Room /\ r \in Accepts \ asked /\ lst[l].open
  /\ asked' = asked \cup {r}
  /\ \/ /\ FreeConns = {}
        /\ PutEvent([ev |-> "accepted", op |-> r, st |-> "fail"])
        /\ UNCHANGED <<conn, tcp_conns, lst, linux, async_q>>
     \/ /\ \E c \in FreeConns : TcpAccept(r, l, c)
        /\ UNCHANGED <<kout, kout_pos>>
  /\ UNCHANGED <<ports, port_hint, arp, app_conns, app_pos, tap, wire, up, told, kern>>
-----------------------------------------------------------------------------
(* Completions and timeouts.                                               *)

(* arp_packet and arp_timeout complete a resolution (module Arp). *)
ArpComplete(c, ok) ==
  /\ kern = "up" /\ c \in arp
  /\ arp' = arp \ {c}
  /\ async_q' = Append(async_q, [c |-> c, ok |-> ok])
  /\ UNCHANGED <<conn, tcp_conns, lst, ports, port_hint, app_conns, kout, kout_pos,
                 app_pos, linux, tap, wire, up, asked, told, kern>>

(* tcp_poll takes one completion off the queue. *)
TcpPoll ==
  LET e == Head(async_q) IN
  /\ kern = "up" /\ async_q # <<>>
  /\ async_q' = Tail(async_q)
  /\ IF conn[e.c].st # "ARP_PENDING"
     THEN UNCHANGED <<conn, tcp_conns, kout, kout_pos>>
     ELSE IF e.ok
     THEN /\ conn' = [conn EXCEPT ![e.c] = SynSent(@)]
          /\ UNCHANGED <<tcp_conns, kout, kout_pos>>
     ELSE ConnFailed(e.c, conn)
  /\ UNCHANGED <<lst, ports, port_hint, arp, app_conns, app_pos, linux, tap,
                 wire, up, asked, told, kern>>

(* tcp_timeout: retry, give up, or abort in any state but SYN_SENT. *)
TcpTimeout(c) ==
  /\ kern = "up" /\ conn[c].armed
  /\ IF conn[c].st # "SYN_SENT"
     THEN /\ kern' = "abort"
          /\ UNCHANGED <<conn, tcp_conns, kout, kout_pos>>
     ELSE /\ UNCHANGED kern
          /\ IF conn[c].attempts + 1 > Retries
             THEN ConnFailed(c, [conn EXCEPT ![c].armed = FALSE,
                                             ![c].attempts = @ + 1])
             ELSE /\ conn' = [conn EXCEPT ![c].attempts = @ + 1]
                  /\ UNCHANGED <<tcp_conns, kout, kout_pos>>
  /\ UNCHANGED <<lst, ports, port_hint, async_q, arp, app_conns, app_pos, linux,
                 tap, wire, up, asked, told>>
-----------------------------------------------------------------------------
(* Segments from the network.                                              *)

Segment == {s \in [peer : Peers, port : Ports, kind : Kinds, ts : BOOLEAN] :
              s.ts \in PeerTs[s.peer]}

IsSyn(k) == k \in {"SYN", "SYN_ECN"}
IsSynAck(k) == k \in {"SYN_ACK", "SYN_ACK_ECN"}

(* conn_lookup: the first connection of a four-tuple in the list, if any. *)
Matches(i, peer, port) ==
  conn[tcp_conns[i]].peer = peer /\ conn[tcp_conns[i]].port = port
Lookup(peer, port) ==
  {tcp_conns[i] : i \in {i \in DOMAIN tcp_conns :
     Matches(i, peer, port) /\ \A j \in 1 .. i - 1 : ~Matches(j, peer, port)}}

(* Mutation of ConnSynSentPacket: the timeout is left armed. *)
ConnSynSentPacketStaysArmed(c, s) ==
  /\ IsSynAck(s.kind) /\ s.ts
  /\ ConnOpened(c, [conn EXCEPT ![c].st = "OPEN"], "ok")
  /\ UNCHANGED <<tcp_conns, kern>>

(* conn_lookup_rev, for segments that Linux sends. *)
LookupRev(peer, port) == Lookup(peer, port)

(* conn_syn_sent_packet: the timeout is disarmed first, which asserts that *)
(* it was armed.                                                           *)
ConnSynSentPacket(c, s) ==
  LET cs == [conn EXCEPT ![c].armed = FALSE] IN
  IF ~conn[c].armed
  THEN /\ kern' = "abort"
       /\ UNCHANGED <<conn, tcp_conns, kout, kout_pos>>
  ELSE /\ UNCHANGED kern
       /\ \/ /\ ~(IsSynAck(s.kind) /\ s.ts) \/ NicFails
             /\ ConnFailed(c, cs)
          \/ /\ IsSynAck(s.kind) /\ s.ts
             /\ ConnOpened(c, [cs EXCEPT ![c].st = "OPEN",
                                         ![c].ecn = s.kind = "SYN_ACK_ECN",
                                         ![c].offered = TRUE], "ok")
             /\ UNCHANGED tcp_conns

(* conn_packet on a connection that is already open.  The comparison of    *)
(* the flags does not mask ECE and CWR, so that only a SYN without ECN is  *)
(* taken for a retransmitted SYN.                                          *)
ConnOpenPacket(c, s) ==
  /\ s.kind = "SYN"
  /\ IF s.ts THEN /\ SendSynAck(<<conn[c].peer, conn[c].port>>)
                  /\ UNCHANGED <<conn, tcp_conns, kout, kout_pos>>
             ELSE /\ ConnFailed(c, conn)
                  /\ UNCHANGED wire
  /\ UNCHANGED kern

(* tcp_packet for a known connection. *)
ConnPacket(s) ==
  /\ kern = "up"
  /\ \E c \in Lookup(s.peer, s.port) :
     \/ conn[c].st = "SYN_SENT" /\ ConnSynSentPacket(c, s) /\ UNCHANGED wire
     \/ conn[c].st = "OPEN" /\ ConnOpenPacket(c, s)
  /\ UNCHANGED <<lst, ports, port_hint, async_q, arp, app_conns, app_pos, linux,
                 tap, up, asked, told>>

(* listener_lookup *)
ListenersOf(port) == ports[port].ls
ListenerFor(s) ==
  ListenersOf(s.port)[(PeerHash[s.peer] % Len(ListenersOf(s.port))) + 1]

(* Does the backlog already hold this four-tuple? *)
InBacklog(l, s) == \E i \in DOMAIN lst[l].backlog : lst[l].backlog[i].peer = s.peer

(* tcp_packet for a listener: listener_packet queues the SYN, tells the    *)
(* application, and serves a connection that waits.                        *)
ListenerPacket(s) ==
  /\ kern = "up"
  /\ Lookup(s.peer, s.port) = {} /\ ListenersOf(s.port) # <<>>
  /\ IsSyn(s.kind)
  /\ LET l == ListenerFor(s)
         bl == Append(lst[l].backlog, [peer |-> s.peer, ts |-> s.ts,
                                       ecn |-> s.kind = "SYN_ECN"]) IN
     /\ Len(lst[l].backlog) < BacklogLen
     /\ ~InBacklog(l, s)
     /\ PutEvent([ev |-> "newconn", op |-> l, st |-> "ok"])
     /\ IF lst[l].wait # <<>>
        THEN ListenerAccept(l, bl, lst[l].wait, conn)
        ELSE /\ lst' = [lst EXCEPT ![l].backlog = bl]
             /\ UNCHANGED <<conn, tcp_conns, linux, async_q>>
  /\ UNCHANGED <<ports, port_hint, arp, app_conns, app_pos, tap, wire, up, asked,
                 told, kern>>
-----------------------------------------------------------------------------
(* The TAP thread.                                                         *)

(* Mutation of TapSynAck: the state of the connection is not checked. *)
TapSynAckAnyState(t) ==
  /\ kern = "up" /\ tap = Idle /\ t \in linux
  /\ \E c \in LookupRev(t[1], t[2]) :
       /\ conn' = [conn EXCEPT ![c].st = "OPEN"]
       /\ wire' = wire \cup {t}
       /\ tap' = IF Room THEN [c |-> c, pos |-> kout_pos] ELSE Idle
  /\ UNCHANGED <<linux, tcp_conns, lst, ports, port_hint, async_q, arp, app_conns,
                 kout, kout_pos, app_pos, up, asked, told, kern>>

(* tap_poll on Linux's SYN-ACK, and conn_reg_synack: the SYN-ACK goes to   *)
(* the peer, the ACK to Linux, and appif_accept_conn reads the position of *)
(* the application's queue.  A repeated SYN-ACK only repeats the ACK; one  *)
(* without connection is forwarded to the network and changes nothing.     *)
TapSynAck(t) ==
  /\ kern = "up" /\ tap = Idle /\ t \in linux
  /\ \E c \in LookupRev(t[1], t[2]) :
     IF conn[c].st = "REG_SYNACK"
     THEN /\ conn' = [conn EXCEPT ![c].st = "OPEN"]
          /\ SendSynAck(t)
          /\ tap' = IF Room THEN [c |-> c, pos |-> kout_pos] ELSE Idle
     ELSE UNCHANGED <<conn, wire, tap>>
  /\ SendControlTapRev(t)
  /\ UNCHANGED <<tcp_conns, lst, ports, port_hint, async_q, arp, app_conns, kout,
                 kout_pos, app_pos, up, asked, told, kern>>

(* The rest of appif_accept_conn: link into the application's list, write  *)
(* the entry, store the position read before.                              *)
TapAccepted ==
  /\ kern = "up" /\ tap # Idle
  /\ kout' = [kout EXCEPT ![tap.pos] = [ev |-> "accepted", op |-> conn[tap.c].req,
                                        st |-> "ok"]]
  /\ kout_pos' = (tap.pos + 1) % KoutLen
  /\ app_conns' = app_conns \cup {tap.c}
  /\ tap' = Idle
  /\ UNCHANGED <<conn, tcp_conns, lst, ports, port_hint, async_q, arp, app_pos,
                 linux, wire, up, asked, told, kern>>
-----------------------------------------------------------------------------
(* The application and the peers.                                          *)

(* The library takes one entry off its kernel queue. *)
AppRead ==
  LET e == kout[app_pos] IN
  /\ e # NoEvent
  /\ kout' = [kout EXCEPT ![app_pos] = NoEvent]
  /\ app_pos' = (app_pos + 1) % KoutLen
  /\ told' = IF e.ev \in {"opened", "accepted"} /\ e.op \in Reqs
             THEN [told EXCEPT ![e.op] = Append(@, e.st)] ELSE told
  /\ UNCHANGED <<conn, tcp_conns, lst, ports, port_hint, async_q, arp, app_conns,
                 kout_pos, linux, tap, wire, up, asked, kern>>

(* A SYN-ACK reaches its peer, or is lost. *)
PeerReceives(t) ==
  /\ t \in wire
  /\ wire' = wire \ {t}
  /\ up' = up \cup {t}
  /\ UNCHANGED <<conn, tcp_conns, lst, ports, port_hint, async_q, arp, app_conns,
                 kout, kout_pos, app_pos, linux, tap, asked, told, kern>>

LoseSynAck(t) ==
  /\ t \in wire
  /\ wire' = wire \ {t}
  /\ UNCHANGED <<conn, tcp_conns, lst, ports, port_hint, async_q, arp, app_conns,
                 kout, kout_pos, app_pos, linux, tap, up, asked, told, kern>>
-----------------------------------------------------------------------------
Tuples == Peers \X Ports

Next ==
  \/ \E r \in Opens, p \in Peers : KinConnOpen(r, p)
  \/ \E l \in Listeners, reuse \in BOOLEAN : KinListenOpen(l, reuse)
  \/ \E r \in Accepts, l \in Listeners : KinAcceptConn(r, l)
  \/ \E c \in Conns, ok \in BOOLEAN : ArpComplete(c, ok)
  \/ TcpPoll
  \/ \E c \in Conns : TcpTimeout(c)
  \/ \E s \in Segment : ConnPacket(s) \/ ListenerPacket(s)
  \/ \E t \in Tuples : TapSynAck(t) \/ PeerReceives(t) \/ LoseSynAck(t)
  \/ TapAccepted
  \/ AppRead

Spec == Init /\ [][Next]_vars

(* The main loop polls completions, timeouts, the application and the NIC  *)
(* for ever, so that an enabled handler runs; resolution ends because ARP  *)
(* gives up (module Arp).  The application keeps reading its queue.  The   *)
(* TAP thread runs and Linux repeats its SYN-ACK.  A peer that has sent a  *)
(* SYN repeats it until it is answered, and the network does not lose      *)
(* every SYN-ACK.                                                          *)
Fairness ==
  /\ WF_vars(TcpPoll) /\ WF_vars(AppRead) /\ WF_vars(TapAccepted)
  /\ \A c \in Conns : /\ WF_vars(TcpTimeout(c))
                      /\ WF_vars(\E ok \in BOOLEAN : ArpComplete(c, ok))
  /\ \A t \in Tuples : /\ WF_vars(TapSynAck(t))
                       /\ SF_vars(PeerReceives(t))
                       /\ WF_vars(\E s \in Segment :
                            /\ <<s.peer, s.port>> = t /\ t \notin up
                            /\ IsSyn(s.kind) /\ s.ts
                            /\ ConnPacket(s))

LiveSpec == Spec /\ Fairness
-----------------------------------------------------------------------------
Range(s) == {s[i] : i \in DOMAIN s}
Event == [ev : {"invalid", "opened", "accepted", "newconn", "listen"},
          op : Reqs \cup Listeners \cup {NoReq}, st : {"ok", "fail"}]

(* Types of the kernel's connection, listener and queue state. *)
TypeOK ==
  /\ \A c \in Conns :
       /\ conn[c].st \in Status /\ conn[c].peer \in Peers \cup {NoConn}
       /\ conn[c].port \in 0..LastPort /\ conn[c].req \in Reqs \cup {NoReq}
       /\ conn[c].attempts \in 0..Retries + 1
  /\ Range(tcp_conns) \subseteq Conns
  /\ port_hint \in Searched
  /\ kout \in [0..KoutLen-1 -> Event]
  /\ kout_pos \in 0..KoutLen-1 /\ app_pos \in 0..KoutLen-1
  /\ kern \in {"up", "abort"}

(* A handshake timeout that is armed belongs to a listed connection in     *)
(* SYN_SENT, so that tcp_timeout does not take its abort and never touches *)
(* freed memory.                                                           *)
TimeoutHitsHandshake ==
  \A c \in Conns : conn[c].armed => conn[c].st = "SYN_SENT" /\ c \in Range(tcp_conns)

(* A connection struct is in one list at most, once, and none that was     *)
(* freed is in the global list, waits at a listener or for a completion.   *)
Waiting == UNION {Range(lst[l].wait) : l \in Listeners}
NoDangling ==
  /\ \A i, j \in DOMAIN tcp_conns : tcp_conns[i] = tcp_conns[j] => i = j
  /\ Range(tcp_conns) \cap Waiting = {}
  /\ \A c \in Range(tcp_conns) \cup Waiting \cup arp \cup {e.c : e \in Range(async_q)} :
       conn[c].st # "FREE"

(* Retransmitted SYNs never give one four-tuple two connections. *)
TuplesUnique ==
  \A i, j \in DOMAIN tcp_conns :
    /\ conn[tcp_conns[i]].peer = conn[tcp_conns[j]].peer
    /\ conn[tcp_conns[i]].port = conn[tcp_conns[j]].port
    => i = j

(* tcp.c: no connection that was freed is still in the list, with a        *)
(* listener, waiting for ARP or for the NIC, and no four-tuple has two     *)
(* connections, whatever fails, is retransmitted or answered late.         *)
ConnsSound == TypeOK /\ NoDangling /\ TuplesUnique

(* A SYN is never left in the backlog while a connection waits for one, in *)
(* whichever order accepts and SYNs arrive and whatever fails between.     *)
NoIdleAccept == \A l \in Listeners : lst[l].backlog = <<>> \/ lst[l].wait = <<>>

(* The service that the application sees: no answer without a request, and *)
(* one answer per request.                                                 *)
Service == INSTANCE ConnService
AnswersRequests == Service!Spec

(* Every open is answered in the end, by success, a reset or too many      *)
(* timeouts: "The TCP module will call appif_conn_opened()".               *)
OpensAnswered == Service!Answered

(* A peer whose SYN was accepted gets a SYN-ACK in the end, though SYN-ACKs *)
(* are lost, because it repeats its SYN.                                    *)
PeerConnects ==
  \A t \in Tuples :
    (\E c \in Range(tcp_conns) : /\ conn[c].st = "REG_SYNACK"
                                 /\ conn[c].peer = t[1] /\ conn[c].port = t[2])
      ~> t \in up

(* The assertions on the handshake timeout hold: the kernel is not aborted. *)
NeverAborts == kern # "abort"

(* "port_alloc failed": an open fails for want of a port only if none is    *)
(* free.                                                                   *)
OpenFindsPort == 0 \in PortAlloc => Unused = {0}

(* The list of the application's connections holds no freed connection. *)
AppListLive == \A c \in app_conns : conn[c].st # "FREE"

(* An event in the queue is not overwritten before the application read it. *)
EventsKept ==
  [][\A i \in 0..KoutLen-1 : kout[i] # NoEvent => kout'[i] \in {kout[i], NoEvent}]_vars

(* A connection uses ECN only if its own handshake negotiated it. *)
EcnNegotiated == \A c \in Range(tcp_conns) : conn[c].ecn => conn[c].offered
=============================================================================
