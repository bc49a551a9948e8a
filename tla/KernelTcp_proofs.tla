-------------------------- MODULE KernelTcp_proofs --------------------------
(***************************************************************************)
(* The kernel's connection state machine, for every number of connections, *)
(* listeners, peers, ports and requests: timeouts only in the handshake,   *)
(* ConnsSound, and that the kernel implements ConnService.                 *)
(*                                                                         *)
(* A connection moves between the global list, the list of a listener, the *)
(* ARP module, the completion queue and the TAP thread, and its request    *)
(* moves along with it into the queue to the application.  The inductive   *)
(* invariant says in which states a connection may be in each of them.     *)
(***************************************************************************)
EXTENDS KernelTcp, Integers, TLAPS, WellFoundedInduction

\* No SYN without the timestamp option comes for a connection that is open (whose
\* first SYN had it): conn_packet fails such a connection.
TsKept ==
  \A s \in Segment : ConnPacket(s) =>
    ~\E c \in Lookup(s.peer, s.port) : conn[c].st = "OPEN" /\ s.kind = "SYN" /\ ~s.ts

\* No SYN goes to a listener while the backlog of another one that shares its port
\* holds a copy of it, as after one more listener was opened for the port.
SynsTogether ==
  \A s \in Segment : ListenerPacket(s) =>
    \A m \in Listeners \ {ListenerFor(s)} : ListenPort[m] = s.port => ~InBacklog(m, s)

ConnRec == [st : Status, peer : Peers \cup {NoConn}, port : 0..LastPort,
            req : Reqs \cup {NoReq}, armed : BOOLEAN, attempts : 0..Retries + 1,
            ecn : BOOLEAN, offered : BOOLEAN]
Syn == [peer : Peers, ts : BOOLEAN, ecn : BOOLEAN]
ListenRec == [open : BOOLEAN, backlog : Seq(Syn), wait : Seq(Conns)]
PortRec == [type : {"UNUSED", "CONN", "LISTEN", "LMULTI"}, ls : Seq(Listeners)]

Types ==
  /\ conn \in [Conns -> ConnRec]
  /\ tcp_conns \in Seq(Conns)
  /\ lst \in [Listeners -> ListenRec]
  /\ ports \in [Ports -> PortRec]
  /\ port_hint \in Searched
  /\ async_q \in Seq([c : Conns, ok : BOOLEAN])
  /\ arp \subseteq Conns
  /\ kout \in [0..KoutLen-1 -> Event]
  /\ kout_pos \in 0..KoutLen-1 /\ app_pos \in 0..KoutLen-1
  /\ tap \in [c : Conns \cup {NoConn}, pos : 0..KoutLen-1]
  /\ tap # Idle => tap.c \in Conns
  /\ asked \subseteq Reqs
  /\ told \in [Reqs -> Seq({"ok", "fail"})]
  /\ kern \in {"up", "abort"}

Distinct(s) == \A i, j \in DOMAIN s : s[i] = s[j] => i = j
Listed == Range(tcp_conns)
Waits == [l \in Listeners |-> lst[l].wait]
Backlogs == [l \in Listeners |-> lst[l].backlog]

\* Which connections cs are in the global list tc and in the listeners' lists w.
ListsOn(cs, tc, w) ==
  /\ Distinct(tc)
  /\ \A c \in Range(tc) :
       cs[c].st \in {"ARP_PENDING", "SYN_SENT", "REG_SYNACK", "OPEN"}
  /\ \A c \in Conns : cs[c].st \in {"ARP_PENDING", "SYN_SENT"} => c \in Range(tc)
  /\ \A c \in Conns : cs[c].armed => cs[c].st = "SYN_SENT" /\ cs[c].attempts <= Retries
  /\ \A l \in Listeners :
       /\ Distinct(w[l])
       /\ \A c \in Range(w[l]) : /\ cs[c].st \in {"SYN_WAIT", "REG_SYNACK"}
                                  /\ c \notin Range(tc)
  /\ \A l, m \in Listeners : l # m => Range(w[l]) \cap Range(w[m]) = {}

Lists == ListsOn(conn, tcp_conns, Waits)

\* A completion in the queue aq is for a listed connection that cannot fail
\* before it is taken off the queue; ar waits for ARP.
CompsOn(cs, tc, aq, ar) ==
  /\ \A c \in ar : cs[c].st = "ARP_PENDING"
  /\ \A i \in DOMAIN aq :
       /\ aq[i].c \in Range(tc) \ ar
       /\ cs[aq[i].c].st \in {"ARP_PENDING", "REG_SYNACK", "OPEN"}
  /\ \A i, j \in DOMAIN aq : aq[i].c = aq[j].c => i = j

Comps == CompsOn(conn, tcp_conns, async_q, arp)

\* Four-tuples in the list tc and in the backlogs bl; no connection uses a port
\* that the table ps has as unused.
Openness == [l \in Listeners |-> lst[l].open]
TuplesOn(cs, tc, w, bl, op, ps) ==
  /\ \A c, d \in Range(tc) : cs[c].peer = cs[d].peer /\ cs[c].port = cs[d].port => c = d
  /\ \A c \in Range(tc) : cs[c].port \in Ports /\ ps[cs[c].port].type # "UNUSED"
  /\ \A l \in Listeners :
       /\ op[l] => ps[ListenPort[l]].type # "UNUSED"
       /\ bl[l] # <<>> \/ w[l] # <<>> => op[l]
       /\ \A c \in Range(w[l]) : cs[c].port = ListenPort[l]
       /\ \A i, j \in DOMAIN bl[l] : bl[l][i].peer = bl[l][j].peer => i = j
       /\ \A i \in DOMAIN bl[l] : \A c \in Range(tc) :
            ~(cs[c].peer = bl[l][i].peer /\ cs[c].port = ListenPort[l])
  /\ \A p \in Ports : \A i \in DOMAIN ps[p].ls : op[ps[p].ls[i]] /\ ListenPort[ps[p].ls[i]] = p

TuplesInv == TuplesOn(conn, tcp_conns, Waits, Backlogs, Openness, ports)

\* No SYN is in the backlogs bl of two listeners of a port.
ApartIn(bl) ==
  \A l, m \in Listeners : l # m /\ ListenPort[l] = ListenPort[m] =>
    \A i \in DOMAIN bl[l], j \in DOMAIN bl[m] : bl[l][i].peer # bl[m][j].peer

SynsApart == ApartIn(Backlogs)

\* Connections whose request is not answered yet, and answers in the queue.
\* tp is the TAP thread, ko the queue, tld the answers read, as the requests.
PendingIn(cs, tp) ==
  {c \in Conns : \/ cs[c].st \in {"SYN_WAIT", "ARP_PENDING", "SYN_SENT", "REG_SYNACK"}
                 \/ tp # Idle /\ c = tp.c}
IsAnswer(e) == e.ev \in {"opened", "accepted"}
AnsweredIn(ko, r) == \E i \in 0..KoutLen-1 : IsAnswer(ko[i]) /\ ko[i].op = r

AnswersOn(cs, tp, ko, tld, as) ==
  /\ tp # Idle => cs[tp.c].st = "OPEN"
  /\ \A c \in PendingIn(cs, tp) : /\ cs[c].req \in as
                                  /\ tld[cs[c].req] = <<>>
                                  /\ ~AnsweredIn(ko, cs[c].req)
  /\ \A c, d \in PendingIn(cs, tp) : cs[c].req = cs[d].req => c = d
  /\ \A i \in 0..KoutLen-1 : IsAnswer(ko[i]) => ko[i].op \in as /\ tld[ko[i].op] = <<>>
  /\ \A i, j \in 0..KoutLen-1 :
       IsAnswer(ko[i]) /\ IsAnswer(ko[j]) /\ ko[i].op = ko[j].op => i = j
  /\ \A r \in Reqs \ as : tld[r] = <<>>

AnswersInv == AnswersOn(conn, tap, kout, told, asked)
-----------------------------------------------------------------------------
(* Lists of connections.                                                   *)

LEMMA SeqElem ==
  ASSUME NEW S, NEW s \in Seq(S), NEW i \in DOMAIN s
  PROVE  s[i] \in S
OBVIOUS

LEMMA RangeIn ==
  ASSUME NEW S, NEW s \in Seq(S)
  PROVE  Range(s) \subseteq S
BY DEF Range

LEMMA ConsList ==
  ASSUME NEW S, NEW s \in Seq(S), NEW c \in S
  PROVE  /\ <<c>> \o s \in Seq(S)
         /\ Range(<<c>> \o s) = {c} \cup Range(s)
         /\ Distinct(s) /\ c \notin Range(s) => Distinct(<<c>> \o s)
         /\ <<c>> \o s # <<>> /\ Head(<<c>> \o s) = c /\ Tail(<<c>> \o s) = s
<1> DEFINE t == <<c>> \o s
<1>1. t \in Seq(S) /\ Len(t) = Len(s) + 1 /\ t[1] = c
  OBVIOUS
<1>2. \A i \in 2 .. Len(t) : t[i] = s[i - 1] /\ i - 1 \in 1 .. Len(s)
  OBVIOUS
<1>3. \A i \in 1 .. Len(s) : t[i + 1] = s[i] /\ i + 1 \in 2 .. Len(t)
  OBVIOUS
<1>4. DOMAIN t = 1 .. Len(t) /\ DOMAIN s = 1 .. Len(s)
  OBVIOUS
<1>5. Range(t) = {c} \cup Range(s)
  <2>1. ASSUME NEW x \in Range(t) PROVE x \in {c} \cup Range(s)
    BY <1>1, <1>2, <1>4 DEF Range
  <2>2. ASSUME NEW x \in Range(s) PROVE x \in Range(t)
    <3>1. PICK i \in 1 .. Len(s) : x = s[i]
      BY <1>4 DEF Range
    <3>2. x = t[i + 1] /\ i + 1 \in DOMAIN t
      BY <1>1, <1>3, <1>4, <3>1
    <3>. QED  BY <3>2 DEF Range
  <2>3. c \in Range(t)
    BY <1>1, <1>4 DEF Range
  <2>. QED  BY <2>1, <2>2, <2>3
<1>6. ASSUME Distinct(s), c \notin Range(s) PROVE Distinct(t)
  <2>. SUFFICES ASSUME NEW i \in 1 .. Len(t), NEW j \in 1 .. Len(t), t[i] = t[j]
                PROVE  i = j
    BY <1>4 DEF Distinct
  <2>1. \A k \in 1 .. Len(s) : s[k] # c
    BY <1>4, <1>6 DEF Range
  <2>2. CASE i = 1 \/ j = 1
    BY <1>1, <1>2, <2>1, <2>2
  <2>3. CASE i # 1 /\ j # 1
    <3>1. s[i - 1] = s[j - 1] /\ i - 1 \in DOMAIN s /\ j - 1 \in DOMAIN s
      BY <1>2, <1>4, <2>3
    <3>2. i - 1 = j - 1
      BY <1>6, <3>1 DEF Distinct
    <3>. QED  BY <3>2
  <2>. QED  BY <2>2, <2>3
<1>7. t # <<>> /\ Head(t) = c
  BY <1>1
<1>8. Tail(t) = s
  OBVIOUS
<1>. QED  BY <1>1, <1>5, <1>6, <1>7, <1>8

LEMMA TailList ==
  ASSUME NEW S, NEW s \in Seq(S), s # <<>>
  PROVE  /\ Tail(s) \in Seq(S) /\ Head(s) \in S
         /\ Range(s) = {Head(s)} \cup Range(Tail(s))
         /\ Distinct(s) => Distinct(Tail(s)) /\ Head(s) \notin Range(Tail(s))
         /\ \A i \in DOMAIN Tail(s) : i + 1 \in DOMAIN s /\ Tail(s)[i] = s[i + 1]
<1>1. /\ Tail(s) \in Seq(S) /\ Head(s) \in S /\ Len(Tail(s)) = Len(s) - 1
      /\ Head(s) = s[1] /\ Len(s) >= 1
  OBVIOUS
<1>2. DOMAIN s = 1 .. Len(s) /\ DOMAIN Tail(s) = 1 .. Len(Tail(s))
  BY <1>1
<1>3. \A i \in 1 .. Len(Tail(s)) : i + 1 \in 1 .. Len(s) /\ Tail(s)[i] = s[i + 1]
  BY <1>1
<1>4. \A i \in 2 .. Len(s) : i - 1 \in 1 .. Len(Tail(s)) /\ s[i] = Tail(s)[i - 1]
  BY <1>1
<1>5. Range(s) = {Head(s)} \cup Range(Tail(s))
  <2>1. ASSUME NEW x \in Range(s) PROVE x \in {Head(s)} \cup Range(Tail(s))
    <3>1. PICK i \in 1 .. Len(s) : x = s[i]
      BY <1>2 DEF Range
    <3>2. CASE i = 1
      BY <1>1, <3>1, <3>2
    <3>3. CASE i # 1
      <4>1. x = Tail(s)[i - 1] /\ i - 1 \in DOMAIN Tail(s)
        BY <1>1, <1>2, <1>4, <3>1, <3>3
      <4>. QED  BY <4>1 DEF Range
    <3>. QED  BY <3>2, <3>3
  <2>2. ASSUME NEW x \in Range(Tail(s)) PROVE x \in Range(s)
    <3>1. PICK i \in 1 .. Len(Tail(s)) : x = Tail(s)[i]
      BY <1>2 DEF Range
    <3>. QED  BY <1>2, <1>3, <3>1 DEF Range
  <2>3. Head(s) \in Range(s)
    BY <1>1, <1>2 DEF Range
  <2>. QED  BY <2>1, <2>2, <2>3
<1>6. ASSUME Distinct(s) PROVE Distinct(Tail(s)) /\ Head(s) \notin Range(Tail(s))
  <2>1. ASSUME NEW i \in 1 .. Len(Tail(s)), NEW j \in 1 .. Len(Tail(s)),
               Tail(s)[i] = Tail(s)[j]
        PROVE  i = j
    <3>1. i + 1 = j + 1
      BY <1>2, <1>3, <1>6, <2>1 DEF Distinct
    <3>. QED  BY <3>1
  <2>2. ASSUME NEW i \in 1 .. Len(Tail(s)), Tail(s)[i] = Head(s) PROVE FALSE
    <3>1. i + 1 = 1
      BY <1>1, <1>2, <1>3, <1>6, <2>2 DEF Distinct
    <3>. QED  BY <3>1
  <2>. QED  BY <1>2, <2>1, <2>2 DEF Distinct, Range
<1>. QED  BY <1>1, <1>2, <1>3, <1>5, <1>6

LEMMA AppendList ==
  ASSUME NEW S, NEW s \in Seq(S), NEW e \in S
  PROVE  /\ Append(s, e) \in Seq(S) /\ Append(s, e) # <<>>
         /\ Range(Append(s, e)) = Range(s) \cup {e}
         /\ DOMAIN Append(s, e) = DOMAIN s \cup {Len(s) + 1}
         /\ Len(s) + 1 \notin DOMAIN s
         /\ \A i \in DOMAIN s : Append(s, e)[i] = s[i]
         /\ Append(s, e)[Len(s) + 1] = e
<1> DEFINE t == Append(s, e)
<1>1. /\ t \in Seq(S) /\ Len(t) = Len(s) + 1 /\ t # <<>>
      /\ t[Len(s) + 1] = e /\ \A i \in 1 .. Len(s) : t[i] = s[i]
  OBVIOUS
<1>2. DOMAIN s = 1 .. Len(s) /\ DOMAIN t = 1 .. Len(s) + 1
  BY <1>1
<1>3. 1 .. Len(s) + 1 = (1 .. Len(s)) \cup {Len(s) + 1} /\ Len(s) + 1 \notin 1 .. Len(s)
  OBVIOUS
<1>4. Range(t) = Range(s) \cup {e}
  BY <1>1, <1>2, <1>3 DEF Range
<1>. QED  BY <1>1, <1>2, <1>3, <1>4
-----------------------------------------------------------------------------
(* What the operations of several handlers do.                             *)

LEMMA KoutNext ==
  ASSUME NEW i \in 0..KoutLen-1
  PROVE  (i + 1) % KoutLen \in 0..KoutLen-1
<1>1. KoutLen \in Nat /\ KoutLen > 0
  BY TcpAssumption
<1>. QED  BY <1>1

LEMMA PutFacts ==
  ASSUME Types, NEW e \in Event, PutEvent(e)
  PROVE  /\ kout' \in [0..KoutLen-1 -> Event] /\ kout_pos' \in 0..KoutLen-1
         /\ \/ kout' = kout
            \/ Room /\ kout' = [kout EXCEPT ![kout_pos] = e]
         /\ Room => kout' = [kout EXCEPT ![kout_pos] = e]
BY KoutNext DEF Types, PutEvent

\* conn_failed destroys the connection, leaves it failed, or does nothing.
Freed(c, cs) ==
  /\ Room
  /\ conn' = [cs EXCEPT ![c] = FreeConn]
  /\ kout' = [kout EXCEPT ![kout_pos] =
                [ev |-> "opened", op |-> cs[c].req, st |-> "fail"]]
FailedRec(cr) == [cr EXCEPT !.st = "FAILED", !.armed = FALSE]
LeftFailed(c, cs) ==
  /\ conn' = [cs EXCEPT ![c] = FailedRec(cs[c])]
  /\ kout' = kout

LEMMA FreeRec == FreeConn \in ConnRec /\ FreeConn.armed = FALSE /\ FreeConn.st = "FREE"
BY TcpAssumption DEF FreeConn, ConnRec, Status

LEMMA FailedRecFacts ==
  ASSUME NEW cr \in ConnRec
  PROVE  /\ FailedRec(cr) \in ConnRec
         /\ FailedRec(cr).st = "FAILED" /\ FailedRec(cr).armed = FALSE
         /\ FailedRec(cr).req = cr.req
BY DEF FailedRec, ConnRec, Status

LEMMA FailedFacts ==
  ASSUME Types, NEW c \in Conns, NEW cs \in [Conns -> ConnRec], ConnFailed(c, cs)
  PROVE  /\ conn' \in [Conns -> ConnRec] /\ tcp_conns' \in Seq(Conns)
         /\ kout' \in [0..KoutLen-1 -> Event] /\ kout_pos' \in 0..KoutLen-1
         /\ \/ /\ tcp_conns # <<>> /\ c = Head(tcp_conns)
               /\ tcp_conns' = Tail(tcp_conns)
               /\ Freed(c, cs) \/ LeftFailed(c, cs)
            \/ conn' = cs /\ tcp_conns' = tcp_conns /\ kout' = kout
<1> DEFINE fs == [cs EXCEPT ![c].st = "FAILED", ![c].armed = FALSE]
           e == [ev |-> "opened", op |-> cs[c].req, st |-> "fail"]
<1>1. CASE tcp_conns # <<>> /\ Head(tcp_conns) = c
  <2>1. tcp_conns' = Tail(tcp_conns) /\ ConnOpened(c, fs, "fail")
    BY <1>1 DEF ConnFailed
  <2>. fs = [cs EXCEPT ![c] = FailedRec(cs[c])]
    BY DEF FailedRec
  <2>. HIDE DEF fs
  <2>2. fs \in [Conns -> ConnRec] /\ fs[c].req = cs[c].req
    BY FailedRecFacts
  <2>3. e \in Event
    BY DEF Event, ConnRec
  <2>4. PutEvent(e) /\ conn' = IF Room THEN [fs EXCEPT ![c] = FreeConn] ELSE fs
    BY <2>1, <2>2 DEF ConnOpened
  <2>5. [fs EXCEPT ![c] = FreeConn] = [cs EXCEPT ![c] = FreeConn]
    OBVIOUS
  <2>6. CASE Room
    <3>1. Freed(c, cs)
      BY PutFacts, <2>3, <2>4, <2>5, <2>6 DEF Freed
    <3>2. conn' \in [Conns -> ConnRec]
      BY FreeRec, <2>2, <2>4, <2>6
    <3>. QED  BY PutFacts, TailList, <1>1, <2>1, <2>3, <2>4, <3>1, <3>2 DEF Types
  <2>7. CASE ~Room
    <3>1. LeftFailed(c, cs)
      BY <2>4, <2>7 DEF LeftFailed, PutEvent
    <3>. QED  BY PutFacts, TailList, <1>1, <2>1, <2>2, <2>3, <2>4, <2>7, <3>1 DEF Types
  <2>. QED  BY <2>6, <2>7
<1>2. CASE ~(tcp_conns # <<>> /\ Head(tcp_conns) = c)
  BY <1>2 DEF ConnFailed, Types
<1>. QED  BY <1>1, <1>2

\* The connection that listener_accept registers.
Registered(cr, e) ==
  [cr EXCEPT !.st = "REG_SYNACK", !.peer = e.peer, !.ecn = @ \/ e.ecn, !.offered = e.ecn]

LEMMA RegisteredRec ==
  ASSUME NEW cr \in ConnRec, NEW e \in Syn
  PROVE  /\ Registered(cr, e) \in ConnRec
         /\ Registered(cr, e).st = "REG_SYNACK" /\ Registered(cr, e).peer = e.peer
         /\ Registered(cr, e).port = cr.port /\ Registered(cr, e).req = cr.req
         /\ Registered(cr, e).armed = cr.armed
         /\ Registered(cr, e).attempts = cr.attempts
<1>1. (cr.ecn \/ e.ecn) \in BOOLEAN
  OBVIOUS
<1>. QED  BY <1>1 DEF Registered, ConnRec, Syn, Status

\* listener_accept: the entry is consumed; the connection stays as it was, is
\* registered but keeps waiting, or leaves for the global list.
LEMMA AcceptFacts ==
  ASSUME Types, NEW l \in Listeners, NEW bl \in Seq(Syn), bl # <<>>,
         NEW wait \in Seq(Conns), wait # <<>>, NEW cs \in [Conns -> ConnRec],
         ListenerAccept(l, bl, wait, cs)
  PROVE  LET c == Head(wait)
             e == Head(bl) IN
         /\ c \in Conns /\ e \in Syn
         /\ conn' \in [Conns -> ConnRec] /\ tcp_conns' \in Seq(Conns)
         /\ lst' \in [Listeners -> ListenRec]
         /\ async_q' \in Seq([c : Conns, ok : BOOLEAN])
         /\ \A m \in Listeners : lst'[m].open = lst[m].open
         /\ \A m \in Listeners : m # l => lst'[m] = lst[m]
         /\ lst'[l].backlog = Tail(bl)
         /\ \/ /\ lst'[l].wait = wait
               /\ conn' = cs \/ conn' = [cs EXCEPT ![c] = Registered(cs[c], e)]
               /\ tcp_conns' = tcp_conns /\ async_q' = async_q
            \/ /\ e.ts
               /\ lst'[l].wait = Tail(wait)
               /\ conn' = [cs EXCEPT ![c] = Registered(cs[c], e)]
               /\ tcp_conns' = <<c>> \o tcp_conns
               /\ async_q' = Append(async_q, [c |-> c, ok |-> TRUE])
<1> DEFINE c == Head(wait)
           e == Head(bl)
           ks == [cs EXCEPT ![c] = Registered(cs[c], e)]
<1>1. c \in Conns /\ e \in Syn /\ Tail(bl) \in Seq(Syn) /\ Tail(wait) \in Seq(Conns)
  BY TailList
<1>2. ks \in [Conns -> ConnRec]
  BY <1>1, RegisteredRec
<1>3. <<c>> \o tcp_conns \in Seq(Conns)
  BY <1>1, ConsList DEF Types
<1>4. Append(async_q, [c |-> c, ok |-> TRUE]) \in Seq([c : Conns, ok : BOOLEAN])
  BY <1>1, AppendList DEF Types
<1>5. ASSUME NEW w \in Seq(Conns),
             lst' = [lst EXCEPT ![l].backlog = Tail(bl), ![l].wait = w]
      PROVE  /\ lst' \in [Listeners -> ListenRec]
             /\ \A m \in Listeners : lst'[m].open = lst[m].open
             /\ \A m \in Listeners : m # l => lst'[m] = lst[m]
             /\ lst'[l].backlog = Tail(bl) /\ lst'[l].wait = w
  BY <1>1, <1>5 DEF Types, ListenRec
<1>6. CASE /\ lst' = [lst EXCEPT ![l].backlog = Tail(bl), ![l].wait = wait]
           /\ conn' = cs
           /\ UNCHANGED <<tcp_conns, linux, async_q>>
  BY <1>1, <1>5, <1>6 DEF Types
<1>7. CASE /\ lst' = [lst EXCEPT ![l].backlog = Tail(bl), ![l].wait = wait]
           /\ conn' = ks
           /\ UNCHANGED <<tcp_conns, linux, async_q>>
  BY <1>1, <1>2, <1>5, <1>7 DEF Types
<1>8. CASE /\ e.ts
           /\ lst' = [lst EXCEPT ![l].backlog = Tail(bl), ![l].wait = Tail(wait)]
           /\ conn' = ks
           /\ tcp_conns' = <<c>> \o tcp_conns
           /\ async_q' = Append(async_q, [c |-> c, ok |-> TRUE])
  BY <1>1, <1>2, <1>3, <1>4, <1>5, <1>8
<1>. QED  BY <1>6, <1>7, <1>8 DEF ListenerAccept, Registered

LEMMA SynSentRec ==
  ASSUME NEW cr \in ConnRec
  PROVE  /\ SynSent(cr) \in ConnRec
         /\ SynSent(cr).st = "SYN_SENT" /\ SynSent(cr).attempts = 0
         /\ SynSent(cr).peer = cr.peer /\ SynSent(cr).port = cr.port
         /\ SynSent(cr).req = cr.req
<1>1. 0 \in 0..Retries + 1
  BY TcpAssumption
<1>. QED  BY <1>1 DEF SynSent, ConnRec, Status

\* The connection that tcp_open allocates.
Opened(r, p, port) == [FreeConn EXCEPT !.st = "ARP_PENDING", !.peer = p,
                                       !.port = port, !.req = r]

LEMMA OpenedRec ==
  ASSUME NEW r \in Reqs, NEW p \in Peers, NEW port \in Ports
  PROVE  /\ Opened(r, p, port) \in ConnRec
         /\ Opened(r, p, port).st = "ARP_PENDING" /\ Opened(r, p, port).armed = FALSE
         /\ Opened(r, p, port).peer = p /\ Opened(r, p, port).port = port
         /\ Opened(r, p, port).req = r
<1>1. 0 \in 0..Retries + 1 /\ port \in 0..LastPort
  BY TcpAssumption DEF Ports
<1>. QED  BY <1>1, FreeRec DEF Opened, ConnRec, Status

\* The connection that tcp_accept allocates.
Accepted(r, port) == [FreeConn EXCEPT !.st = "SYN_WAIT", !.port = port, !.req = r]

LEMMA AcceptedRec ==
  ASSUME NEW r \in Reqs, NEW port \in Ports
  PROVE  /\ Accepted(r, port) \in ConnRec
         /\ Accepted(r, port).st = "SYN_WAIT" /\ Accepted(r, port).armed = FALSE
         /\ Accepted(r, port).port = port /\ Accepted(r, port).req = r
<1>1. 0 \in 0..Retries + 1 /\ port \in 0..LastPort
  BY TcpAssumption DEF Ports
<1>. QED  BY <1>1, FreeRec DEF Accepted, ConnRec, Status

LEMMA PortFacts ==
  ASSUME Types, NEW port \in PortAlloc
  PROVE  /\ port # 0 => port \in Ports /\ ports[port].type = "UNUSED"
         /\ NextPort(port) \in Searched
BY TcpAssumption DEF PortAlloc, Unused, Ports, NextPort, Searched

\* tcp_open allocates nothing, or one connection on one port.
NoAlloc ==
  UNCHANGED <<conn, tcp_conns, ports, arp, app_conns>>
Alloc(r, p, port, c, resolved) ==
  /\ conn' = [conn EXCEPT ![c] = IF resolved THEN SynSent(Opened(r, p, port))
                                             ELSE Opened(r, p, port)]
  /\ arp' = IF resolved THEN arp ELSE arp \cup {c}
  /\ tcp_conns' = <<c>> \o tcp_conns
  /\ ports' = [ports EXCEPT ![port] = [type |-> "CONN", ls |-> <<>>]]
  /\ kout' = kout

LEMMA OpenFacts ==
  ASSUME Types, NEW r \in Opens, NEW p \in Peers, KinConnOpen(r, p)
  PROVE  /\ r \notin asked /\ r \in Reqs /\ asked' = asked \cup {r}
         /\ UNCHANGED <<lst, async_q, app_pos, tap, told>>
         /\ kout' \in [0..KoutLen-1 -> Event] /\ kout_pos' \in 0..KoutLen-1
         /\ port_hint' \in Searched /\ kern' \in {"up", "abort"}
         /\ \/ /\ NoAlloc
               /\ \/ kout' = kout
                  \/ kout' = [kout EXCEPT ![kout_pos] =
                                [ev |-> "opened", op |-> r, st |-> "fail"]]
            \/ \E port \in PortAlloc \ {0}, c \in FreeConns, resolved \in BOOLEAN :
                 Alloc(r, p, port, c, resolved)
<1> DEFINE e == [ev |-> "opened", op |-> r, st |-> "fail"]
<1>1. r \in Reqs /\ e \in Event
  BY DEF Reqs, Event
<1>2. r \notin asked /\ asked' = asked \cup {r} /\ TcpOpen(r, p) /\ Room /\ kern = "up"
      /\ UNCHANGED <<lst, async_q, app_pos, linux, tap, wire, up, told, kern>>
  BY DEF KinConnOpen
<1>3. CASE /\ PutEvent(e)
           /\ UNCHANGED <<conn, tcp_conns, ports, port_hint, arp, app_conns>>
  BY <1>1, <1>2, <1>3, PutFacts DEF NoAlloc, Types
<1>5. CASE \E port \in PortAlloc :
             /\ port_hint' = NextPort(port)
             /\ PutEvent(e)
             /\ UNCHANGED <<conn, tcp_conns, ports, arp, app_conns>>
  BY <1>1, <1>2, <1>5, PutFacts, PortFacts DEF NoAlloc, Types
<1>6. CASE \E port \in PortAlloc \ {0} :
             /\ port_hint' = NextPort(port)
             /\ \E c \in FreeConns, resolved \in BOOLEAN :
                  /\ conn' = [conn EXCEPT ![c] =
                               IF resolved THEN SynSent(Opened(r, p, port))
                                           ELSE Opened(r, p, port)]
                  /\ arp' = IF resolved THEN arp ELSE arp \cup {c}
                  /\ tcp_conns' = <<c>> \o tcp_conns
             /\ ports' = [ports EXCEPT ![port] = [type |-> "CONN", ls |-> <<>>]]
             /\ UNCHANGED <<kout, kout_pos>>
  <2>1. PICK port \in PortAlloc \ {0} :
             /\ port_hint' = NextPort(port)
             /\ \E c \in FreeConns, resolved \in BOOLEAN :
                  /\ conn' = [conn EXCEPT ![c] =
                               IF resolved THEN SynSent(Opened(r, p, port))
                                           ELSE Opened(r, p, port)]
                  /\ arp' = IF resolved THEN arp ELSE arp \cup {c}
                  /\ tcp_conns' = <<c>> \o tcp_conns
             /\ ports' = [ports EXCEPT ![port] = [type |-> "CONN", ls |-> <<>>]]
             /\ UNCHANGED <<kout, kout_pos>>
    BY <1>6
  <2>2. PICK c \in FreeConns, resolved \in BOOLEAN : Alloc(r, p, port, c, resolved)
    BY <2>1 DEF Alloc
  <2>. QED  BY <1>1, <1>2, <2>1, <2>2, PortFacts DEF Types
<1>. QED  BY <1>2, <1>3, <1>5, <1>6 DEF TcpOpen, Opened

\* What Alloc makes of the connection.
IsNew(cr, r, p, port, c) ==
  /\ cr.st \in {"ARP_PENDING", "SYN_SENT"}
  /\ cr.armed => cr.st = "SYN_SENT" /\ cr.attempts <= Retries
  /\ cr.peer = p /\ cr.port = port /\ cr.req = r
  /\ conn' = [conn EXCEPT ![c] = cr]
  /\ arp' = arp \/ (arp' = arp \cup {c} /\ cr.st = "ARP_PENDING")

LEMMA AllocFacts ==
  ASSUME Types, NEW r \in Reqs, NEW p \in Peers, NEW port \in PortAlloc \ {0},
         NEW c \in FreeConns, NEW resolved \in BOOLEAN, Alloc(r, p, port, c, resolved)
  PROVE  /\ c \in Conns /\ conn[c].st = "FREE"
         /\ port \in Ports /\ ports[port].type = "UNUSED"
         /\ tcp_conns' = <<c>> \o tcp_conns /\ kout' = kout
         /\ ports' = [ports EXCEPT ![port] = [type |-> "CONN", ls |-> <<>>]]
         /\ \E cr \in ConnRec : IsNew(cr, r, p, port, c)
<1> DEFINE o == Opened(r, p, port)
           cr == IF resolved THEN SynSent(o) ELSE o
<1>1. /\ c \in Conns /\ conn[c].st = "FREE"
      /\ port \in Ports /\ ports[port].type = "UNUSED"
  BY PortFacts DEF FreeConns
<1>2. /\ o \in ConnRec /\ o.st = "ARP_PENDING" /\ o.armed = FALSE
      /\ o.peer = p /\ o.port = port /\ o.req = r
  <2>1. port \in Ports
    BY <1>1
  <2>2. /\ Opened(r, p, port) \in ConnRec
        /\ Opened(r, p, port).st = "ARP_PENDING" /\ Opened(r, p, port).armed = FALSE
        /\ Opened(r, p, port).peer = p /\ Opened(r, p, port).port = port
        /\ Opened(r, p, port).req = r
    BY ONLY r \in Reqs, p \in Peers, <2>1, OpenedRec
  <2>. QED  BY <2>2
<1>3. /\ conn' = [conn EXCEPT ![c] = cr]
      /\ arp' = IF resolved THEN arp ELSE arp \cup {c}
      /\ tcp_conns' = <<c>> \o tcp_conns /\ kout' = kout
      /\ ports' = [ports EXCEPT ![port] = [type |-> "CONN", ls |-> <<>>]]
  BY DEF Alloc
<1> HIDE DEF o
<1>4. /\ cr \in ConnRec /\ cr.st \in {"ARP_PENDING", "SYN_SENT"}
      /\ cr.armed => cr.st = "SYN_SENT" /\ cr.attempts <= Retries
      /\ cr.peer = p /\ cr.port = port /\ cr.req = r
      /\ arp' = arp \/ (arp' = arp \cup {c} /\ cr.st = "ARP_PENDING")
  <2>1. CASE resolved
    <3>1. /\ SynSent(o) \in ConnRec /\ SynSent(o).st = "SYN_SENT"
          /\ SynSent(o).attempts = 0 /\ 0 <= Retries
          /\ SynSent(o).peer = p /\ SynSent(o).port = port /\ SynSent(o).req = r
      BY <1>2, SynSentRec, TcpAssumption
    <3>2. cr = SynSent(o) /\ arp' = arp
      BY <1>3, <2>1
    <3>3. SynSent(o).attempts <= Retries
      BY <3>1
    <3> HIDE DEF cr
    <3>. QED  BY <3>1, <3>2, <3>3, Zenon
  <2>2. CASE ~resolved
    <3>1. cr = o /\ arp' = arp \cup {c}
      BY <1>3, <2>2
    <3>. QED  BY <1>2, <3>1
  <2>. QED  BY <2>1, <2>2
<1> HIDE DEF cr
<1>5. IsNew(cr, r, p, port, c)
  BY <1>3, <1>4 DEF IsNew
<1>. QED  BY <1>1, <1>3, <1>4, <1>5

\* A set of natural numbers has a smallest element.
LEMMA LessThan ==
  \E R : IsWellFoundedOn(R, Nat) /\ \A x, y \in Nat : x < y => <<x, y>> \in R
<1> DEFINE R == OpToRel(<, Nat)
<1>1. IsWellFoundedOn(R, Nat)
  BY NatLessThanWellFounded
<1>2. \A x, y \in Nat : x < y => <<x, y>> \in R
  BY DEF OpToRel
<1>. QED  BY <1>1, <1>2

LEMMA SmallestNat ==
  ASSUME NEW T, T \subseteq Nat, T # {}
  PROVE  \E x \in T : \A y \in T : x <= y
<1>1. PICK R : IsWellFoundedOn(R, Nat) /\ \A x, y \in Nat : x < y => <<x, y>> \in R
  BY LessThan
<1>2. IsWellFoundedOn(R, Nat)
  BY <1>1
<1>3. PICK x \in T : \A y \in T : ~(<<y, x>> \in R)
  BY <1>2, WFMin
<1>4. ASSUME NEW y \in T PROVE x <= y
  <2>1. x \in Nat /\ y \in Nat
    OBVIOUS
  <2>2. ~(y < x)
    BY <1>1, <1>3, <2>1
  <2>. QED  BY <2>1, <2>2
<1>. QED  BY <1>4

\* conn_lookup finds listed connections of the four-tuple only, and one if
\* there is one.
LEMMA LookupFacts ==
  ASSUME Types, NEW peer, NEW port
  PROVE  /\ \A c \in Lookup(peer, port) :
              c \in Listed /\ c \in Conns /\ conn[c].peer = peer /\ conn[c].port = port
         /\ Lookup(peer, port) = {} =>
              \A c \in Listed : ~(conn[c].peer = peer /\ conn[c].port = port)
<1>1. tcp_conns \in Seq(Conns) /\ DOMAIN tcp_conns = 1 .. Len(tcp_conns)
      /\ Len(tcp_conns) \in Nat
  BY DEF Types
<1>2. ASSUME NEW c \in Lookup(peer, port)
      PROVE  c \in Listed /\ c \in Conns /\ conn[c].peer = peer /\ conn[c].port = port
  BY <1>1 DEF Lookup, Matches, Listed, Range
<1>3. ASSUME Lookup(peer, port) = {}, NEW c \in Listed,
             conn[c].peer = peer, conn[c].port = port
      PROVE  FALSE
  <2> DEFINE T == {i \in DOMAIN tcp_conns : Matches(i, peer, port)}
  <2>1. T # {} /\ T \subseteq Nat
    BY <1>1, <1>3 DEF Listed, Range, Matches
  <2>2. PICK i \in T : \A j \in T : i <= j
    BY <2>1, SmallestNat
  <2>3. \A j \in 1 .. i - 1 : ~Matches(j, peer, port)
    BY <1>1, <2>2
  <2>. QED  BY <1>3, <2>2, <2>3 DEF Lookup
<1>. QED  BY <1>2, <1>3

Disarmed(cr) == [cr EXCEPT !.armed = FALSE]
Established(cr, ecn) ==
  [cr EXCEPT !.armed = FALSE, !.st = "OPEN", !.ecn = ecn, !.offered = TRUE]

LEMMA DisarmedRec ==
  ASSUME NEW cr \in ConnRec
  PROVE  /\ Disarmed(cr) \in ConnRec
         /\ Disarmed(cr).st = cr.st /\ Disarmed(cr).armed = FALSE
         /\ Disarmed(cr).peer = cr.peer /\ Disarmed(cr).port = cr.port
         /\ Disarmed(cr).req = cr.req
BY DEF Disarmed, ConnRec

LEMMA EstablishedRec ==
  ASSUME NEW cr \in ConnRec, NEW ecn \in BOOLEAN
  PROVE  /\ Established(cr, ecn) \in ConnRec
         /\ Established(cr, ecn).st = "OPEN" /\ Established(cr, ecn).armed = FALSE
         /\ Established(cr, ecn).peer = cr.peer /\ Established(cr, ecn).port = cr.port
         /\ Established(cr, ecn).req = cr.req
BY DEF Established, ConnRec, Status

\* tcp_packet on a known connection: nothing, failure, or the handshake is over.
OpenNoTs(c, s) == conn[c].st = "OPEN" /\ s.kind = "SYN" /\ ~s.ts
PacketCases(c, s) ==
  \/ UNCHANGED <<conn, tcp_conns, kout, kout_pos>>
  \/ /\ conn[c].st = "SYN_SENT"
     /\ ConnFailed(c, [conn EXCEPT ![c] = Disarmed(conn[c])])
  \/ /\ OpenNoTs(c, s)
     /\ ConnFailed(c, conn)
  \/ /\ conn[c].st = "SYN_SENT" /\ s.ts
     /\ \E ecn \in BOOLEAN :
          conn' = [conn EXCEPT ![c] = Established(conn[c], ecn)]
     /\ tcp_conns' = tcp_conns
     /\ PutEvent([ev |-> "opened", op |-> conn[c].req, st |-> "ok"])

LEMMA PacketFacts ==
  ASSUME Types, NEW s \in Segment, ConnPacket(s)
  PROVE  /\ UNCHANGED <<lst, ports, port_hint, async_q, arp, app_pos, tap, asked, told>>
         /\ kern' \in {"up", "abort"}
         /\ \E c \in Conns :
              /\ c \in Lookup(s.peer, s.port)
              /\ c \in Listed /\ conn[c].peer = s.peer /\ conn[c].port = s.port
              /\ PacketCases(c, s)
<1>1. /\ UNCHANGED <<lst, ports, port_hint, async_q, arp, app_pos, tap, asked, told>>
      /\ kern = "up"
  BY DEF ConnPacket
<1>2. PICK c \in Lookup(s.peer, s.port) :
        \/ conn[c].st = "SYN_SENT" /\ ConnSynSentPacket(c, s) /\ UNCHANGED wire
        \/ conn[c].st = "OPEN" /\ ConnOpenPacket(c, s)
  BY DEF ConnPacket
<1>3. c \in Conns /\ c \in Listed /\ conn[c].peer = s.peer /\ conn[c].port = s.port
  BY LookupFacts
<1>4. CASE conn[c].st = "OPEN" /\ ConnOpenPacket(c, s)
  BY <1>1, <1>3, <1>4 DEF ConnOpenPacket, PacketCases, OpenNoTs
<1>5. CASE conn[c].st = "SYN_SENT" /\ ConnSynSentPacket(c, s)
  <2> DEFINE cs == [conn EXCEPT ![c].armed = FALSE]
             es == [cs EXCEPT ![c].st = "OPEN", ![c].ecn = s.kind = "SYN_ACK_ECN",
                              ![c].offered = TRUE]
  <2>1. cs = [conn EXCEPT ![c] = Disarmed(conn[c])]
    BY DEF Disarmed
  <2>2. CASE UNCHANGED <<conn, tcp_conns, kout, kout_pos>> /\ kern' = "abort"
    BY <1>1, <1>3, <2>2 DEF PacketCases
  <2>3. CASE ConnFailed(c, cs) /\ UNCHANGED kern
    BY <1>1, <1>3, <1>5, <2>1, <2>3 DEF PacketCases
  <2>4. CASE s.ts /\ ConnOpened(c, es, "ok") /\ UNCHANGED tcp_conns /\ UNCHANGED kern
    <3> DEFINE ecn == s.kind = "SYN_ACK_ECN"
    <3>1. es = [conn EXCEPT ![c] = Established(conn[c], ecn)]
      BY <1>3 DEF Established, Types, ConnRec
    <3>2. ecn \in BOOLEAN
      OBVIOUS
    <3>3. conn' = es /\ PutEvent([ev |-> "opened", op |-> es[c].req, st |-> "ok"])
      BY <2>4 DEF ConnOpened
    <3>4. es[c].req = conn[c].req
      BY <1>3, <3>1, <3>2, EstablishedRec DEF Types
    <3>. HIDE DEF es
    <3>. QED  BY <1>1, <1>3, <1>5, <2>4, <3>1, <3>2, <3>3, <3>4 DEF PacketCases
  <2>. QED  BY <1>5, <2>2, <2>3, <2>4 DEF ConnSynSentPacket
<1>. QED  BY <1>2, <1>4, <1>5

LEMMA PacketKept ==
  ASSUME Types, TsKept, NEW s \in Segment, ConnPacket(s)
  PROVE  \E c \in Conns : /\ c \in Listed /\ conn[c].peer = s.peer
                           /\ PacketCases(c, s) /\ ~OpenNoTs(c, s)
<1>1. PICK c \in Conns : /\ c \in Lookup(s.peer, s.port)
                          /\ c \in Listed /\ conn[c].peer = s.peer
                          /\ PacketCases(c, s)
  BY PacketFacts, Zenon
<1>2. ~OpenNoTs(c, s)
  BY <1>1 DEF TsKept, OpenNoTs
<1>. QED  BY <1>1, <1>2

Expired(cr) == [cr EXCEPT !.armed = FALSE, !.attempts = @ + 1]
Retried(cr) == [cr EXCEPT !.attempts = @ + 1]

LEMMA ExpiredRec ==
  ASSUME NEW cr \in ConnRec, cr.attempts <= Retries
  PROVE  /\ Expired(cr) \in ConnRec
         /\ Expired(cr).st = cr.st /\ Expired(cr).armed = FALSE
         /\ Expired(cr).peer = cr.peer /\ Expired(cr).port = cr.port
         /\ Expired(cr).req = cr.req
<1>1. cr.attempts + 1 \in 0..Retries + 1
  BY TcpAssumption DEF ConnRec
<1>. QED  BY <1>1 DEF Expired, ConnRec

LEMMA RetriedRec ==
  ASSUME NEW cr \in ConnRec, cr.attempts <= Retries
  PROVE  /\ Retried(cr) \in ConnRec
         /\ Retried(cr).st = cr.st /\ Retried(cr).armed = cr.armed
         /\ Retried(cr).attempts = cr.attempts + 1
         /\ Retried(cr).peer = cr.peer /\ Retried(cr).port = cr.port
         /\ Retried(cr).req = cr.req
<1>1. cr.attempts + 1 \in 0..Retries + 1
  BY TcpAssumption DEF ConnRec
<1>. QED  BY <1>1 DEF Retried, ConnRec

\* tcp_timeout gives up or sends another SYN.
LEMMA TimeoutFacts ==
  ASSUME Types, Lists, NEW c \in Conns, TcpTimeout(c)
  PROVE  /\ conn[c].armed /\ conn[c].st = "SYN_SENT" /\ conn[c].attempts <= Retries
         /\ UNCHANGED <<lst, ports, port_hint, async_q, arp, app_pos, tap, asked,
                        told, kern>>
         /\ \/ ConnFailed(c, [conn EXCEPT ![c] = Expired(conn[c])])
            \/ /\ conn' = [conn EXCEPT ![c] = Retried(conn[c])]
               /\ conn[c].attempts + 1 <= Retries
               /\ UNCHANGED <<tcp_conns, kout, kout_pos>>
<1>1. conn[c].armed /\ conn[c].st = "SYN_SENT" /\ conn[c].attempts <= Retries
  BY DEF TcpTimeout, Lists, ListsOn
<1>2. /\ UNCHANGED kern
      /\ IF conn[c].attempts + 1 > Retries
         THEN ConnFailed(c, [conn EXCEPT ![c].armed = FALSE, ![c].attempts = @ + 1])
         ELSE /\ conn' = [conn EXCEPT ![c].attempts = @ + 1]
              /\ UNCHANGED <<tcp_conns, kout, kout_pos>>
  BY <1>1 DEF TcpTimeout
<1>3. /\ conn[c] \in ConnRec /\ conn[c].attempts \in 0..Retries + 1
      /\ conn \in [Conns -> ConnRec]
  BY DEF Types, ConnRec
<1>4. [conn EXCEPT ![c].armed = FALSE, ![c].attempts = @ + 1] =
        [conn EXCEPT ![c] = Expired(conn[c])]
  BY <1>3 DEF Expired, ConnRec
<1>5. [conn EXCEPT ![c].attempts = @ + 1] = [conn EXCEPT ![c] = Retried(conn[c])]
  BY <1>3 DEF Retried
<1>6. Retries \in Nat
  BY TcpAssumption
<1>7. UNCHANGED <<lst, ports, port_hint, async_q, arp, app_pos, tap, asked, told>>
  BY DEF TcpTimeout
<1>8. CASE conn[c].attempts + 1 > Retries
  BY <1>1, <1>2, <1>4, <1>7, <1>8
<1>9. CASE ~(conn[c].attempts + 1 > Retries)
  <2>1. conn[c].attempts + 1 <= Retries
    BY <1>3, <1>6, <1>9
  <2>. QED  BY <1>1, <1>2, <1>5, <1>7, <1>9, <2>1
<1>. QED  BY <1>8, <1>9

\* tcp_packet for a listener.
LEMMA ListenerFacts ==
  ASSUME Types, NEW s \in Segment, ListenerPacket(s)
  PROVE  LET l == ListenerFor(s)
             e == [peer |-> s.peer, ts |-> s.ts, ecn |-> s.kind = "SYN_ECN"] IN
         /\ l \in Listeners /\ s.port \in Ports /\ s.peer \in Peers /\ e \in Syn
         /\ s.ts \in PeerTs[s.peer]
         /\ \E i \in DOMAIN ports[s.port].ls : l = ports[s.port].ls[i]
         /\ \A c \in Listed : ~(conn[c].peer = s.peer /\ conn[c].port = s.port)
         /\ \A i \in DOMAIN lst[l].backlog : lst[l].backlog[i].peer # s.peer
         /\ lst[l].backlog \in Seq(Syn) /\ lst[l].wait \in Seq(Conns)
         /\ Append(lst[l].backlog, e) \in Seq(Syn)
         /\ PutEvent([ev |-> "newconn", op |-> l, st |-> "ok"])
         /\ UNCHANGED <<ports, port_hint, arp, app_pos, tap, asked, told, kern>>
         /\ \/ /\ lst[l].wait # <<>>
               /\ ListenerAccept(l, Append(lst[l].backlog, e), lst[l].wait, conn)
            \/ /\ lst[l].wait = <<>>
               /\ lst' = [lst EXCEPT ![l].backlog = Append(lst[l].backlog, e)]
               /\ UNCHANGED <<conn, tcp_conns, async_q>>
<1> DEFINE l == ListenerFor(s)
           e == [peer |-> s.peer, ts |-> s.ts, ecn |-> s.kind = "SYN_ECN"]
           ls == ports[s.port].ls
<1>1. s.port \in Ports /\ s.peer \in Peers /\ s.ts \in BOOLEAN /\ s.ts \in PeerTs[s.peer]
  BY DEF Segment
<1>2. e \in Syn
  <2>1. (s.kind = "SYN_ECN") \in BOOLEAN
    OBVIOUS
  <2>. QED  BY <1>1, <2>1 DEF Syn
<1>3. ls \in Seq(Listeners) /\ ls # <<>>
  BY <1>1 DEF Types, PortRec, ListenerPacket, ListenersOf
<1>4. \E i \in DOMAIN ls : l = ls[i]
  <2>1. PeerHash[s.peer] \in Nat /\ Len(ls) \in Nat /\ Len(ls) > 0
    BY <1>1, <1>3, TcpAssumption
  <2>2. PeerHash[s.peer] % Len(ls) \in 0 .. Len(ls) - 1
    BY <2>1
  <2>3. (PeerHash[s.peer] % Len(ls)) + 1 \in DOMAIN ls
    BY <1>3, <2>1, <2>2
  <2>. QED  BY <2>3 DEF ListenerFor, ListenersOf
<1>5. l \in Listeners
  BY <1>3, <1>4
<1>6. \A c \in Listed : ~(conn[c].peer = s.peer /\ conn[c].port = s.port)
  BY LookupFacts DEF ListenerPacket
<1>7. lst[l].backlog \in Seq(Syn) /\ lst[l].wait \in Seq(Conns)
  BY <1>5 DEF Types, ListenRec
<1>8. Append(lst[l].backlog, e) \in Seq(Syn)
  BY <1>2, <1>7, AppendList
<1>9. /\ \A i \in DOMAIN lst[l].backlog : lst[l].backlog[i].peer # s.peer
      /\ PutEvent([ev |-> "newconn", op |-> l, st |-> "ok"])
      /\ UNCHANGED <<ports, port_hint, arp, app_pos, tap, asked, told, kern>>
  BY DEF ListenerPacket, InBacklog
<1>10. IF lst[l].wait # <<>>
       THEN ListenerAccept(l, Append(lst[l].backlog, e), lst[l].wait, conn)
       ELSE /\ lst' = [lst EXCEPT ![l].backlog = Append(lst[l].backlog, e)]
            /\ UNCHANGED <<conn, tcp_conns, linux, async_q>>
  BY DEF ListenerPacket
<1>. HIDE DEF l, e
<1>11. \/ /\ lst[l].wait # <<>>
          /\ ListenerAccept(l, Append(lst[l].backlog, e), lst[l].wait, conn)
       \/ /\ lst[l].wait = <<>>
          /\ lst' = [lst EXCEPT ![l].backlog = Append(lst[l].backlog, e)]
          /\ UNCHANGED <<conn, tcp_conns, async_q>>
  BY <1>10
<1>. USE DEF l, e
<1>. QED  BY <1>1, <1>2, <1>4, <1>5, <1>6, <1>7, <1>8, <1>9, <1>11

\* tcp_accept serves a new connection from the backlog, or leaves it waiting.
LEMMA AcceptConnFacts ==
  ASSUME Types, NEW r \in Accepts, NEW l \in Listeners, KinAcceptConn(r, l)
  PROVE  /\ r \notin asked /\ r \in Reqs /\ asked' = asked \cup {r} /\ lst[l].open
         /\ lst[l].backlog \in Seq(Syn) /\ lst[l].wait \in Seq(Conns)
         /\ ListenPort[l] \in Ports
         /\ UNCHANGED <<ports, port_hint, arp, app_pos, tap, told, kern>>
         /\ kout' \in [0..KoutLen-1 -> Event] /\ kout_pos' \in 0..KoutLen-1
         /\ \/ /\ UNCHANGED <<conn, tcp_conns, lst, async_q>>
               /\ kout' = [kout EXCEPT ![kout_pos] =
                             [ev |-> "accepted", op |-> r, st |-> "fail"]]
            \/ /\ kout' = kout
               /\ \E c \in FreeConns :
                    LET cs == [conn EXCEPT ![c] = Accepted(r, ListenPort[l])]
                        wait == <<c>> \o lst[l].wait IN
                    /\ cs \in [Conns -> ConnRec] /\ wait \in Seq(Conns)
                    /\ \/ /\ lst[l].backlog # <<>>
                          /\ ListenerAccept(l, lst[l].backlog, wait, cs)
                       \/ /\ conn' = cs /\ lst' = [lst EXCEPT ![l].wait = wait]
                          /\ lst[l].backlog = <<>>
                          /\ UNCHANGED <<tcp_conns, async_q>>
<1> DEFINE e == [ev |-> "accepted", op |-> r, st |-> "fail"]
<1>1. r \in Reqs /\ e \in Event
  BY DEF Reqs, Event
<1>2. /\ lst[l].backlog \in Seq(Syn) /\ lst[l].wait \in Seq(Conns)
      /\ ListenPort[l] \in Ports
  BY TcpAssumption DEF Types, ListenRec, Ports
<1>3. /\ r \notin asked /\ asked' = asked \cup {r} /\ lst[l].open /\ Room
      /\ UNCHANGED <<ports, port_hint, arp, app_pos, tap, told, kern>>
  BY DEF KinAcceptConn
<1>4. CASE /\ PutEvent(e)
           /\ UNCHANGED <<conn, tcp_conns, lst, linux, async_q>>
  BY <1>1, <1>2, <1>3, <1>4, PutFacts
<1>5. CASE /\ \E c \in FreeConns : TcpAccept(r, l, c)
           /\ UNCHANGED <<kout, kout_pos>>
  <2>1. PICK c \in FreeConns : TcpAccept(r, l, c)
    BY <1>5
  <2> DEFINE cs == [conn EXCEPT ![c] = Accepted(r, ListenPort[l])]
             wait == <<c>> \o lst[l].wait
  <2>2. c \in Conns
    BY DEF FreeConns
  <2>3. cs \in [Conns -> ConnRec] /\ wait \in Seq(Conns)
    BY <1>1, <1>2, <2>2, AcceptedRec, ConsList DEF Types
  <2>4. \/ lst[l].backlog # <<>> /\ ListenerAccept(l, lst[l].backlog, wait, cs)
        \/ /\ conn' = cs /\ lst' = [lst EXCEPT ![l].wait = wait]
           /\ lst[l].backlog = <<>>
           /\ UNCHANGED <<tcp_conns, async_q>>
    BY <2>1 DEF TcpAccept, Accepted
  <2>5. kout' = kout /\ kout_pos' = kout_pos
    BY <1>5
  <2>. QED  BY <1>1, <1>2, <1>3, <2>3, <2>4, <2>5 DEF Types
<1>. QED  BY <1>4, <1>5 DEF KinAcceptConn

\* tcp_listen leaves everything alone, or opens the listener.
Listens(l) ==
  /\ lst' = [lst EXCEPT ![l] = [lst[l] EXCEPT !.open = TRUE]]
  /\ \E ty \in {"LISTEN", "LMULTI"} :
       ports' = [ports EXCEPT ![ListenPort[l]] =
                   [type |-> ty, ls |-> Append(ports[ListenPort[l]].ls, l)]]

LEMMA ListensFacts ==
  ASSUME Types, NEW l \in Listeners, Listens(l)
  PROVE  /\ lst'[l].open = TRUE /\ lst'[l].wait = lst[l].wait
         /\ lst'[l].backlog = lst[l].backlog
         /\ \A m \in Listeners : m # l => lst'[m] = lst[m]
         /\ Waits' = Waits /\ Backlogs' = Backlogs
<1>1. lst \in [Listeners -> ListenRec] /\ lst[l] \in ListenRec
  BY DEF Types
<1>2. lst'[l] = [lst[l] EXCEPT !.open = TRUE] /\ \A m \in Listeners : m # l => lst'[m] = lst[m]
  BY <1>1 DEF Listens
<1>3. lst'[l].open = TRUE /\ lst'[l].wait = lst[l].wait /\ lst'[l].backlog = lst[l].backlog
  BY <1>1, <1>2 DEF ListenRec
<1>4. \A m \in Listeners : lst'[m].wait = lst[m].wait /\ lst'[m].backlog = lst[m].backlog
  BY <1>2, <1>3
<1>. QED  BY <1>2, <1>3, <1>4 DEF Waits, Backlogs

LEMMA ListenFacts ==
  ASSUME Types, NEW l \in Listeners, NEW reuse \in BOOLEAN, KinListenOpen(l, reuse)
  PROVE  /\ UNCHANGED <<conn, tcp_conns, port_hint, async_q, arp, app_pos, tap, asked,
                        told, kern>>
         /\ \E st \in {"ok", "fail"} : PutEvent([ev |-> "listen", op |-> l, st |-> st])
         /\ UNCHANGED <<lst, ports>> \/ Listens(l)
         /\ lst' \in [Listeners -> ListenRec] /\ ports' \in [Ports -> PortRec]
         /\ kout' \in [0..KoutLen-1 -> Event] /\ kout_pos' \in 0..KoutLen-1
<1>1. /\ UNCHANGED <<conn, tcp_conns, port_hint, async_q, arp, app_pos, tap, asked,
                     told, kern>>
      /\ TcpListen(l, reuse)
  BY DEF KinListenOpen
<1>2. PICK st \in {"ok", "fail"} : PutEvent([ev |-> "listen", op |-> l, st |-> st])
  BY DEF KinListenOpen
<1>3. [ev |-> "listen", op |-> l, st |-> st] \in Event
  BY DEF Event
<1>4. ListenPort[l] \in Ports
  BY TcpAssumption DEF Ports
<1>5. lst[l] \in ListenRec /\ ports[ListenPort[l]] \in PortRec
  BY <1>4 DEF Types
<1>6. [lst[l] EXCEPT !.open = TRUE] \in ListenRec
  BY <1>5 DEF ListenRec
<1>7. \A ty \in {"LISTEN", "LMULTI"} :
        [type |-> ty, ls |-> Append(ports[ListenPort[l]].ls, l)] \in PortRec
  <2>1. ports[ListenPort[l]].ls \in Seq(Listeners)
    BY <1>5 DEF PortRec
  <2>2. Append(ports[ListenPort[l]].ls, l) \in Seq(Listeners)
    BY <2>1
  <2>. QED  BY <2>2 DEF PortRec
<1>8. UNCHANGED <<lst, ports>> \/ Listens(l)
  <2>1. CASE /\ lst' = [lst EXCEPT ![l].open = TRUE]
             /\ ports' = [ports EXCEPT ![ListenPort[l]] =
                  [type |-> IF reuse THEN "LMULTI" ELSE "LISTEN", ls |-> Append(@.ls, l)]]
    <3>1. ports' = [ports EXCEPT ![ListenPort[l]] =
                     [type |-> IF reuse THEN "LMULTI" ELSE "LISTEN",
                      ls |-> Append(ports[ListenPort[l]].ls, l)]]
      BY <2>1
    <3>2. lst' = [lst EXCEPT ![l] = [lst[l] EXCEPT !.open = TRUE]]
      BY <2>1
    <3>. QED  BY <3>1, <3>2 DEF Listens
  <2>. QED  BY <1>1, <2>1 DEF TcpListen
<1>9. lst' \in [Listeners -> ListenRec] /\ ports' \in [Ports -> PortRec]
  <2>1. CASE UNCHANGED <<lst, ports>>
    BY <2>1 DEF Types
  <2>2. CASE Listens(l)
    BY <1>4, <1>6, <1>7, <2>2 DEF Listens, Types
  <2>. QED  BY <1>8, <2>1, <2>2
<1>. QED  BY <1>1, <1>2, <1>3, <1>8, <1>9, PutFacts

SynAcked(cr) == [cr EXCEPT !.st = "OPEN"]

LEMMA SynAckedRec ==
  ASSUME NEW cr \in ConnRec
  PROVE  /\ SynAcked(cr) \in ConnRec
         /\ SynAcked(cr).st = "OPEN" /\ SynAcked(cr).armed = cr.armed
         /\ SynAcked(cr).peer = cr.peer /\ SynAcked(cr).port = cr.port
         /\ SynAcked(cr).req = cr.req /\ SynAcked(cr).attempts = cr.attempts
BY DEF SynAcked, ConnRec, Status

\* tap_poll opens a connection for which a SYN-ACK was due, or nothing changes.
LEMMA TapFacts ==
  ASSUME Types, NEW t \in Tuples, TapSynAck(t)
  PROVE  /\ UNCHANGED <<tcp_conns, lst, ports, port_hint, async_q, arp, kout, kout_pos,
                        app_pos, asked, told, kern>>
         /\ tap = Idle
         /\ \/ UNCHANGED <<conn, tap>>
            \/ \E c \in Conns :
                 /\ c \in Listed /\ conn[c].st = "REG_SYNACK"
                 /\ conn' = [conn EXCEPT ![c] = SynAcked(conn[c])]
                 /\ tap' = Idle \/ tap' = [c |-> c, pos |-> kout_pos]
<1>1. PICK c \in Conns :
        /\ c \in Listed
        /\ IF conn[c].st = "REG_SYNACK"
           THEN /\ conn' = [conn EXCEPT ![c].st = "OPEN"]
                /\ tap' = IF Room THEN [c |-> c, pos |-> kout_pos] ELSE Idle
           ELSE UNCHANGED <<conn, wire, tap>>
  BY LookupFacts DEF TapSynAck, LookupRev
<1>2. [conn EXCEPT ![c].st = "OPEN"] = [conn EXCEPT ![c] = SynAcked(conn[c])]
  BY DEF SynAcked
<1>3. /\ UNCHANGED <<tcp_conns, lst, ports, port_hint, async_q, arp, kout, kout_pos,
                     app_pos, asked, told, kern>>
      /\ tap = Idle
  BY DEF TapSynAck
<1>4. CASE conn[c].st = "REG_SYNACK"
  BY <1>1, <1>2, <1>3, <1>4
<1>5. CASE conn[c].st # "REG_SYNACK"
  BY <1>1, <1>3, <1>5
<1>. QED  BY <1>4, <1>5

-----------------------------------------------------------------------------
(* Types.                                                                  *)

LEMMA TypesStep ==
  ASSUME Types, Lists, [Next]_vars
  PROVE  Types'
<1>1. ASSUME NEW r \in Opens, NEW p \in Peers, KinConnOpen(r, p) PROVE Types'
  <2>1. /\ r \in Reqs /\ asked' = asked \cup {r}
        /\ UNCHANGED <<lst, async_q, app_pos, tap, told>>
        /\ kout' \in [0..KoutLen-1 -> Event] /\ kout_pos' \in 0..KoutLen-1
        /\ port_hint' \in Searched /\ kern' \in {"up", "abort"}
    BY <1>1, OpenFacts
  <2>2. CASE NoAlloc
    BY <2>1, <2>2 DEF NoAlloc, Types
  <2>3. CASE \E port \in PortAlloc \ {0}, c \in FreeConns, resolved \in BOOLEAN :
               Alloc(r, p, port, c, resolved)
    <3>1. PICK port \in PortAlloc \ {0}, c \in FreeConns, resolved \in BOOLEAN :
                 Alloc(r, p, port, c, resolved)
      BY <2>3
    <3>2. c \in Conns /\ port \in Ports
      BY PortFacts DEF FreeConns
    <3>3. Opened(r, p, port) \in ConnRec /\ SynSent(Opened(r, p, port)) \in ConnRec
      BY <2>1, <3>2, OpenedRec, SynSentRec
    <3>4. conn' \in [Conns -> ConnRec]
      BY <3>1, <3>2, <3>3 DEF Alloc, Types
    <3>5. arp' \subseteq Conns /\ tcp_conns' \in Seq(Conns)
      BY <3>1, <3>2, ConsList DEF Alloc, Types
    <3>6. ports' \in [Ports -> PortRec]
      BY <3>1, <3>2 DEF Alloc, Types, PortRec
    <3>. QED  BY <2>1, <3>4, <3>5, <3>6 DEF Types
  <2>. QED  BY <1>1, <2>2, <2>3, OpenFacts
<1>2. ASSUME NEW l \in Listeners, NEW reuse \in BOOLEAN, KinListenOpen(l, reuse)
      PROVE  Types'
  BY <1>2, ListenFacts DEF Types
<1>3. ASSUME NEW r \in Accepts, NEW l \in Listeners, KinAcceptConn(r, l)
      PROVE  Types'
  <2>1. /\ r \in Reqs /\ asked' = asked \cup {r}
        /\ UNCHANGED <<ports, port_hint, arp, app_pos, tap, told, kern>>
        /\ kout' \in [0..KoutLen-1 -> Event] /\ kout_pos' \in 0..KoutLen-1
        /\ lst[l].backlog \in Seq(Syn) /\ lst[l].wait \in Seq(Conns)
    BY <1>3, AcceptConnFacts
  <2>2. CASE UNCHANGED <<conn, tcp_conns, lst, async_q>>
    BY <2>1, <2>2 DEF Types
  <2>3. ASSUME NEW cs \in [Conns -> ConnRec], NEW wait \in Seq(Conns),
               conn' = cs, lst' = [lst EXCEPT ![l].wait = wait],
               UNCHANGED <<tcp_conns, async_q>>
        PROVE  Types'
    BY <2>1, <2>3 DEF Types, ListenRec
  <2>4. ASSUME NEW cs \in [Conns -> ConnRec], NEW c \in Conns,
               NEW wait \in Seq(Conns), wait = <<c>> \o lst[l].wait,
               lst[l].backlog # <<>>, ListenerAccept(l, lst[l].backlog, wait, cs)
        PROVE  Types'
    <3>1. wait # <<>>
      BY <2>1, <2>4, ConsList
    <3>2. /\ conn' \in [Conns -> ConnRec] /\ tcp_conns' \in Seq(Conns)
          /\ lst' \in [Listeners -> ListenRec]
          /\ async_q' \in Seq([c : Conns, ok : BOOLEAN])
      BY <2>1, <2>4, <3>1, AcceptFacts
    <3>. QED  BY <2>1, <3>2 DEF Types
  <2>5. FreeConns \subseteq Conns
    BY DEF FreeConns
  <2>. QED  BY <1>3, <2>2, <2>3, <2>4, <2>5, AcceptConnFacts
<1>4. ASSUME NEW c \in Conns, NEW ok \in BOOLEAN, ArpComplete(c, ok)
      PROVE  Types'
  BY <1>4 DEF ArpComplete, Types
<1>5. CASE TcpPoll
  <2> DEFINE e == Head(async_q)
  <2>1. /\ e.c \in Conns
        /\ async_q' \in Seq([c : Conns, ok : BOOLEAN])
        /\ UNCHANGED <<lst, ports, port_hint, arp, app_pos, tap, asked, told, kern>>
    <3>1. async_q \in Seq([c : Conns, ok : BOOLEAN]) /\ async_q # <<>>
      BY <1>5 DEF TcpPoll, Types
    <3>2. e \in [c : Conns, ok : BOOLEAN] /\ Tail(async_q) \in Seq([c : Conns, ok : BOOLEAN])
      BY <3>1, TailList
    <3>. QED  BY <1>5, <3>2 DEF TcpPoll
  <2>2. CASE UNCHANGED <<conn, tcp_conns, kout, kout_pos>>
    BY <2>1, <2>2 DEF Types
  <2>3. CASE /\ conn' = [conn EXCEPT ![e.c] = SynSent(@)]
             /\ UNCHANGED <<tcp_conns, kout, kout_pos>>
    <3>1. conn' \in [Conns -> ConnRec]
      BY <2>1, <2>3, SynSentRec DEF Types
    <3>. QED  BY <2>1, <2>3, <3>1 DEF Types
  <2>4. CASE ConnFailed(e.c, conn)
    <3>1. /\ conn' \in [Conns -> ConnRec] /\ tcp_conns' \in Seq(Conns)
          /\ kout' \in [0..KoutLen-1 -> Event] /\ kout_pos' \in 0..KoutLen-1
      BY <2>1, <2>4, FailedFacts DEF Types
    <3>. QED  BY <2>1, <3>1 DEF Types
  <2>. QED  BY <1>5, <2>2, <2>3, <2>4 DEF TcpPoll
<1>6. ASSUME NEW c \in Conns, TcpTimeout(c) PROVE Types'
  <2>1. /\ conn[c].attempts <= Retries
        /\ UNCHANGED <<lst, ports, port_hint, async_q, arp, app_pos, tap, asked,
                       told, kern>>
    BY <1>6, TimeoutFacts
  <2>2. conn[c] \in ConnRec
    BY DEF Types
  <2>3. CASE ConnFailed(c, [conn EXCEPT ![c] = Expired(conn[c])])
    <3>1. [conn EXCEPT ![c] = Expired(conn[c])] \in [Conns -> ConnRec]
      BY <2>1, <2>2, ExpiredRec DEF Types
    <3>2. /\ conn' \in [Conns -> ConnRec] /\ tcp_conns' \in Seq(Conns)
          /\ kout' \in [0..KoutLen-1 -> Event] /\ kout_pos' \in 0..KoutLen-1
      BY <2>3, <3>1, FailedFacts
    <3>. QED  BY <2>1, <3>2 DEF Types
  <2>4. CASE /\ conn' = [conn EXCEPT ![c] = Retried(conn[c])]
             /\ UNCHANGED <<tcp_conns, kout, kout_pos>>
    <3>1. conn' \in [Conns -> ConnRec]
      BY <2>1, <2>2, <2>4, RetriedRec DEF Types
    <3>. QED  BY <2>1, <2>4, <3>1 DEF Types
  <2>. QED  BY <1>6, <2>3, <2>4, TimeoutFacts
<1>7. ASSUME NEW s \in Segment, ConnPacket(s) PROVE Types'
  <2>1. /\ UNCHANGED <<lst, ports, port_hint, async_q, arp, app_pos, tap, asked, told>>
        /\ kern' \in {"up", "abort"}
    BY <1>7, PacketFacts
  <2>2. ASSUME NEW cs \in [Conns -> ConnRec], NEW c \in Conns, ConnFailed(c, cs)
        PROVE  Types'
    <3>1. /\ conn' \in [Conns -> ConnRec] /\ tcp_conns' \in Seq(Conns)
          /\ kout' \in [0..KoutLen-1 -> Event] /\ kout_pos' \in 0..KoutLen-1
      BY <2>2, FailedFacts
    <3>. QED  BY <2>1, <3>1 DEF Types
  <2>3. CASE UNCHANGED <<conn, tcp_conns, kout, kout_pos>>
    BY <2>1, <2>3 DEF Types
  <2>4. ASSUME NEW c \in Conns PROVE [conn EXCEPT ![c] = Disarmed(conn[c])] \in [Conns -> ConnRec]
    BY DisarmedRec DEF Types
  <2>5. ASSUME NEW c \in Conns, NEW ecn \in BOOLEAN,
               conn' = [conn EXCEPT ![c] = Established(conn[c], ecn)],
               tcp_conns' = tcp_conns,
               PutEvent([ev |-> "opened", op |-> conn[c].req, st |-> "ok"])
        PROVE  Types'
    <3>1. conn' \in [Conns -> ConnRec]
      BY <2>5, EstablishedRec DEF Types
    <3>2. [ev |-> "opened", op |-> conn[c].req, st |-> "ok"] \in Event
      BY DEF Event, Types, ConnRec
    <3>3. kout' \in [0..KoutLen-1 -> Event] /\ kout_pos' \in 0..KoutLen-1
      BY <2>5, <3>2, PutFacts
    <3>. QED  BY <2>1, <2>5, <3>1, <3>3 DEF Types
  <2>6. conn \in [Conns -> ConnRec]
    BY DEF Types
  <2>. QED  BY <1>7, <2>2, <2>3, <2>4, <2>5, <2>6, PacketFacts DEF PacketCases
<1>8. ASSUME NEW s \in Segment, ListenerPacket(s) PROVE Types'
  <2> DEFINE l == ListenerFor(s)
             e == [peer |-> s.peer, ts |-> s.ts, ecn |-> s.kind = "SYN_ECN"]
             bl == Append(lst[l].backlog, e)
  <2>1. /\ l \in Listeners /\ lst[l].wait \in Seq(Conns) /\ bl \in Seq(Syn)
        /\ lst[l].backlog \in Seq(Syn) /\ e \in Syn
        /\ PutEvent([ev |-> "newconn", op |-> l, st |-> "ok"])
        /\ UNCHANGED <<ports, port_hint, arp, app_pos, tap, asked, told, kern>>
    BY <1>8, ListenerFacts
  <2>2. kout' \in [0..KoutLen-1 -> Event] /\ kout_pos' \in 0..KoutLen-1
    <3>1. [ev |-> "newconn", op |-> l, st |-> "ok"] \in Event
      BY <2>1 DEF Event
    <3>. QED  BY <2>1, <3>1, PutFacts
  <2>3. bl # <<>>
    BY <2>1, AppendList
  <2>4. conn \in [Conns -> ConnRec]
    BY DEF Types
  <2>5. \/ lst[l].wait # <<>> /\ ListenerAccept(l, bl, lst[l].wait, conn)
        \/ lst' = [lst EXCEPT ![l].backlog = bl] /\ UNCHANGED <<conn, tcp_conns, async_q>>
    BY <1>8, ListenerFacts
  <2>. HIDE DEF l, e, bl
  <2>6. CASE lst[l].wait # <<>> /\ ListenerAccept(l, bl, lst[l].wait, conn)
    <3>1. /\ conn' \in [Conns -> ConnRec] /\ tcp_conns' \in Seq(Conns)
          /\ lst' \in [Listeners -> ListenRec]
          /\ async_q' \in Seq([c : Conns, ok : BOOLEAN])
      BY <2>1, <2>3, <2>4, <2>6, AcceptFacts
    <3>. QED  BY <2>1, <2>2, <3>1 DEF Types
  <2>7. CASE lst' = [lst EXCEPT ![l].backlog = bl] /\ UNCHANGED <<conn, tcp_conns, async_q>>
    BY <2>1, <2>2, <2>7 DEF Types, ListenRec
  <2>. QED  BY <2>5, <2>6, <2>7
<1>9. ASSUME NEW t \in Tuples, TapSynAck(t) PROVE Types'
  <2>1. UNCHANGED <<tcp_conns, lst, ports, port_hint, async_q, arp, kout, kout_pos,
                    app_pos, asked, told, kern>>
    BY <1>9, TapFacts
  <2>2. CASE UNCHANGED <<conn, tap>>
    BY <2>1, <2>2 DEF Types
  <2>3. ASSUME NEW c \in Conns, conn' = [conn EXCEPT ![c] = SynAcked(conn[c])],
               tap' = Idle \/ tap' = [c |-> c, pos |-> kout_pos]
        PROVE  Types'
    <3>1. conn' \in [Conns -> ConnRec]
      BY <2>3, SynAckedRec DEF Types
    <3>2. /\ tap' \in [c : Conns \cup {NoConn}, pos : 0..KoutLen-1]
          /\ tap' # Idle => tap'.c \in Conns
      BY <2>3, TcpAssumption DEF Types, Idle
    <3>. QED  BY <2>1, <3>1, <3>2 DEF Types, Idle
  <2>. QED  BY <1>9, <2>2, <2>3, TapFacts
<1>10. ASSUME NEW t \in Tuples, PeerReceives(t) \/ LoseSynAck(t) PROVE Types'
  BY <1>10 DEF PeerReceives, LoseSynAck, Types, Idle
<1>11. CASE TapAccepted
  <2>1. UNCHANGED <<conn, tcp_conns, lst, ports, port_hint, async_q, arp, app_pos,
                    asked, told, kern>>
    BY <1>11 DEF TapAccepted
  <2>2. tap.c \in Conns /\ tap.pos \in 0..KoutLen-1
    BY <1>11 DEF TapAccepted, Types
  <2>3. [ev |-> "accepted", op |-> conn[tap.c].req, st |-> "ok"] \in Event
    BY <2>2 DEF Types, ConnRec, Event
  <2>4. kout' \in [0..KoutLen-1 -> Event] /\ kout_pos' \in 0..KoutLen-1
    BY <1>11, <2>2, <2>3, KoutNext DEF TapAccepted, Types
  <2>5. tap' = Idle /\ Idle \in [c : Conns \cup {NoConn}, pos : 0..KoutLen-1]
    BY <1>11, TcpAssumption DEF TapAccepted, Idle
  <2>. QED  BY <2>1, <2>4, <2>5 DEF Types, Idle
<1>12. CASE AppRead
  <2> DEFINE e == kout[app_pos]
  <2>1. UNCHANGED <<conn, tcp_conns, lst, ports, port_hint, async_q, arp, kout_pos,
                    tap, asked, kern>>
    BY <1>12 DEF AppRead
  <2>2. e \in Event /\ NoEvent \in Event /\ app_pos \in 0..KoutLen-1
    BY DEF Types, NoEvent, Event
  <2>3. kout' \in [0..KoutLen-1 -> Event] /\ app_pos' \in 0..KoutLen-1
    BY <1>12, <2>2, KoutNext DEF AppRead, Types
  <2>4. told' \in [Reqs -> Seq({"ok", "fail"})]
    <3>1. e.st \in {"ok", "fail"}
      BY <2>2 DEF Event
    <3>2. CASE e.op \in Reqs /\ told' = [told EXCEPT ![e.op] = Append(@, e.st)]
      <4>1. told[e.op] \in Seq({"ok", "fail"})
        BY <3>2 DEF Types
      <4>2. Append(told[e.op], e.st) \in Seq({"ok", "fail"})
        BY <3>1, <4>1
      <4>. QED  BY <3>2, <4>2 DEF Types
    <3>3. CASE told' = told
      BY <3>3 DEF Types
    <3>. QED  BY <1>12, <3>2, <3>3 DEF AppRead
  <2>. QED  BY <2>1, <2>3, <2>4 DEF Types, Idle
<1>13. CASE UNCHANGED vars
  BY <1>13 DEF vars, Types, Idle
<1>. QED  BY <1>1, <1>2, <1>3, <1>4, <1>5, <1>6, <1>7, <1>8, <1>9, <1>10, <1>11,
             <1>12, <1>13 DEF Next
-----------------------------------------------------------------------------
(* Lists of connections.                                                   *)

\* What may happen to a connection in the list, cr being its new contents.
LEMMA ListsUpdate ==
  ASSUME NEW cs \in [Conns -> ConnRec], NEW tc \in Seq(Conns),
         NEW w \in [Listeners -> Seq(Conns)],
         NEW c \in Conns, NEW cr \in ConnRec, ListsOn(cs, tc, w), c \in Range(tc),
         cr.st \in {"ARP_PENDING", "SYN_SENT", "REG_SYNACK", "OPEN"},
         cr.armed => cr.st = "SYN_SENT" /\ cr.attempts <= Retries
  PROVE  ListsOn([cs EXCEPT ![c] = cr], tc, w)
<1> DEFINE ks == [cs EXCEPT ![c] = cr]
<1>1. ks[c] = cr /\ \A d \in Conns : d # c => ks[d] = cs[d]
  OBVIOUS
<1>2. /\ Range(tc) \subseteq Conns
      /\ \A l \in Listeners : w[l] \in Seq(Conns) /\ Range(w[l]) \subseteq Conns
  BY RangeIn
<1> HIDE DEF ks
<1>3. ListsOn(ks, tc, w)
  BY <1>1, <1>2 DEF ListsOn
<1>. QED  BY <1>3 DEF ks

\* The first connection leaves the list.
LEMMA ListsPop ==
  ASSUME NEW cs \in [Conns -> ConnRec], NEW tc \in Seq(Conns),
         NEW w \in [Listeners -> Seq(Conns)],
         NEW c \in Conns, NEW cr \in ConnRec, ListsOn(cs, tc, w),
         tc # <<>>, c = Head(tc), cr.st \in {"FREE", "FAILED"}, cr.armed = FALSE
  PROVE  ListsOn([cs EXCEPT ![c] = cr], Tail(tc), w)
<1>1. Distinct(tc) /\ Distinct(Tail(tc))
  BY TailList DEF ListsOn
<1>2. Range(tc) = {c} \cup Range(Tail(tc)) /\ c \notin Range(Tail(tc))
  BY <1>1, TailList
<1> DEFINE ks == [cs EXCEPT ![c] = cr]
<1>3. ks[c] = cr /\ \A d \in Conns : d # c => ks[d] = cs[d]
  OBVIOUS
<1>4. /\ Range(tc) \subseteq Conns
      /\ \A l \in Listeners : w[l] \in Seq(Conns) /\ Range(w[l]) \subseteq Conns
  BY RangeIn
<1> HIDE DEF ks
<1>5. ListsOn(ks, Tail(tc), w)
  BY <1>1, <1>2, <1>3, <1>4 DEF ListsOn
<1>. QED  BY <1>5 DEF ks

\* A new connection enters the list.
LEMMA ListsPush ==
  ASSUME NEW cs \in [Conns -> ConnRec], NEW tc \in Seq(Conns),
         NEW w \in [Listeners -> Seq(Conns)],
         NEW c \in Conns, NEW cr \in ConnRec, ListsOn(cs, tc, w), cs[c].st = "FREE",
         cr.st \in {"ARP_PENDING", "SYN_SENT"},
         cr.armed => cr.st = "SYN_SENT" /\ cr.attempts <= Retries
  PROVE  ListsOn([cs EXCEPT ![c] = cr], <<c>> \o tc, w)
<1>1. c \notin Range(tc) /\ \A l \in Listeners : c \notin Range(w[l])
  BY DEF ListsOn
<1>2. Distinct(<<c>> \o tc) /\ Range(<<c>> \o tc) = {c} \cup Range(tc)
  BY <1>1, ConsList DEF ListsOn
<1> DEFINE ks == [cs EXCEPT ![c] = cr]
<1>3. ks[c] = cr /\ \A d \in Conns : d # c => ks[d] = cs[d]
  OBVIOUS
<1>4. /\ Range(tc) \subseteq Conns
      /\ \A l \in Listeners : w[l] \in Seq(Conns) /\ Range(w[l]) \subseteq Conns
  BY RangeIn
<1> HIDE DEF ks
<1>5. ListsOn(ks, <<c>> \o tc, w)
  BY <1>1, <1>2, <1>3, <1>4 DEF ListsOn
<1>. QED  BY <1>5 DEF ks

\* A new connection waits at a listener.
LEMMA ListsWait ==
  ASSUME NEW cs \in [Conns -> ConnRec], NEW tc \in Seq(Conns),
         NEW w \in [Listeners -> Seq(Conns)], NEW l \in Listeners,
         NEW c \in Conns, NEW cr \in ConnRec, ListsOn(cs, tc, w), cs[c].st = "FREE",
         cr.st = "SYN_WAIT", cr.armed = FALSE
  PROVE  ListsOn([cs EXCEPT ![c] = cr], tc, [w EXCEPT ![l] = <<c>> \o w[l]])
<1>1. c \notin Range(tc) /\ \A m \in Listeners : c \notin Range(w[m])
  BY DEF ListsOn
<1>2. Distinct(<<c>> \o w[l]) /\ Range(<<c>> \o w[l]) = {c} \cup Range(w[l])
  BY <1>1, ConsList DEF ListsOn
<1>. QED  BY <1>1, <1>2 DEF ListsOn

\* A waiting connection is registered, and keeps waiting.
LEMMA ListsRegister ==
  ASSUME NEW cs \in [Conns -> ConnRec], NEW tc \in Seq(Conns),
         NEW w \in [Listeners -> Seq(Conns)], NEW l \in Listeners,
         NEW c \in Conns, NEW cr \in ConnRec, ListsOn(cs, tc, w), c \in Range(w[l]),
         cr.st = "REG_SYNACK", cr.armed = cs[c].armed
  PROVE  ListsOn([cs EXCEPT ![c] = cr], tc, w)
BY DEF ListsOn

\* A waiting connection leaves for the global list.
LEMMA ListsMove ==
  ASSUME NEW cs \in [Conns -> ConnRec], NEW tc \in Seq(Conns),
         NEW w \in [Listeners -> Seq(Conns)], NEW l \in Listeners,
         NEW c \in Conns, NEW cr \in ConnRec, ListsOn(cs, tc, w),
         w[l] # <<>>, c = Head(w[l]), cr.st = "REG_SYNACK", cr.armed = cs[c].armed
  PROVE  ListsOn([cs EXCEPT ![c] = cr], <<c>> \o tc, [w EXCEPT ![l] = Tail(w[l])])
<1>1. Distinct(Tail(w[l])) /\ Range(w[l]) = {c} \cup Range(Tail(w[l]))
      /\ c \notin Range(Tail(w[l]))
  <2>1. w[l] \in Seq(Conns) /\ Distinct(w[l])
    BY DEF ListsOn
  <2>. QED  BY <2>1, TailList
<1>2. c \notin Range(tc) /\ \A m \in Listeners : m # l => c \notin Range(w[m])
  BY <1>1 DEF ListsOn
<1>3. Distinct(<<c>> \o tc) /\ Range(<<c>> \o tc) = {c} \cup Range(tc)
  BY <1>2, ConsList DEF ListsOn
<1>4. ~cr.armed
  BY <1>1 DEF ListsOn
<1> DEFINE v == [w EXCEPT ![l] = Tail(w[l])]
<1>5. v[l] = Tail(w[l]) /\ \A m \in Listeners : m # l => v[m] = w[m]
  OBVIOUS
<1>6. \A m \in Listeners : Range(v[m]) \subseteq Range(w[m]) /\ c \notin Range(v[m])
  BY <1>1, <1>2, <1>5
<1>7. \A m \in Listeners : Distinct(v[m])
  BY <1>1, <1>5 DEF ListsOn
<1> DEFINE ks == [cs EXCEPT ![c] = cr]
<1>8. ks[c] = cr /\ \A d \in Conns : d # c => ks[d] = cs[d]
  OBVIOUS
<1>9. /\ Range(tc) \subseteq Conns
      /\ \A m \in Listeners : w[m] \in Seq(Conns) /\ Range(w[m]) \subseteq Conns
  BY RangeIn
<1> HIDE DEF ks
<1> HIDE DEF v
<1> DEFINE t == <<c>> \o tc
<1> HIDE DEF t
<1>10. Distinct(t) /\ Range(t) = {c} \cup Range(tc)
  BY <1>3 DEF t
<1>11. \A d \in Range(t) : ks[d].st \in {"ARP_PENDING", "SYN_SENT", "REG_SYNACK", "OPEN"}
  BY <1>8, <1>9, <1>10 DEF ListsOn
<1>12. \A d \in Conns : ks[d].st \in {"ARP_PENDING", "SYN_SENT"} => d \in Range(t)
  BY <1>8, <1>10 DEF ListsOn
<1>13. \A d \in Conns :
         ks[d].armed => ks[d].st = "SYN_SENT" /\ ks[d].attempts <= Retries
  BY <1>4, <1>8 DEF ListsOn
<1>14. \A m \in Listeners : \A d \in Range(v[m]) :
         ks[d].st \in {"SYN_WAIT", "REG_SYNACK"} /\ d \notin Range(t)
  <2>. SUFFICES ASSUME NEW m \in Listeners, NEW d \in Range(v[m])
                PROVE  ks[d].st \in {"SYN_WAIT", "REG_SYNACK"} /\ d \notin Range(t)
    OBVIOUS
  <2>1. d \in Range(w[m]) /\ d # c /\ d \in Conns
    BY <1>6, <1>9
  <2>2. cs[d].st \in {"SYN_WAIT", "REG_SYNACK"} /\ d \notin Range(tc)
    BY <2>1 DEF ListsOn
  <2>. QED  BY <1>8, <1>10, <2>1, <2>2
<1>15. \A m, n \in Listeners : m # n => Range(v[m]) \cap Range(v[n]) = {}
  <2>1. \A m, n \in Listeners : m # n => Range(w[m]) \cap Range(w[n]) = {}
    BY DEF ListsOn
  <2>. QED  BY <1>6, <2>1
<1>16. ListsOn(ks, t, v)
  BY <1>7, <1>10, <1>11, <1>12, <1>13, <1>14, <1>15 DEF ListsOn
<1>. QED  BY <1>16 DEF v, ks, t

LEMMA WaitsType ==
  ASSUME Types
  PROVE  Waits \in [Listeners -> Seq(Conns)] /\ Backlogs \in [Listeners -> Seq(Syn)]
BY DEF Types, ListenRec, Waits, Backlogs

LEMMA ListsFail ==
  ASSUME Types, Lists, NEW c \in Conns, NEW cr \in ConnRec, c \in Listed,
         cr.st = conn[c].st, cr.armed = FALSE,
         ConnFailed(c, [conn EXCEPT ![c] = cr]), lst' = lst
  PROVE  Lists'
<1> DEFINE cs == [conn EXCEPT ![c] = cr]
<1>1. conn \in [Conns -> ConnRec] /\ cs \in [Conns -> ConnRec] /\ tcp_conns \in Seq(Conns)
  BY DEF Types
<1>2. ListsOn(cs, tcp_conns, Waits)
  <2>1. cr.st \in {"ARP_PENDING", "SYN_SENT", "REG_SYNACK", "OPEN"}
    BY DEF Lists, ListsOn, Listed
  <2>. QED  BY <1>1, <2>1, WaitsType, ListsUpdate DEF Lists, Listed
<1>3. Waits' = Waits
  BY DEF Waits
<1>4. cs[c] \in ConnRec /\ FailedRec(cs[c]) \in ConnRec
      /\ FailedRec(cs[c]).st = "FAILED" /\ FailedRec(cs[c]).armed = FALSE
  BY <1>1, FailedRecFacts
<1> HIDE DEF cs
<1>5. CASE tcp_conns # <<>> /\ c = Head(tcp_conns) /\ tcp_conns' = Tail(tcp_conns)
           /\ (Freed(c, cs) \/ LeftFailed(c, cs))
  <2>1. CASE Freed(c, cs)
    <3>1. ListsOn([cs EXCEPT ![c] = FreeConn], Tail(tcp_conns), Waits)
      BY <1>1, <1>2, <1>5, WaitsType, FreeRec, ListsPop
    <3>. QED  BY <1>3, <1>5, <2>1, <3>1 DEF Freed, Lists
  <2>2. CASE LeftFailed(c, cs)
    <3>1. ListsOn([cs EXCEPT ![c] = FailedRec(cs[c])], Tail(tcp_conns), Waits)
      BY <1>1, <1>2, <1>4, <1>5, WaitsType, ListsPop
    <3>. QED  BY <1>3, <1>5, <2>2, <3>1 DEF LeftFailed, Lists
  <2>. QED  BY <1>5, <2>1, <2>2
<1>6. CASE conn' = cs /\ tcp_conns' = tcp_conns
  BY <1>2, <1>3, <1>6 DEF Lists
<1>. QED  BY <1>1, <1>5, <1>6, FailedFacts DEF cs

LEMMA ListsAccept ==
  ASSUME Types, NEW l \in Listeners, NEW bl \in Seq(Syn), bl # <<>>,
         NEW wait \in Seq(Conns), wait # <<>>, NEW cs \in [Conns -> ConnRec],
         ListsOn(cs, tcp_conns, [Waits EXCEPT ![l] = wait]),
         ListenerAccept(l, bl, wait, cs)
  PROVE  Lists'
<1> DEFINE w == [Waits EXCEPT ![l] = wait]
           c == Head(wait)
           e == Head(bl)
           cr == Registered(cs[c], e)
<1>1. /\ c \in Conns /\ e \in Syn /\ lst' \in [Listeners -> ListenRec]
      /\ \A m \in Listeners : m # l => lst'[m] = lst[m]
  BY AcceptFacts
<1>2. /\ cr \in ConnRec /\ cr.st = "REG_SYNACK" /\ cr.armed = cs[c].armed
  BY <1>1, RegisteredRec
<1>3. Waits' = [w EXCEPT ![l] = lst'[l].wait]
  BY <1>1 DEF Waits
<1>4. /\ w \in [Listeners -> Seq(Conns)] /\ w[l] = wait /\ tcp_conns \in Seq(Conns)
      /\ c \in Range(w[l])
  BY WaitsType, TailList DEF Types
<1>5. ListsOn(cs, tcp_conns, w)
  OBVIOUS
<1>6. \/ /\ lst'[l].wait = wait
         /\ conn' = cs \/ conn' = [cs EXCEPT ![c] = cr]
         /\ tcp_conns' = tcp_conns /\ async_q' = async_q
      \/ /\ e.ts
         /\ lst'[l].wait = Tail(wait)
         /\ conn' = [cs EXCEPT ![c] = cr]
         /\ tcp_conns' = <<c>> \o tcp_conns
         /\ async_q' = Append(async_q, [c |-> c, ok |-> TRUE])
  BY AcceptFacts, Zenon
<1>7. wait = w[l] /\ c = Head(w[l]) /\ w[l] # <<>>
  BY <1>4
<1> HIDE DEF w, c, e, cr
<1>8. CASE /\ lst'[l].wait = wait
           /\ conn' = cs \/ conn' = [cs EXCEPT ![c] = cr]
           /\ tcp_conns' = tcp_conns
  <2>1. Waits' = w
    BY <1>3, <1>4, <1>8
  <2>2. ListsOn([cs EXCEPT ![c] = cr], tcp_conns, w)
    BY <1>1, <1>2, <1>4, <1>5, ListsRegister
  <2>. QED  BY <1>5, <1>8, <2>1, <2>2 DEF Lists
<1>9. CASE /\ lst'[l].wait = Tail(wait)
           /\ conn' = [cs EXCEPT ![c] = cr]
           /\ tcp_conns' = <<c>> \o tcp_conns
  <2>1. ListsOn([cs EXCEPT ![c] = cr], <<c>> \o tcp_conns, [w EXCEPT ![l] = Tail(w[l])])
    BY <1>1, <1>2, <1>4, <1>5, <1>7, ListsMove
  <2>. QED  BY <1>3, <1>7, <1>9, <2>1 DEF Lists
<1>. QED  BY <1>6, <1>8, <1>9

LEMMA ListsStep ==
  ASSUME Types, Lists, [Next]_vars
  PROVE  Lists'
<1> USE WaitsType
<1>0. conn \in [Conns -> ConnRec] /\ tcp_conns \in Seq(Conns)
  BY DEF Types
<1>1. ASSUME NEW r \in Opens, NEW p \in Peers, KinConnOpen(r, p) PROVE Lists'
  <2>1. Waits' = Waits /\ r \in Reqs
    BY <1>1, OpenFacts DEF Waits
  <2>2. CASE NoAlloc
    BY <2>1, <2>2 DEF NoAlloc, Lists
  <2>3. CASE \E port \in PortAlloc \ {0}, c \in FreeConns, resolved \in BOOLEAN :
               Alloc(r, p, port, c, resolved)
    <3>1. PICK port \in PortAlloc \ {0}, c \in FreeConns, resolved \in BOOLEAN :
                 Alloc(r, p, port, c, resolved)
      BY <2>3
    <3>2. c \in Conns /\ conn[c].st = "FREE" /\ tcp_conns' = <<c>> \o tcp_conns
      BY <2>1, <3>1, AllocFacts
    <3>3. PICK cr \in ConnRec : IsNew(cr, r, p, port, c)
      BY <2>1, <3>1, AllocFacts
    <3>4. ListsOn([conn EXCEPT ![c] = cr], <<c>> \o tcp_conns, Waits)
      BY <1>0, <3>2, <3>3, ListsPush DEF Lists, IsNew
    <3>. QED  BY <2>1, <3>2, <3>3, <3>4 DEF Lists, IsNew
  <2>. QED  BY <1>1, <2>2, <2>3, OpenFacts
<1>2. ASSUME NEW l \in Listeners, NEW reuse \in BOOLEAN, KinListenOpen(l, reuse)
      PROVE  Lists'
  <2>1. UNCHANGED <<conn, tcp_conns>> /\ (lst' = lst \/ Listens(l))
    BY <1>2, ListenFacts
  <2>2. Waits' = Waits
    BY <1>2, <2>1, ListensFacts DEF Waits
  <2>. QED  BY <2>1, <2>2 DEF Lists
<1>3. ASSUME NEW r \in Accepts, NEW l \in Listeners, KinAcceptConn(r, l)
      PROVE  Lists'
  <2>1. CASE UNCHANGED <<conn, tcp_conns, lst, async_q>>
    BY <2>1 DEF Lists, Waits
  <2>2. ASSUME NEW c \in FreeConns, NEW cs \in [Conns -> ConnRec], NEW wait \in Seq(Conns),
               cs = [conn EXCEPT ![c] = Accepted(r, ListenPort[l])],
               wait = <<c>> \o lst[l].wait,
               \/ lst[l].backlog # <<>> /\ ListenerAccept(l, lst[l].backlog, wait, cs)
               \/ /\ conn' = cs /\ lst' = [lst EXCEPT ![l].wait = wait]
                  /\ UNCHANGED <<tcp_conns, async_q>>
        PROVE  Lists'
    <3>1. /\ r \in Reqs /\ ListenPort[l] \in Ports /\ lst[l].wait \in Seq(Conns)
          /\ lst[l].backlog \in Seq(Syn)
      BY <1>3, AcceptConnFacts
    <3>2. c \in Conns /\ conn[c].st = "FREE" /\ wait # <<>> /\ lst[l].wait = Waits[l]
      BY <2>2, <3>1, ConsList DEF FreeConns, Waits
    <3>3. ListsOn(cs, tcp_conns, [Waits EXCEPT ![l] = wait])
      <4> DEFINE cr == Accepted(r, ListenPort[l])
      <4>1. cr \in ConnRec /\ cr.st = "SYN_WAIT" /\ cr.armed = FALSE
        BY <3>1, AcceptedRec
      <4>2. cs = [conn EXCEPT ![c] = cr] /\ wait = <<c>> \o Waits[l]
        BY <2>2, <3>2
      <4> HIDE DEF cr
      <4>3. ListsOn([conn EXCEPT ![c] = cr], tcp_conns, [Waits EXCEPT ![l] = <<c>> \o Waits[l]])
        BY <1>0, <3>2, <4>1, ListsWait DEF Lists
      <4>. QED  BY <4>2, <4>3
    <3>4. CASE lst[l].backlog # <<>> /\ ListenerAccept(l, lst[l].backlog, wait, cs)
      BY <3>1, <3>2, <3>3, <3>4, ListsAccept
    <3>5. CASE /\ conn' = cs /\ lst' = [lst EXCEPT ![l].wait = wait]
               /\ UNCHANGED <<tcp_conns, async_q>>
      <4>1. Waits' = [Waits EXCEPT ![l] = wait]
        BY <3>5 DEF Waits, Types, ListenRec
      <4>. QED  BY <3>3, <3>5, <4>1 DEF Lists
    <3>. QED  BY <2>2, <3>4, <3>5
  <2>. QED  BY <1>3, <2>1, <2>2, AcceptConnFacts
<1>4. ASSUME NEW c \in Conns, NEW ok \in BOOLEAN, ArpComplete(c, ok)
      PROVE  Lists'
  BY <1>4 DEF ArpComplete, Lists, Waits
<1>5. CASE TcpPoll
  <2> DEFINE e == Head(async_q)
  <2>1. e.c \in Conns /\ lst' = lst
    <3>1. async_q \in Seq([c : Conns, ok : BOOLEAN]) /\ async_q # <<>>
      BY <1>5 DEF TcpPoll, Types
    <3>2. e \in [c : Conns, ok : BOOLEAN]
      BY <3>1, TailList
    <3>. QED  BY <1>5, <3>2 DEF TcpPoll
  <2>2. Waits' = Waits
    BY <2>1 DEF Waits
  <2>3. CASE UNCHANGED <<conn, tcp_conns, kout, kout_pos>>
    BY <2>2, <2>3 DEF Lists
  <2>4. CASE conn[e.c].st = "ARP_PENDING"
    <3>1. e.c \in Listed /\ ~conn[e.c].armed /\ conn[e.c] \in ConnRec
      BY <1>0, <2>1, <2>4 DEF Lists, ListsOn, Listed
    <3>2. CASE /\ conn' = [conn EXCEPT ![e.c] = SynSent(@)]
               /\ UNCHANGED <<tcp_conns, kout, kout_pos>>
      <4>1. /\ SynSent(conn[e.c]) \in ConnRec /\ SynSent(conn[e.c]).st = "SYN_SENT"
            /\ SynSent(conn[e.c]).attempts <= Retries
        BY <3>1, SynSentRec, TcpAssumption
      <4>2. ListsOn([conn EXCEPT ![e.c] = SynSent(conn[e.c])], tcp_conns, Waits)
        BY <1>0, <2>1, <3>1, <4>1, ListsUpdate DEF Lists, Listed
      <4>. QED  BY <2>2, <3>2, <4>2 DEF Lists
    <3>3. CASE ConnFailed(e.c, conn)
      <4>1. conn = [conn EXCEPT ![e.c] = conn[e.c]]
        BY <1>0, <2>1
      <4>2. conn[e.c].armed = FALSE
        BY <3>1 DEF ConnRec
      <4>. QED  BY <2>1, <3>1, <3>3, <4>1, <4>2, ListsFail
    <3>. QED  BY <1>5, <2>4, <3>2, <3>3 DEF TcpPoll
  <2>. QED  BY <1>5, <2>3, <2>4 DEF TcpPoll
<1>6. ASSUME NEW c \in Conns, TcpTimeout(c) PROVE Lists'
  <2>1. /\ conn[c].armed /\ conn[c].st = "SYN_SENT" /\ conn[c].attempts <= Retries
        /\ lst' = lst
    BY <1>6, TimeoutFacts
  <2>2. c \in Listed /\ conn[c] \in ConnRec
    BY <1>0, <2>1 DEF Lists, ListsOn, Listed
  <2>3. CASE ConnFailed(c, [conn EXCEPT ![c] = Expired(conn[c])])
    BY <2>1, <2>2, <2>3, ExpiredRec, ListsFail
  <2>4. CASE /\ conn' = [conn EXCEPT ![c] = Retried(conn[c])]
             /\ conn[c].attempts + 1 <= Retries
             /\ UNCHANGED <<tcp_conns, kout, kout_pos>>
    <3>1. /\ Retried(conn[c]) \in ConnRec /\ Retried(conn[c]).st = "SYN_SENT"
          /\ Retried(conn[c]).attempts <= Retries
      BY <2>1, <2>2, <2>4, RetriedRec
    <3>2. ListsOn([conn EXCEPT ![c] = Retried(conn[c])], tcp_conns, Waits)
      BY <1>0, <2>2, <3>1, ListsUpdate DEF Lists, Listed
    <3>. QED  BY <2>1, <2>4, <3>2 DEF Lists, Waits
  <2>. QED  BY <1>6, <2>3, <2>4, TimeoutFacts
<1>7. ASSUME NEW s \in Segment, ConnPacket(s) PROVE Lists'
  <2>1. lst' = lst /\ Waits' = Waits
    BY <1>7, PacketFacts DEF Waits
  <2>2. CASE UNCHANGED <<conn, tcp_conns, kout, kout_pos>>
    BY <2>1, <2>2 DEF Lists
  <2>3. ASSUME NEW c \in Conns, c \in Listed,
               ConnFailed(c, [conn EXCEPT ![c] = Disarmed(conn[c])])
        PROVE  Lists'
    <3>1. conn[c] \in ConnRec
      BY <1>0
    <3>. QED  BY <2>1, <2>3, <3>1, DisarmedRec, ListsFail
  <2>4. ASSUME NEW c \in Conns, c \in Listed, conn[c].st = "OPEN", ConnFailed(c, conn)
        PROVE  Lists'
    <3>1. conn[c] \in ConnRec
      BY <1>0
    <3>2. conn = [conn EXCEPT ![c] = conn[c]]
      BY <1>0
    <3>3. ~conn[c].armed
      BY <2>4 DEF Lists, ListsOn
    <3>4. conn[c].armed = FALSE
      BY <3>1, <3>3 DEF ConnRec
    <3>. QED  BY <2>1, <2>4, <3>1, <3>2, <3>4, ListsFail
  <2>5. ASSUME NEW c \in Conns, c \in Listed, NEW ecn \in BOOLEAN,
               conn' = [conn EXCEPT ![c] = Established(conn[c], ecn)],
               tcp_conns' = tcp_conns
        PROVE  Lists'
    <3>1. conn[c] \in ConnRec
      BY <1>0
    <3>2. /\ Established(conn[c], ecn) \in ConnRec /\ Established(conn[c], ecn).st = "OPEN"
          /\ Established(conn[c], ecn).armed = FALSE
      BY <3>1, EstablishedRec
    <3>3. ListsOn([conn EXCEPT ![c] = Established(conn[c], ecn)], tcp_conns, Waits)
      BY <1>0, <2>5, <3>2, ListsUpdate DEF Lists, Listed
    <3>. QED  BY <2>1, <2>5, <3>3 DEF Lists
  <2>. QED  BY <1>7, <2>2, <2>3, <2>4, <2>5, PacketFacts DEF PacketCases, OpenNoTs
<1>8. ASSUME NEW s \in Segment, ListenerPacket(s) PROVE Lists'
  <2> DEFINE l == ListenerFor(s)
             e == [peer |-> s.peer, ts |-> s.ts, ecn |-> s.kind = "SYN_ECN"]
             bl == Append(lst[l].backlog, e)
  <2>1. /\ l \in Listeners /\ lst[l].wait \in Seq(Conns) /\ bl \in Seq(Syn)
        /\ lst[l].backlog \in Seq(Syn) /\ e \in Syn
    BY <1>8, ListenerFacts
  <2>2. bl # <<>>
    BY <2>1, AppendList
  <2>3. \/ lst[l].wait # <<>> /\ ListenerAccept(l, bl, lst[l].wait, conn)
        \/ lst' = [lst EXCEPT ![l].backlog = bl] /\ UNCHANGED <<conn, tcp_conns, async_q>>
    BY <1>8, ListenerFacts
  <2>. HIDE DEF l, e, bl
  <2>4. CASE lst[l].wait # <<>> /\ ListenerAccept(l, bl, lst[l].wait, conn)
    <3>1. [Waits EXCEPT ![l] = lst[l].wait] = Waits
      BY <2>1 DEF Waits
    <3>. QED  BY <1>0, <2>1, <2>2, <2>4, <3>1, ListsAccept DEF Lists
  <2>5. CASE lst' = [lst EXCEPT ![l].backlog = bl] /\ UNCHANGED <<conn, tcp_conns, async_q>>
    <3>1. Waits' = Waits
      BY <2>1, <2>5 DEF Waits, Types, ListenRec
    <3>. QED  BY <2>5, <3>1 DEF Lists
  <2>. QED  BY <2>3, <2>4, <2>5
<1>9. ASSUME NEW t \in Tuples, TapSynAck(t) PROVE Lists'
  <2>1. tcp_conns' = tcp_conns /\ Waits' = Waits
    BY <1>9, TapFacts DEF Waits
  <2>2. CASE UNCHANGED <<conn, tap>>
    BY <2>1, <2>2 DEF Lists
  <2>3. ASSUME NEW c \in Conns, c \in Listed, conn[c].st = "REG_SYNACK",
               conn' = [conn EXCEPT ![c] = SynAcked(conn[c])]
        PROVE  Lists'
    <3>1. conn[c] \in ConnRec
      BY <1>0
    <3>2. ~conn[c].armed
      BY <2>3 DEF Lists, ListsOn
    <3>3. ListsOn([conn EXCEPT ![c] = SynAcked(conn[c])], tcp_conns, Waits)
      BY <1>0, <2>3, <3>1, <3>2, SynAckedRec, ListsUpdate DEF Lists, Listed
    <3>. QED  BY <2>1, <2>3, <3>3 DEF Lists
  <2>. QED  BY <1>9, <2>2, <2>3, TapFacts
<1>10. ASSUME NEW t \in Tuples, PeerReceives(t) \/ LoseSynAck(t) PROVE Lists'
  BY <1>10 DEF PeerReceives, LoseSynAck, Lists, Waits
<1>11. CASE TapAccepted
  BY <1>11 DEF TapAccepted, Lists, Waits
<1>12. CASE AppRead
  BY <1>12 DEF AppRead, Lists, Waits
<1>13. CASE UNCHANGED vars
  BY <1>13 DEF vars, Lists, Waits
<1>. QED  BY <1>1, <1>2, <1>3, <1>4, <1>5, <1>6, <1>7, <1>8, <1>9, <1>10, <1>11,
             <1>12, <1>13 DEF Next

LEMMA EmptyLists ==
  ASSUME Init
  PROVE  /\ Range(tcp_conns) = {} /\ \A c \in Conns : conn[c] = FreeConn
         /\ \A l \in Listeners : Waits[l] = <<>> /\ Backlogs[l] = <<>> /\ ~lst[l].open
         /\ tcp_conns = <<>>
BY DEF Init, Range, Waits, Backlogs

LEMMA InitLists == Init => Types /\ Lists
<1>. SUFFICES ASSUME Init PROVE Types /\ Lists
  OBVIOUS
<1>1. Types
  <2>1. conn \in [Conns -> ConnRec]
    BY FreeRec DEF Init
  <2>2. lst \in [Listeners -> ListenRec] /\ ports \in [Ports -> PortRec]
    BY DEF Init, ListenRec, PortRec
  <2>3. kout \in [0..KoutLen-1 -> Event] /\ 0 \in 0..KoutLen-1
    BY TcpAssumption DEF Init, NoEvent, Event
  <2>4. port_hint \in Searched
    BY DEF Init
  <2>5. told \in [Reqs -> Seq({"ok", "fail"})]
    BY DEF Init
  <2>. QED  BY <2>1, <2>2, <2>3, <2>4, <2>5 DEF Init, Types, Idle
<1>2. Lists
  <2>1. Range(tcp_conns) = {} /\ Distinct(tcp_conns)
    BY EmptyLists DEF Init, Distinct
  <2>2. \A l \in Listeners : Range(Waits[l]) = {} /\ Distinct(Waits[l])
    BY EmptyLists DEF Range, Distinct
  <2>3. \A c \in Conns : conn[c].st = "FREE" /\ ~conn[c].armed
    BY EmptyLists, FreeRec
  <2>. QED  BY <2>1, <2>2, <2>3 DEF Lists, ListsOn
<1>. QED  BY <1>1, <1>2

\* tcp.c: the global list, the lists of the listeners and the states of the
\* connections agree, whatever fails, and only a listed connection in SYN_SENT
\* has a timeout.
THEOREM ListsInvariant == Spec => [](Types /\ Lists)
<1>1. Types /\ Lists /\ [Next]_vars => (Types /\ Lists)'
  BY TypesStep, ListsStep
<1>. QED  BY <1>1, InitLists, PTL DEF Spec

LEMMA TypesTypeOK == Types => TypeOK
BY DEF Types, TypeOK, ConnRec, Range

\* Whatever fails and however segments, completions and the TAP thread
\* interleave, a handshake timeout is armed only while the connection is in the
\* list and waits for the SYN-ACK.
THEOREM HandshakeTimeouts == Spec => []TimeoutHitsHandshake
<1>1. Types /\ Lists => TimeoutHitsHandshake
  BY DEF Lists, ListsOn, TimeoutHitsHandshake
<1>. QED  BY <1>1, ListsInvariant, PTL

-----------------------------------------------------------------------------
(* Completions.                                                            *)

LEMMA CompConn ==
  ASSUME NEW aq \in Seq([c : Conns, ok : BOOLEAN]), NEW i \in DOMAIN aq
  PROVE  aq[i].c \in Conns
<1>1. aq[i] \in [c : Conns, ok : BOOLEAN]
  BY SeqElem
<1>. QED  BY <1>1

\* A connection in the list changes.
LEMMA CompsUpdate ==
  ASSUME NEW cs \in [Conns -> ConnRec], NEW tc \in Seq(Conns),
         NEW aq \in Seq([c : Conns, ok : BOOLEAN]), NEW ar \in SUBSET Conns,
         NEW c \in Conns, NEW cr \in ConnRec, CompsOn(cs, tc, aq, ar),
         cr.st = cs[c].st \/ c \notin ar,
         \/ cr.st = cs[c].st
         \/ cr.st \in {"ARP_PENDING", "REG_SYNACK", "OPEN"}
         \/ \A i \in DOMAIN aq : aq[i].c # c
  PROVE  CompsOn([cs EXCEPT ![c] = cr], tc, aq, ar)
<1> DEFINE ks == [cs EXCEPT ![c] = cr]
<1>1. ks[c] = cr /\ \A d \in Conns : d # c => ks[d] = cs[d]
  OBVIOUS
<1>2. Range(tc) \subseteq Conns /\ \A i \in DOMAIN aq : aq[i].c \in Conns
  BY RangeIn, CompConn
<1> HIDE DEF ks
<1>3. CompsOn(ks, tc, aq, ar)
  BY <1>1, <1>2 DEF CompsOn
<1>. QED  BY <1>3 DEF ks

\* The first connection leaves the list; it has no completion.
LEMMA CompsPop ==
  ASSUME NEW cs \in [Conns -> ConnRec], NEW tc \in Seq(Conns),
         NEW aq \in Seq([c : Conns, ok : BOOLEAN]), NEW ar \in SUBSET Conns,
         NEW c \in Conns, NEW cr \in ConnRec, CompsOn(cs, tc, aq, ar),
         Distinct(tc), tc # <<>>, c = Head(tc), c \notin ar,
         \A i \in DOMAIN aq : aq[i].c # c
  PROVE  CompsOn([cs EXCEPT ![c] = cr], Tail(tc), aq, ar)
<1> DEFINE ks == [cs EXCEPT ![c] = cr]
<1>1. ks[c] = cr /\ \A d \in Conns : d # c => ks[d] = cs[d]
  OBVIOUS
<1>2. Range(tc) \subseteq Conns /\ \A i \in DOMAIN aq : aq[i].c \in Conns
  BY RangeIn, CompConn
<1>3. Range(tc) = {c} \cup Range(Tail(tc)) /\ c \notin Range(Tail(tc))
  BY TailList
<1> HIDE DEF ks
<1>4. CompsOn(ks, Tail(tc), aq, ar)
  BY <1>1, <1>2, <1>3 DEF CompsOn
<1>. QED  BY <1>4 DEF ks

\* A connection that is in no list enters the global one.
LEMMA CompsPush ==
  ASSUME NEW cs \in [Conns -> ConnRec], NEW tc \in Seq(Conns),
         NEW aq \in Seq([c : Conns, ok : BOOLEAN]), NEW ar \in SUBSET Conns,
         NEW c \in Conns, NEW cr \in ConnRec, CompsOn(cs, tc, aq, ar),
         c \notin Range(tc), c \notin ar
  PROVE  CompsOn([cs EXCEPT ![c] = cr], <<c>> \o tc, aq, ar)
<1> DEFINE ks == [cs EXCEPT ![c] = cr]
<1>1. ks[c] = cr /\ \A d \in Conns : d # c => ks[d] = cs[d]
  OBVIOUS
<1>2. Range(tc) \subseteq Conns /\ \A i \in DOMAIN aq : aq[i].c \in Conns
  BY RangeIn, CompConn
<1>3. Range(<<c>> \o tc) = {c} \cup Range(tc)
  BY ConsList
<1> DEFINE t == <<c>> \o tc
<1> HIDE DEF ks, t
<1>4. \A i \in DOMAIN aq : aq[i].c # c
  BY DEF CompsOn
<1>5. Range(t) = {c} \cup Range(tc)
  BY <1>3 DEF t
<1>6. CompsOn(ks, t, aq, ar)
  BY <1>1, <1>2, <1>4, <1>5 DEF CompsOn
<1>. QED  BY <1>6 DEF ks, t

\* A completion is queued, or taken off the queue.
LEMMA CompsAppend ==
  ASSUME NEW cs, NEW tc, NEW aq \in Seq([c : Conns, ok : BOOLEAN]), NEW ar, NEW bl,
         NEW c \in Conns, NEW ok \in BOOLEAN, CompsOn(cs, tc, aq, ar),
         c \in Range(tc) \ ar, \A i \in DOMAIN aq : aq[i].c # c,
         cs[c].st \in {"ARP_PENDING", "REG_SYNACK", "OPEN"}
  PROVE  CompsOn(cs, tc, Append(aq, [c |-> c, ok |-> ok]), ar)
<1> DEFINE e == [c |-> c, ok |-> ok]
           q == Append(aq, e)
           n == Len(aq) + 1
<1>1. /\ DOMAIN q = DOMAIN aq \cup {n} /\ n \notin DOMAIN aq
      /\ \A i \in DOMAIN aq : q[i] = aq[i]
      /\ q[n] = e
  BY AppendList
<1>2. e.c = c
  OBVIOUS
<1> HIDE DEF e, q, n
<1>3. \A i \in DOMAIN q :
        q[i].c \in Range(tc) \ ar /\ cs[q[i].c].st \in {"ARP_PENDING", "REG_SYNACK", "OPEN"}
  BY <1>1, <1>2 DEF CompsOn
<1>4. \A i, j \in DOMAIN q : q[i].c = q[j].c => i = j
  BY <1>1, <1>2 DEF CompsOn
<1>5. CompsOn(cs, tc, q, ar)
  BY <1>3, <1>4 DEF CompsOn
<1>. QED  BY <1>5 DEF q, e

LEMMA CompsTail ==
  ASSUME NEW cs, NEW tc, NEW aq \in Seq([c : Conns, ok : BOOLEAN]), NEW ar, NEW bl,
         CompsOn(cs, tc, aq, ar), aq # <<>>
  PROVE  /\ CompsOn(cs, tc, Tail(aq), ar)
         /\ Head(aq).c \in Range(tc) \ ar
         /\ \A i \in DOMAIN Tail(aq) : Tail(aq)[i].c # Head(aq).c
<1>1. \A i \in DOMAIN Tail(aq) : i + 1 \in DOMAIN aq /\ Tail(aq)[i] = aq[i + 1] /\ i \in 1 .. Len(aq)
  BY TailList
<1>2. Head(aq) = aq[1] /\ 1 \in DOMAIN aq
  OBVIOUS
<1>3. \A i \in DOMAIN Tail(aq) : Tail(aq)[i].c # Head(aq).c
  <2>. SUFFICES ASSUME NEW i \in DOMAIN Tail(aq), Tail(aq)[i].c = Head(aq).c PROVE FALSE
    OBVIOUS
  <2>1. i + 1 = 1 /\ i \in 1 .. Len(aq)
    BY <1>1, <1>2 DEF CompsOn
  <2>. QED  BY <2>1
<1>4. \A i, j \in DOMAIN Tail(aq) : Tail(aq)[i].c = Tail(aq)[j].c => i = j
  <2>. SUFFICES ASSUME NEW i \in DOMAIN Tail(aq), NEW j \in DOMAIN Tail(aq),
                       Tail(aq)[i].c = Tail(aq)[j].c
                PROVE  i = j
    OBVIOUS
  <2>1. i + 1 = j + 1 /\ i \in 1 .. Len(aq) /\ j \in 1 .. Len(aq)
    BY <1>1 DEF CompsOn
  <2>. QED  BY <2>1
<1> DEFINE q == Tail(aq)
<1> HIDE DEF q
<1>5. \A i \in DOMAIN q :
        q[i].c \in Range(tc) \ ar /\ cs[q[i].c].st \in {"ARP_PENDING", "REG_SYNACK", "OPEN"}
  BY <1>1 DEF CompsOn, q
<1>6. \A i, j \in DOMAIN q : q[i].c = q[j].c => i = j
  BY <1>4 DEF q
<1>7. CompsOn(cs, tc, q, ar)
  BY <1>5, <1>6 DEF CompsOn
<1>. QED  BY <1>2, <1>3, <1>7 DEF q, CompsOn

\* Completions do not depend on the backlogs beyond their timestamps.
\* conn_failed on a connection that waits for no completion.
LEMMA CompsFail ==
  ASSUME Types, Lists, NEW c \in Conns, NEW cr \in ConnRec, c \in Listed,
         cr.st = conn[c].st,
         NEW aq \in Seq([c : Conns, ok : BOOLEAN]),
         CompsOn(conn, tcp_conns, aq, arp), c \notin arp,
         \A i \in DOMAIN aq : aq[i].c # c,
         ConnFailed(c, [conn EXCEPT ![c] = cr])
  PROVE  CompsOn(conn', tcp_conns', aq, arp)
<1> DEFINE cs == [conn EXCEPT ![c] = cr]
<1>1. /\ conn \in [Conns -> ConnRec] /\ cs \in [Conns -> ConnRec]
      /\ tcp_conns \in Seq(Conns) /\ arp \in SUBSET Conns
  BY DEF Types
<1>2. CompsOn(cs, tcp_conns, aq, arp)
  BY <1>1, CompsUpdate
<1>3. Distinct(tcp_conns)
  BY DEF Lists, ListsOn
<1>4. cs[c] \in ConnRec /\ FailedRec(cs[c]) \in ConnRec
  BY <1>1, FailedRecFacts
<1> HIDE DEF cs
<1>5. CASE tcp_conns # <<>> /\ c = Head(tcp_conns) /\ tcp_conns' = Tail(tcp_conns)
           /\ (Freed(c, cs) \/ LeftFailed(c, cs))
  <2>1. CASE Freed(c, cs)
    <3>1. CompsOn([cs EXCEPT ![c] = FreeConn], Tail(tcp_conns), aq, arp)
      BY <1>1, <1>2, <1>3, <1>5, FreeRec, CompsPop
    <3>. QED  BY <1>5, <2>1, <3>1 DEF Freed
  <2>2. CASE LeftFailed(c, cs)
    <3>1. CompsOn([cs EXCEPT ![c] = FailedRec(cs[c])], Tail(tcp_conns), aq, arp)
      BY <1>1, <1>2, <1>3, <1>4, <1>5, CompsPop
    <3>. QED  BY <1>5, <2>2, <3>1 DEF LeftFailed
  <2>. QED  BY <1>5, <2>1, <2>2
<1>6. CASE conn' = cs /\ tcp_conns' = tcp_conns
  BY <1>2, <1>6
<1>. QED  BY <1>1, <1>5, <1>6, FailedFacts DEF cs

LEMMA CompsAccept ==
  ASSUME Types, NEW l \in Listeners, NEW bl \in Seq(Syn), bl # <<>>,
         NEW wait \in Seq(Conns), wait # <<>>, NEW cs \in [Conns -> ConnRec],
         CompsOn(cs, tcp_conns, async_q, arp),
         Head(wait) \notin Listed, cs[Head(wait)].st \in {"SYN_WAIT", "REG_SYNACK"},
         ListenerAccept(l, bl, wait, cs)
  PROVE  CompsOn(conn', tcp_conns', async_q', arp)
<1> DEFINE c == Head(wait)
           e == Head(bl)
           cr == Registered(cs[c], e)
<1>1. /\ c \in Conns /\ e \in Syn /\ lst' \in [Listeners -> ListenRec]
      /\ \A m \in Listeners : m # l => lst'[m] = lst[m]
      /\ lst'[l].backlog = Tail(bl)
  BY AcceptFacts
<1>2. /\ cr \in ConnRec /\ cr.st = "REG_SYNACK" /\ cr.peer = e.peer
  BY <1>1, RegisteredRec
<1>5. /\ tcp_conns \in Seq(Conns) /\ async_q \in Seq([c : Conns, ok : BOOLEAN])
      /\ arp \in SUBSET Conns
  BY DEF Types
<1>6. CompsOn(cs, tcp_conns, async_q, arp)
  OBVIOUS
<1>7. c \notin Range(tcp_conns) /\ c \notin arp /\ \A i \in DOMAIN async_q : async_q[i].c # c
  BY DEF CompsOn, Listed
<1>8. \/ /\ lst'[l].wait = wait
         /\ conn' = cs \/ conn' = [cs EXCEPT ![c] = cr]
         /\ tcp_conns' = tcp_conns /\ async_q' = async_q
      \/ /\ e.ts
         /\ lst'[l].wait = Tail(wait)
         /\ conn' = [cs EXCEPT ![c] = cr]
         /\ tcp_conns' = <<c>> \o tcp_conns
         /\ async_q' = Append(async_q, [c |-> c, ok |-> TRUE])
  BY AcceptFacts, Zenon
<1> HIDE DEF c, e, cr
<1>9. CASE /\ conn' = cs \/ conn' = [cs EXCEPT ![c] = cr]
           /\ tcp_conns' = tcp_conns /\ async_q' = async_q
  <2>1. CompsOn([cs EXCEPT ![c] = cr], tcp_conns, async_q, arp)
    BY <1>1, <1>2, <1>5, <1>6, <1>7, CompsUpdate
  <2>2. CompsOn(conn', tcp_conns', async_q', arp)
    BY <1>6, <1>9, <2>1
  <2>. QED  BY <2>2
<1>10. CASE /\ e.ts /\ conn' = [cs EXCEPT ![c] = cr]
            /\ tcp_conns' = <<c>> \o tcp_conns
            /\ async_q' = Append(async_q, [c |-> c, ok |-> TRUE])
  <2>2. CompsOn([cs EXCEPT ![c] = cr], <<c>> \o tcp_conns, async_q, arp)
    BY <1>1, <1>2, <1>5, <1>6, <1>7, CompsPush
  <2>3. c \in Range(<<c>> \o tcp_conns) /\ [cs EXCEPT ![c] = cr][c] = cr
    BY <1>1, <1>5, ConsList
  <2>4. CompsOn([cs EXCEPT ![c] = cr], <<c>> \o tcp_conns,
                Append(async_q, [c |-> c, ok |-> TRUE]), arp)
    BY <1>1, <1>2, <1>5, <1>7, <2>2, <2>3, CompsAppend
  <2>5. CompsOn(conn', tcp_conns', async_q', arp)
    BY <1>10, <2>4
  <2>. QED  BY <2>5
<1>. QED  BY <1>8, <1>9, <1>10

LEMMA CompsStep ==
  ASSUME TsKept, Types, Lists, Comps, [Next]_vars
  PROVE  Comps'
<1> USE WaitsType
<1>0. /\ conn \in [Conns -> ConnRec] /\ tcp_conns \in Seq(Conns)
      /\ async_q \in Seq([c : Conns, ok : BOOLEAN]) /\ arp \in SUBSET Conns
  BY DEF Types
<1>a. ASSUME NEW c \in Conns, c \notin Listed
      PROVE  \A i \in DOMAIN async_q : async_q[i].c # c
  BY <1>a DEF Comps, CompsOn, Listed
<1>b. ASSUME NEW c \in Conns, conn[c].st # "ARP_PENDING"
      PROVE  c \notin arp
  BY <1>b DEF Comps, CompsOn
<1>c. ASSUME NEW c \in Conns, conn[c].st \in {"FREE", "SYN_WAIT"}
      PROVE  c \notin Listed
  BY <1>c DEF Lists, ListsOn, Listed
<1>d. ASSUME NEW c \in Conns, conn[c].st = "SYN_SENT"
      PROVE  c \notin arp /\ c \in Listed /\ \A i \in DOMAIN async_q : async_q[i].c # c
  BY <1>d DEF Comps, CompsOn, Lists, ListsOn, Listed
<1>1. ASSUME NEW r \in Opens, NEW p \in Peers, KinConnOpen(r, p) PROVE Comps'
  <2>1. Backlogs' = Backlogs /\ r \in Reqs /\ async_q' = async_q
    BY <1>1, OpenFacts DEF Backlogs
  <2>2. CASE NoAlloc
    BY <2>1, <2>2 DEF NoAlloc, Comps
  <2>3. CASE \E port \in PortAlloc \ {0}, c \in FreeConns, resolved \in BOOLEAN :
               Alloc(r, p, port, c, resolved)
    <3>1. PICK port \in PortAlloc \ {0}, c \in FreeConns, resolved \in BOOLEAN :
                 Alloc(r, p, port, c, resolved)
      BY <2>3
    <3>2. c \in Conns /\ conn[c].st = "FREE" /\ tcp_conns' = <<c>> \o tcp_conns
      BY <2>1, <3>1, AllocFacts
    <3>3. PICK cr \in ConnRec : IsNew(cr, r, p, port, c)
      BY <2>1, <3>1, AllocFacts
    <3>4. c \notin Listed /\ c \notin arp /\ \A i \in DOMAIN async_q : async_q[i].c # c
      BY <3>2, <1>a, <1>b, <1>c
    <3>5. CompsOn([conn EXCEPT ![c] = cr], <<c>> \o tcp_conns, async_q, arp)
      BY <1>0, <3>2, <3>3, <3>4, CompsPush DEF Comps, IsNew, Listed
    <3>6. CASE arp' = arp
      BY <2>1, <3>2, <3>3, <3>5, <3>6 DEF Comps, IsNew
    <3>7. CASE arp' = arp \cup {c} /\ cr.st = "ARP_PENDING"
      <4> DEFINE ks == [conn EXCEPT ![c] = cr]
                 t == <<c>> \o tcp_conns
      <4>1. ks[c] = cr
        BY <1>0, <3>2
      <4> HIDE DEF ks, t
      <4>2. CompsOn(ks, t, async_q, arp)
        BY <3>5 DEF ks, t
      <4>3. CompsOn(ks, t, async_q, arp \cup {c})
        BY <3>4, <3>7, <4>1, <4>2 DEF CompsOn
      <4>. QED  BY <2>1, <3>2, <3>3, <3>7, <4>3 DEF Comps, IsNew, ks, t
    <3>. QED  BY <3>3, <3>6, <3>7 DEF IsNew
  <2>. QED  BY <1>1, <2>2, <2>3, OpenFacts
<1>2. ASSUME NEW l \in Listeners, NEW reuse \in BOOLEAN, KinListenOpen(l, reuse)
      PROVE  Comps'
  <2>1. /\ UNCHANGED <<conn, tcp_conns, async_q, arp>>
        /\ lst' = lst \/ Listens(l)
    BY <1>2, ListenFacts
  <2>2. Backlogs' = Backlogs
    BY <2>1, ListensFacts DEF Backlogs
  <2>. QED  BY <2>1, <2>2 DEF Comps
<1>3. ASSUME NEW r \in Accepts, NEW l \in Listeners, KinAcceptConn(r, l)
      PROVE  Comps'
  <2>0. arp' = arp
    BY <1>3, AcceptConnFacts
  <2>1. CASE UNCHANGED <<conn, tcp_conns, lst, async_q>>
    BY <2>0, <2>1 DEF Comps, Backlogs
  <2>2. ASSUME NEW c \in FreeConns, NEW cs \in [Conns -> ConnRec], NEW wait \in Seq(Conns),
               cs = [conn EXCEPT ![c] = Accepted(r, ListenPort[l])],
               wait = <<c>> \o lst[l].wait,
               \/ lst[l].backlog # <<>> /\ ListenerAccept(l, lst[l].backlog, wait, cs)
               \/ /\ conn' = cs /\ lst' = [lst EXCEPT ![l].wait = wait]
                  /\ UNCHANGED <<tcp_conns, async_q>>
        PROVE  Comps'
    <3>1. /\ r \in Reqs /\ ListenPort[l] \in Ports /\ lst[l].wait \in Seq(Conns)
          /\ lst[l].backlog \in Seq(Syn)
      BY <1>3, AcceptConnFacts
    <3>2. /\ c \in Conns /\ conn[c].st = "FREE" /\ wait # <<>> /\ Head(wait) = c
          /\ lst[l].backlog = Backlogs[l]
      BY <2>2, <3>1, ConsList DEF FreeConns, Backlogs
    <3>3. CompsOn(cs, tcp_conns, async_q, arp) /\ cs[c].st = "SYN_WAIT"
          /\ c \notin Listed
      <4> DEFINE cr == Accepted(r, ListenPort[l])
      <4>1. cr \in ConnRec /\ cr.st = "SYN_WAIT"
        BY <3>1, AcceptedRec
      <4>2. cs = [conn EXCEPT ![c] = cr]
        BY <2>2
      <4> HIDE DEF cr
      <4>3. c \notin Listed /\ c \notin arp /\ \A i \in DOMAIN async_q : async_q[i].c # c
        BY <3>2, <1>a, <1>b, <1>c
      <4>4. CompsOn([conn EXCEPT ![c] = cr], tcp_conns, async_q, arp)
        BY <1>0, <3>2, <4>1, <4>3, CompsUpdate DEF Comps, Listed
      <4>. QED  BY <1>0, <3>2, <4>1, <4>2, <4>3, <4>4
    <3>4. CASE lst[l].backlog # <<>> /\ ListenerAccept(l, lst[l].backlog, wait, cs)
      <4>1. [Backlogs EXCEPT ![l] = lst[l].backlog] = Backlogs
        BY <3>2
      <4>. QED  BY <2>0, <3>1, <3>2, <3>3, <3>4, <4>1, CompsAccept DEF Comps
    <3>5. CASE /\ conn' = cs /\ lst' = [lst EXCEPT ![l].wait = wait]
               /\ UNCHANGED <<tcp_conns, async_q>>
      <4>1. Backlogs' = Backlogs
        BY <3>5 DEF Backlogs, Types, ListenRec
      <4>. QED  BY <2>0, <3>3, <3>5, <4>1 DEF Comps
    <3>. QED  BY <2>2, <3>4, <3>5
  <2>. QED  BY <1>3, <2>1, <2>2, AcceptConnFacts
<1>4. ASSUME NEW c \in Conns, NEW ok \in BOOLEAN, ArpComplete(c, ok)
      PROVE  Comps'
  <2>1. /\ c \in arp /\ arp' = arp \ {c}
        /\ async_q' = Append(async_q, [c |-> c, ok |-> ok])
        /\ UNCHANGED <<conn, tcp_conns, lst>>
    BY <1>4 DEF ArpComplete
  <2>2. conn[c].st = "ARP_PENDING" /\ c \in Range(tcp_conns)
    BY <2>1 DEF Comps, CompsOn, Lists, ListsOn
  <2>3. \A i \in DOMAIN async_q : async_q[i].c # c
    BY <2>1 DEF Comps, CompsOn
  <2>4. CompsOn(conn, tcp_conns, async_q, arp \ {c})
    BY DEF Comps, CompsOn
  <2>5. CompsOn(conn, tcp_conns, Append(async_q, [c |-> c, ok |-> ok]), arp \ {c})
    BY <1>0, <2>2, <2>3, <2>4, CompsAppend
  <2>. QED  BY <2>1, <2>5 DEF Comps, Backlogs
<1>5. CASE TcpPoll
  <2> DEFINE e == Head(async_q)
             q == Tail(async_q)
  <2>1. /\ async_q # <<>> /\ async_q' = q /\ UNCHANGED <<lst, arp>>
        /\ Backlogs' = Backlogs
    BY <1>5 DEF TcpPoll, Backlogs
  <2>2. /\ CompsOn(conn, tcp_conns, q, arp)
        /\ e.c \in Range(tcp_conns) /\ e.c \notin arp
        /\ \A i \in DOMAIN q : q[i].c # e.c
    BY <1>0, <2>1, CompsTail DEF Comps
  <2>3. e.c \in Conns /\ q \in Seq([c : Conns, ok : BOOLEAN])
    BY <1>0, <2>1, <2>2, RangeIn, TailList
  <2>4. IF conn[e.c].st # "ARP_PENDING"
        THEN UNCHANGED <<conn, tcp_conns, kout, kout_pos>>
        ELSE IF e.ok
        THEN /\ conn' = [conn EXCEPT ![e.c] = SynSent(@)]
             /\ UNCHANGED <<tcp_conns, kout, kout_pos>>
        ELSE ConnFailed(e.c, conn)
    BY <1>5 DEF TcpPoll
  <2> HIDE DEF e, q
  <2>5. CASE UNCHANGED <<conn, tcp_conns, kout, kout_pos>>
    BY <2>1, <2>2, <2>5 DEF Comps
  <2>6. CASE /\ conn' = [conn EXCEPT ![e.c] = SynSent(@)]
             /\ UNCHANGED <<tcp_conns, kout, kout_pos>>
    <3>1. conn[e.c] \in ConnRec
      BY <1>0, <2>3
    <3>2. SynSent(conn[e.c]) \in ConnRec /\ SynSent(conn[e.c]).st = "SYN_SENT"
      BY <3>1, SynSentRec
    <3>3. CompsOn([conn EXCEPT ![e.c] = SynSent(conn[e.c])], tcp_conns, q, arp)
      BY <1>0, <2>2, <2>3, <3>2, CompsUpdate
    <3>. QED  BY <2>1, <2>6, <3>3 DEF Comps
  <2>7. CASE ConnFailed(e.c, conn)
    <3>1. conn = [conn EXCEPT ![e.c] = conn[e.c]] /\ conn[e.c] \in ConnRec
      BY <1>0, <2>3
    <3>2. ConnFailed(e.c, [conn EXCEPT ![e.c] = conn[e.c]])
      BY <2>7, <3>1
    <3>3. CompsOn(conn', tcp_conns', q, arp)
      BY <2>2, <2>3, <3>1, <3>2, CompsFail DEF Listed
    <3>. QED  BY <2>1, <3>3 DEF Comps
  <2>. QED  BY <2>4, <2>5, <2>6, <2>7
<1>6. ASSUME NEW c \in Conns, TcpTimeout(c) PROVE Comps'
  <2>1. /\ conn[c].st = "SYN_SENT" /\ conn[c].attempts <= Retries
        /\ UNCHANGED <<lst, async_q, arp>> /\ conn[c] \in ConnRec
    BY <1>0, <1>6, TimeoutFacts
  <2>2. c \notin arp /\ c \in Listed /\ \A i \in DOMAIN async_q : async_q[i].c # c
    BY <1>d, <2>1
  <2>3. CASE ConnFailed(c, [conn EXCEPT ![c] = Expired(conn[c])])
    <3>1. CompsOn(conn', tcp_conns', async_q, arp)
      BY <1>0, <2>1, <2>2, <2>3, ExpiredRec, CompsFail DEF Comps
    <3>. QED  BY <2>1, <3>1 DEF Comps, Backlogs
  <2>4. CASE /\ conn' = [conn EXCEPT ![c] = Retried(conn[c])]
             /\ UNCHANGED <<tcp_conns, kout, kout_pos>>
    <3>1. Retried(conn[c]) \in ConnRec /\ Retried(conn[c]).st = "SYN_SENT"
      BY <2>1, RetriedRec
    <3>2. CompsOn([conn EXCEPT ![c] = Retried(conn[c])], tcp_conns, async_q, arp)
      BY <1>0, <2>1, <2>2, <3>1, CompsUpdate DEF Comps
    <3>. QED  BY <2>1, <2>4, <3>2 DEF Comps, Backlogs
  <2>. QED  BY <1>6, <2>3, <2>4, TimeoutFacts
<1>7. ASSUME NEW s \in Segment, ConnPacket(s) PROVE Comps'
  <2>1. UNCHANGED <<lst, async_q, arp>> /\ Backlogs' = Backlogs
    BY <1>7, PacketFacts DEF Backlogs
  <2>2. s.peer \in Peers /\ s.ts \in PeerTs[s.peer] /\ s.ts \in BOOLEAN
    BY DEF Segment
  <2>3. CASE UNCHANGED <<conn, tcp_conns, kout, kout_pos>>
    BY <2>1, <2>3 DEF Comps
  <2>4. ASSUME NEW c \in Conns, conn[c].st = "SYN_SENT",
               ConnFailed(c, [conn EXCEPT ![c] = Disarmed(conn[c])])
        PROVE  Comps'
    <3>1. conn[c] \in ConnRec
      BY <1>0
    <3>2. c \notin arp /\ c \in Listed /\ \A i \in DOMAIN async_q : async_q[i].c # c
      BY <1>d, <2>4
    <3>3. CompsOn(conn', tcp_conns', async_q, arp)
      BY <1>0, <2>4, <3>1, <3>2, DisarmedRec, CompsFail DEF Comps
    <3>. QED  BY <2>1, <3>3 DEF Comps
  <2>6. ASSUME NEW c \in Conns, conn[c].st = "SYN_SENT", s.ts, conn[c].peer = s.peer,
               NEW ecn \in BOOLEAN,
               conn' = [conn EXCEPT ![c] = Established(conn[c], ecn)],
               tcp_conns' = tcp_conns
        PROVE  Comps'
    <3>1. conn[c] \in ConnRec
      BY <1>0
    <3>2. /\ Established(conn[c], ecn) \in ConnRec /\ Established(conn[c], ecn).st = "OPEN"
          /\ Established(conn[c], ecn).peer = s.peer
      BY <2>6, <3>1, EstablishedRec
    <3>3. c \notin arp /\ c \in Listed /\ \A i \in DOMAIN async_q : async_q[i].c # c
      BY <1>d, <2>6
    <3>5. CompsOn([conn EXCEPT ![c] = Established(conn[c], ecn)], tcp_conns, async_q, arp)
      BY <1>0, <2>2, <3>2, <3>3, CompsUpdate DEF Comps
    <3>. QED  BY <2>1, <2>6, <3>5 DEF Comps
  <2>7. PICK c \in Conns :
          /\ c \in Listed /\ conn[c].peer = s.peer
          /\ PacketCases(c, s) /\ ~OpenNoTs(c, s)
    BY <1>7, PacketKept
  <2>. QED  BY <2>3, <2>4, <2>6, <2>7 DEF PacketCases
<1>8. ASSUME NEW s \in Segment, ListenerPacket(s) PROVE Comps'
  <2> DEFINE l == ListenerFor(s)
             e == [peer |-> s.peer, ts |-> s.ts, ecn |-> s.kind = "SYN_ECN"]
             bl == Append(lst[l].backlog, e)
  <2>1. /\ l \in Listeners /\ lst[l].wait \in Seq(Conns) /\ bl \in Seq(Syn)
        /\ lst[l].backlog \in Seq(Syn) /\ e \in Syn /\ arp' = arp
    BY <1>8, ListenerFacts
  <2>2. bl # <<>>
    BY <2>1, AppendList
  <2>3. \/ lst[l].wait # <<>> /\ ListenerAccept(l, bl, lst[l].wait, conn)
        \/ lst' = [lst EXCEPT ![l].backlog = bl] /\ UNCHANGED <<conn, tcp_conns, async_q>>
    BY <1>8, ListenerFacts
  <2>. HIDE DEF l, e, bl
  <2>7. CASE lst[l].wait # <<>> /\ ListenerAccept(l, bl, lst[l].wait, conn)
    <3>1. /\ Head(lst[l].wait) \notin Listed
          /\ conn[Head(lst[l].wait)].st \in {"SYN_WAIT", "REG_SYNACK"}
      <4>1. Head(lst[l].wait) \in Range(Waits[l])
        BY <2>1, <2>7, TailList DEF Waits
      <4>. QED  BY <2>1, <4>1 DEF Lists, ListsOn, Listed
    <3>. QED  BY <1>0, <2>1, <2>2, <2>7, <3>1, CompsAccept DEF Comps
  <2>8. CASE lst' = [lst EXCEPT ![l].backlog = bl] /\ UNCHANGED <<conn, tcp_conns, async_q>>
    BY <2>1, <2>8 DEF Comps
  <2>. QED  BY <2>3, <2>7, <2>8
<1>9. ASSUME NEW t \in Tuples, TapSynAck(t) PROVE Comps'
  <2>1. UNCHANGED <<tcp_conns, async_q, arp>> /\ Backlogs' = Backlogs
    BY <1>9, TapFacts DEF Backlogs
  <2>2. CASE UNCHANGED <<conn, tap>>
    BY <2>1, <2>2 DEF Comps
  <2>3. ASSUME NEW c \in Conns, c \in Listed, conn[c].st = "REG_SYNACK",
               conn' = [conn EXCEPT ![c] = SynAcked(conn[c])]
        PROVE  Comps'
    <3>1. conn[c] \in ConnRec
      BY <1>0
    <3>2. c \notin arp
      BY <1>b, <2>3
    <3>3. CompsOn([conn EXCEPT ![c] = SynAcked(conn[c])], tcp_conns, async_q, arp)
      BY <1>0, <3>1, <3>2, SynAckedRec, CompsUpdate DEF Comps
    <3>. QED  BY <2>1, <2>3, <3>3 DEF Comps
  <2>. QED  BY <1>9, <2>2, <2>3, TapFacts
<1>10. ASSUME NEW t \in Tuples, PeerReceives(t) \/ LoseSynAck(t) PROVE Comps'
  BY <1>10 DEF PeerReceives, LoseSynAck, Comps, Backlogs
<1>11. CASE TapAccepted
  BY <1>11 DEF TapAccepted, Comps, Backlogs
<1>12. CASE AppRead
  BY <1>12 DEF AppRead, Comps, Backlogs
<1>13. CASE UNCHANGED vars
  BY <1>13 DEF vars, Comps, Backlogs
<1>. QED  BY <1>1, <1>2, <1>3, <1>4, <1>5, <1>6, <1>7, <1>8, <1>9, <1>10, <1>11,
             <1>12, <1>13 DEF Next

-----------------------------------------------------------------------------
(* Four-tuples.                                                            *)

\* A connection changes, but not its four-tuple while it is in the list.
LEMMA TuplesUpdate ==
  ASSUME NEW cs \in [Conns -> ConnRec], NEW tc \in Seq(Conns),
         NEW w \in [Listeners -> Seq(Conns)], NEW bl, NEW op, NEW ps,
         NEW c \in Conns, NEW cr \in ConnRec, TuplesOn(cs, tc, w, bl, op, ps),
         c \in Range(tc) => cr.peer = cs[c].peer /\ cr.port = cs[c].port,
         \A m \in Listeners : c \in Range(w[m]) => cr.port = cs[c].port
  PROVE  TuplesOn([cs EXCEPT ![c] = cr], tc, w, bl, op, ps)
<1> DEFINE ks == [cs EXCEPT ![c] = cr]
<1>1. ks[c] = cr /\ \A d \in Conns : d # c => ks[d] = cs[d]
  OBVIOUS
<1>2. Range(tc) \subseteq Conns /\ \A m \in Listeners : Range(w[m]) \subseteq Conns
  BY RangeIn
<1> HIDE DEF ks
<1>3. \A d \in Range(tc) : ks[d].peer = cs[d].peer /\ ks[d].port = cs[d].port
  BY <1>1, <1>2
<1>4. \A m \in Listeners : \A d \in Range(w[m]) : ks[d].port = cs[d].port
  BY <1>1, <1>2
<1>5. TuplesOn(ks, tc, w, bl, op, ps)
  BY <1>3, <1>4 DEF TuplesOn
<1>. QED  BY <1>5 DEF ks

\* The first connection leaves the list.
LEMMA TuplesPop ==
  ASSUME NEW cs \in [Conns -> ConnRec], NEW tc \in Seq(Conns),
         NEW w \in [Listeners -> Seq(Conns)], NEW bl, NEW op, NEW ps,
         NEW c \in Conns, NEW cr \in ConnRec, TuplesOn(cs, tc, w, bl, op, ps),
         Distinct(tc), tc # <<>>, c = Head(tc),
         \A m \in Listeners : c \notin Range(w[m])
  PROVE  TuplesOn([cs EXCEPT ![c] = cr], Tail(tc), w, bl, op, ps)
<1> DEFINE ks == [cs EXCEPT ![c] = cr]
           t == Tail(tc)
<1>1. ks[c] = cr /\ \A d \in Conns : d # c => ks[d] = cs[d]
  OBVIOUS
<1>2. Range(tc) \subseteq Conns /\ \A m \in Listeners : Range(w[m]) \subseteq Conns
  BY RangeIn
<1>3. Range(tc) = {c} \cup Range(t) /\ c \notin Range(t)
  BY TailList
<1> HIDE DEF ks, t
<1>4. \A d \in Range(t) : d \in Range(tc) /\ ks[d] = cs[d]
  BY <1>1, <1>2, <1>3
<1>5. \A m \in Listeners : \A d \in Range(w[m]) : ks[d] = cs[d]
  BY <1>1, <1>2
<1>6. /\ \A a, b \in Range(t) : ks[a].peer = ks[b].peer /\ ks[a].port = ks[b].port => a = b
      /\ \A d \in Range(t) : ks[d].port \in Ports /\ ps[ks[d].port].type # "UNUSED"
  BY <1>4 DEF TuplesOn
<1>7. \A m \in Listeners : \A i \in DOMAIN bl[m] : \A d \in Range(t) :
        ~(ks[d].peer = bl[m][i].peer /\ ks[d].port = ListenPort[m])
  BY <1>4 DEF TuplesOn
<1>8. \A m \in Listeners : \A d \in Range(w[m]) : ks[d].port = ListenPort[m]
  BY <1>5 DEF TuplesOn
<1>9. TuplesOn(ks, t, w, bl, op, ps)
  BY <1>6, <1>7, <1>8 DEF TuplesOn
<1>. QED  BY <1>9 DEF ks, t

\* A connection with a new four-tuple enters the list.
LEMMA TuplesPush ==
  ASSUME NEW cs \in [Conns -> ConnRec], NEW tc \in Seq(Conns),
         NEW w \in [Listeners -> Seq(Conns)], NEW bl, NEW op, NEW ps,
         NEW c \in Conns, NEW cr \in ConnRec, TuplesOn(cs, tc, w, bl, op, ps),
         c \notin Range(tc), \A m \in Listeners : c \notin Range(w[m]),
         cr.port \in Ports, ps[cr.port].type # "UNUSED",
         \A d \in Range(tc) : ~(cs[d].peer = cr.peer /\ cs[d].port = cr.port),
         \A m \in Listeners : \A i \in DOMAIN bl[m] :
           ~(bl[m][i].peer = cr.peer /\ ListenPort[m] = cr.port)
  PROVE  TuplesOn([cs EXCEPT ![c] = cr], <<c>> \o tc, w, bl, op, ps)
<1> DEFINE ks == [cs EXCEPT ![c] = cr]
           t == <<c>> \o tc
<1>1. ks[c] = cr /\ \A d \in Conns : d # c => ks[d] = cs[d]
  OBVIOUS
<1>2. Range(tc) \subseteq Conns /\ \A m \in Listeners : Range(w[m]) \subseteq Conns
  BY RangeIn
<1>3. Range(t) = {c} \cup Range(tc)
  BY ConsList
<1> HIDE DEF ks, t
<1>4. \A d \in Range(tc) : ks[d] = cs[d]
  BY <1>1, <1>2
<1>5. \A m \in Listeners : \A d \in Range(w[m]) : ks[d] = cs[d]
  BY <1>1, <1>2
<1>6. \A a, b \in Range(t) : ks[a].peer = ks[b].peer /\ ks[a].port = ks[b].port => a = b
  <2>. SUFFICES ASSUME NEW a \in Range(t), NEW b \in Range(t),
                       ks[a].peer = ks[b].peer, ks[a].port = ks[b].port
                PROVE  a = b
    OBVIOUS
  <2>1. CASE a = c /\ b \in Range(tc)
    BY <1>1, <1>4, <2>1
  <2>2. CASE b = c /\ a \in Range(tc)
    BY <1>1, <1>4, <2>2
  <2>3. CASE a \in Range(tc) /\ b \in Range(tc)
    BY <1>4, <2>3 DEF TuplesOn
  <2>. QED  BY <1>3, <2>1, <2>2, <2>3
<1>7. \A d \in Range(t) : ks[d].port \in Ports /\ ps[ks[d].port].type # "UNUSED"
  BY <1>1, <1>3, <1>4 DEF TuplesOn
<1>8. \A m \in Listeners : \A i \in DOMAIN bl[m] : \A d \in Range(t) :
        ~(ks[d].peer = bl[m][i].peer /\ ks[d].port = ListenPort[m])
  BY <1>1, <1>3, <1>4 DEF TuplesOn
<1>9. \A m \in Listeners : \A d \in Range(w[m]) : ks[d].port = ListenPort[m]
  BY <1>5 DEF TuplesOn
<1>10. TuplesOn(ks, t, w, bl, op, ps)
  BY <1>6, <1>7, <1>8, <1>9 DEF TuplesOn
<1>. QED  BY <1>10 DEF ks, t

\* A list of waiting connections changes.
LEMMA TuplesWaits ==
  ASSUME NEW cs, NEW tc, NEW w \in [Listeners -> Seq(Conns)], NEW bl, NEW op, NEW ps,
         TuplesOn(cs, tc, w, bl, op, ps), NEW l \in Listeners, NEW wait \in Seq(Conns),
         op[l], \A d \in Range(wait) : cs[d].port = ListenPort[l]
  PROVE  TuplesOn(cs, tc, [w EXCEPT ![l] = wait], bl, op, ps)
<1> DEFINE v == [w EXCEPT ![l] = wait]
<1>1. v[l] = wait /\ \A m \in Listeners : m # l => v[m] = w[m]
  OBVIOUS
<1> HIDE DEF v
<1>2. \A m \in Listeners : bl[m] # <<>> \/ v[m] # <<>> => op[m]
  BY <1>1 DEF TuplesOn
<1>3. \A m \in Listeners : \A c \in Range(v[m]) : cs[c].port = ListenPort[m]
  BY <1>1 DEF TuplesOn
<1>4. TuplesOn(cs, tc, v, bl, op, ps)
  BY <1>2, <1>3 DEF TuplesOn
<1>. QED  BY <1>4 DEF v

\* The first entry of a backlog is consumed; no other has its four-tuple.
LEMMA TuplesConsume ==
  ASSUME NEW cs, NEW tc, NEW w, NEW bl \in [Listeners -> Seq(Syn)], NEW op, NEW ps,
         TuplesOn(cs, tc, w, bl, op, ps), NEW l \in Listeners, bl[l] # <<>>
  PROVE  /\ TuplesOn(cs, tc, w, [bl EXCEPT ![l] = Tail(bl[l])], op, ps)
         /\ op[l]
         /\ \A d \in Range(tc) :
              ~(cs[d].peer = Head(bl[l]).peer /\ cs[d].port = ListenPort[l])
         /\ \A i \in DOMAIN Tail(bl[l]) : Tail(bl[l])[i].peer # Head(bl[l]).peer
<1> DEFINE q == bl[l]
           t == Tail(q)
           bm == [bl EXCEPT ![l] = t]
<1>1. bm[l] = t /\ \A m \in Listeners : m # l => bm[m] = bl[m]
  OBVIOUS
<1>2. \A i \in DOMAIN t : i + 1 \in DOMAIN q /\ t[i] = q[i + 1] /\ i \in Nat \ {0}
  BY TailList
<1>3. Head(q) = q[1] /\ 1 \in DOMAIN q
  OBVIOUS
<1>4. op[l]
  BY DEF TuplesOn
<1> HIDE DEF t, bm
<1>5. \A i, j \in DOMAIN t : t[i].peer = t[j].peer => i = j
  <2>. SUFFICES ASSUME NEW i \in DOMAIN t, NEW j \in DOMAIN t, t[i].peer = t[j].peer
                PROVE  i = j
    OBVIOUS
  <2>1. i + 1 = j + 1
    BY <1>2 DEF TuplesOn
  <2>. QED  BY <1>2, <2>1
<1>6. \A i \in DOMAIN t : t[i].peer # Head(q).peer
  <2>. SUFFICES ASSUME NEW i \in DOMAIN t, t[i].peer = Head(q).peer PROVE FALSE
    OBVIOUS
  <2>1. i + 1 = 1
    BY <1>2, <1>3 DEF TuplesOn
  <2>. QED  BY <1>2, <2>1
<1>7. \A i \in DOMAIN t : \A d \in Range(tc) :
        ~(cs[d].peer = t[i].peer /\ cs[d].port = ListenPort[l])
  BY <1>2 DEF TuplesOn
<1>8. \A d \in Range(tc) : ~(cs[d].peer = Head(q).peer /\ cs[d].port = ListenPort[l])
  BY <1>3 DEF TuplesOn
<1>9. TuplesOn(cs, tc, w, bm, op, ps)
  <2>1. \A m \in Listeners : bm[m] # <<>> \/ w[m] # <<>> => op[m]
    BY <1>1, <1>4 DEF TuplesOn
  <2>2. \A m \in Listeners : \A i, j \in DOMAIN bm[m] : bm[m][i].peer = bm[m][j].peer => i = j
    BY <1>1, <1>5 DEF TuplesOn
  <2>3. \A m \in Listeners : \A i \in DOMAIN bm[m] : \A d \in Range(tc) :
          ~(cs[d].peer = bm[m][i].peer /\ cs[d].port = ListenPort[m])
    BY <1>1, <1>7 DEF TuplesOn
  <2>. QED  BY <2>1, <2>2, <2>3 DEF TuplesOn
<1>. QED  BY <1>4, <1>6, <1>8, <1>9 DEF t, bm

\* A SYN of a four-tuple that is neither connected nor queued is queued.
LEMMA TuplesQueue ==
  ASSUME NEW cs, NEW tc, NEW w, NEW bl \in [Listeners -> Seq(Syn)], NEW op, NEW ps,
         TuplesOn(cs, tc, w, bl, op, ps), NEW l \in Listeners, NEW e \in Syn, op[l],
         \A d \in Range(tc) : ~(cs[d].peer = e.peer /\ cs[d].port = ListenPort[l]),
         \A i \in DOMAIN bl[l] : bl[l][i].peer # e.peer
  PROVE  TuplesOn(cs, tc, w, [bl EXCEPT ![l] = Append(bl[l], e)], op, ps)
<1> DEFINE q == bl[l]
           t == Append(q, e)
           bm == [bl EXCEPT ![l] = t]
           n == Len(q) + 1
<1>1. bm[l] = t /\ \A m \in Listeners : m # l => bm[m] = bl[m]
  OBVIOUS
<1>2. /\ DOMAIN t = DOMAIN q \cup {n} /\ n \notin DOMAIN q
      /\ \A i \in DOMAIN q : t[i] = q[i]
      /\ t[n] = e
  BY AppendList
<1>3. q = bl[l]
  OBVIOUS
<1> HIDE DEF t, bm, n, q
<1>4. \A i, j \in DOMAIN t : t[i].peer = t[j].peer => i = j
  BY <1>2, <1>3 DEF TuplesOn
<1>5. \A i \in DOMAIN t : \A d \in Range(tc) :
        ~(cs[d].peer = t[i].peer /\ cs[d].port = ListenPort[l])
  BY <1>2, <1>3 DEF TuplesOn
<1>6. \A m \in Listeners : bm[m] # <<>> \/ w[m] # <<>> => op[m]
  BY <1>1 DEF TuplesOn
<1>7. \A m \in Listeners : \A i, j \in DOMAIN bm[m] : bm[m][i].peer = bm[m][j].peer => i = j
  BY <1>1, <1>4 DEF TuplesOn
<1>8. \A m \in Listeners : \A i \in DOMAIN bm[m] : \A d \in Range(tc) :
        ~(cs[d].peer = bm[m][i].peer /\ cs[d].port = ListenPort[m])
  BY <1>1, <1>5 DEF TuplesOn
<1>9. TuplesOn(cs, tc, w, bm, op, ps)
  BY <1>6, <1>7, <1>8 DEF TuplesOn
<1>. QED  BY <1>9 DEF bm, t, q

\* A port changes hands; it gets no listener that is not open.
LEMMA TuplesPorts ==
  ASSUME NEW cs, NEW tc, NEW w, NEW bl, NEW op, NEW ps \in [Ports -> PortRec],
         TuplesOn(cs, tc, w, bl, op, ps), NEW p \in Ports
  PROVE  TuplesOn(cs, tc, w, bl, op, [ps EXCEPT ![p] = [type |-> "CONN", ls |-> <<>>]])
<1> DEFINE qs == [ps EXCEPT ![p] = [type |-> "CONN", ls |-> <<>>]]
<1>1. /\ qs[p].type = "CONN" /\ DOMAIN qs[p].ls = {}
      /\ \A q \in Ports : q # p => qs[q] = ps[q]
  OBVIOUS
<1>2. \A l \in Listeners : ListenPort[l] \in Ports
  BY TcpAssumption DEF Ports
<1> HIDE DEF qs
<1>3. \A q \in Ports : ps[q].type # "UNUSED" => qs[q].type # "UNUSED"
  BY <1>1
<1>4. \A c \in Range(tc) : cs[c].port \in Ports /\ qs[cs[c].port].type # "UNUSED"
  BY <1>3 DEF TuplesOn
<1>5. \A l \in Listeners : op[l] => qs[ListenPort[l]].type # "UNUSED"
  BY <1>2, <1>3 DEF TuplesOn
<1>6. \A q \in Ports : \A i \in DOMAIN qs[q].ls :
        op[qs[q].ls[i]] /\ ListenPort[qs[q].ls[i]] = q
  BY <1>1 DEF TuplesOn
<1>7. TuplesOn(cs, tc, w, bl, op, qs)
  BY <1>4, <1>5, <1>6 DEF TuplesOn
<1>. QED  BY <1>7 DEF qs

\* A listener opens on its port.
LEMMA TuplesListen ==
  ASSUME NEW cs, NEW tc, NEW w, NEW bl, NEW op \in [Listeners -> BOOLEAN],
         NEW ps \in [Ports -> PortRec], TuplesOn(cs, tc, w, bl, op, ps),
         NEW l \in Listeners, NEW ty \in {"LISTEN", "LMULTI"}
  PROVE  TuplesOn(cs, tc, w, bl, [op EXCEPT ![l] = TRUE],
                  [ps EXCEPT ![ListenPort[l]] =
                     [type |-> ty, ls |-> Append(ps[ListenPort[l]].ls, l)]])
<1> DEFINE p == ListenPort[l]
           ls == ps[p].ls
           ms == Append(ls, l)
           np == [ps EXCEPT ![p] = [type |-> ty, ls |-> ms]]
           no == [op EXCEPT ![l] = TRUE]
<1>1. \A m \in Listeners : ListenPort[m] \in Ports
  BY TcpAssumption DEF Ports
<1>2. /\ np[p].type = ty /\ np[p].ls = ms /\ \A q \in Ports : q # p => np[q] = ps[q]
      /\ no[l] /\ \A m \in Listeners : op[m] => no[m]
      /\ \A m \in Listeners : m # l => no[m] = op[m]
  BY <1>1
<1>3. ls \in Seq(Listeners)
  BY <1>1 DEF PortRec
<1>4. \A i \in DOMAIN ms : ms[i] = l \/ (i \in DOMAIN ls /\ ms[i] = ls[i])
  BY <1>3, AppendList
<1>5. \A q \in Ports : ps[q].ls \in Seq(Listeners)
  BY DEF PortRec
<1>6. \A q \in Ports : \A i \in DOMAIN ps[q].ls : ps[q].ls[i] \in Listeners
  BY <1>5
<1>7. p = ListenPort[l] /\ ls = ps[p].ls /\ p \in Ports
  BY <1>1
<1> HIDE DEF np, no, ms, ls, p
<1>8. \A q \in Ports : ps[q].type # "UNUSED" => np[q].type # "UNUSED"
  BY <1>2
<1>9. \A c \in Range(tc) : cs[c].port \in Ports /\ np[cs[c].port].type # "UNUSED"
  BY <1>8 DEF TuplesOn
<1>10. \A m \in Listeners : no[m] => np[ListenPort[m]].type # "UNUSED"
  BY <1>1, <1>2, <1>7, <1>8 DEF TuplesOn
<1>11. \A m \in Listeners : bl[m] # <<>> \/ w[m] # <<>> => no[m]
  BY <1>2 DEF TuplesOn
<1>12. \A q \in Ports : \A i \in DOMAIN np[q].ls :
         no[np[q].ls[i]] /\ ListenPort[np[q].ls[i]] = q
  <2>. SUFFICES ASSUME NEW q \in Ports, NEW i \in DOMAIN np[q].ls
                PROVE  no[np[q].ls[i]] /\ ListenPort[np[q].ls[i]] = q
    OBVIOUS
  <2>1. CASE q = p /\ np[q].ls[i] = l
    BY <1>2, <1>7, <2>1
  <2>2. CASE i \in DOMAIN ps[q].ls /\ np[q].ls[i] = ps[q].ls[i]
    <3>1. op[ps[q].ls[i]] /\ ListenPort[ps[q].ls[i]] = q
      BY <2>2 DEF TuplesOn
    <3>. QED  BY <1>2, <1>6, <2>2, <3>1
  <2>. QED  BY <1>2, <1>4, <1>7, <2>1, <2>2
<1>13. TuplesOn(cs, tc, w, bl, no, np)
  BY <1>9, <1>10, <1>11, <1>12 DEF TuplesOn
<1>. QED  BY <1>13 DEF np, no, ms, ls, p

\* conn_failed on a listed connection.
LEMMA TuplesFail ==
  ASSUME Types, Lists, TuplesInv, NEW c \in Conns, NEW cr \in ConnRec, c \in Listed,
         cr.peer = conn[c].peer, cr.port = conn[c].port,
         ConnFailed(c, [conn EXCEPT ![c] = cr]), lst' = lst, ports' = ports
  PROVE  TuplesInv'
<1> DEFINE cs == [conn EXCEPT ![c] = cr]
<1>1. conn \in [Conns -> ConnRec] /\ cs \in [Conns -> ConnRec] /\ tcp_conns \in Seq(Conns)
  BY DEF Types
<1>2. Distinct(tcp_conns) /\ \A m \in Listeners : c \notin Range(Waits[m])
  BY DEF Lists, ListsOn, Listed
<1>3. TuplesOn(cs, tcp_conns, Waits, Backlogs, Openness, ports)
  BY <1>1, <1>2, WaitsType, TuplesUpdate DEF TuplesInv
<1>4. /\ Waits' = Waits /\ Backlogs' = Backlogs /\ Openness' = Openness
  BY DEF Waits, Backlogs, Openness
<1>5. cs[c] \in ConnRec /\ FailedRec(cs[c]) \in ConnRec
  BY <1>1, FailedRecFacts
<1> HIDE DEF cs
<1>6. CASE tcp_conns # <<>> /\ c = Head(tcp_conns) /\ tcp_conns' = Tail(tcp_conns)
           /\ (Freed(c, cs) \/ LeftFailed(c, cs))
  <2>1. CASE Freed(c, cs)
    <3>1. TuplesOn([cs EXCEPT ![c] = FreeConn], Tail(tcp_conns), Waits, Backlogs,
                   Openness, ports)
      BY <1>1, <1>2, <1>3, <1>6, WaitsType, FreeRec, TuplesPop
    <3>. QED  BY <1>4, <1>6, <2>1, <3>1 DEF Freed, TuplesInv
  <2>2. CASE LeftFailed(c, cs)
    <3>1. TuplesOn([cs EXCEPT ![c] = FailedRec(cs[c])], Tail(tcp_conns), Waits, Backlogs,
                   Openness, ports)
      BY <1>1, <1>2, <1>3, <1>5, <1>6, WaitsType, TuplesPop
    <3>. QED  BY <1>4, <1>6, <2>2, <3>1 DEF LeftFailed, TuplesInv
  <2>. QED  BY <1>6, <2>1, <2>2
<1>7. CASE conn' = cs /\ tcp_conns' = tcp_conns
  BY <1>3, <1>4, <1>7 DEF TuplesInv
<1>. QED  BY <1>1, <1>6, <1>7, FailedFacts DEF cs

\* A SYN enters a backlog, or leaves it.
LEMMA ApartAppend ==
  ASSUME NEW bl \in [Listeners -> Seq(Syn)], ApartIn(bl), NEW l \in Listeners,
         NEW e \in Syn,
         \A m \in Listeners : m # l /\ ListenPort[m] = ListenPort[l] =>
           \A i \in DOMAIN bl[m] : bl[m][i].peer # e.peer
  PROVE  ApartIn([bl EXCEPT ![l] = Append(bl[l], e)])
<1> DEFINE q == Append(bl[l], e)
           bm == [bl EXCEPT ![l] = q]
<1>1. \A i \in DOMAIN q : q[i] = e \/ (i \in DOMAIN bl[l] /\ q[i] = bl[l][i])
  BY AppendList
<1>2. bm[l] = q /\ \A m \in Listeners : m # l => bm[m] = bl[m]
  OBVIOUS
<1> HIDE DEF q, bm
<1>3. ASSUME NEW m \in Listeners, m # l, ListenPort[m] = ListenPort[l],
             NEW i \in DOMAIN q, NEW j \in DOMAIN bl[m]
      PROVE  q[i].peer # bl[m][j].peer
  <2>1. CASE q[i] = e
    BY <1>3, <2>1
  <2>2. CASE i \in DOMAIN bl[l] /\ q[i] = bl[l][i]
    BY <1>3, <2>2 DEF ApartIn
  <2>. QED  BY <1>1, <2>1, <2>2
<1>4. ApartIn(bm)
  <2>. SUFFICES ASSUME NEW k \in Listeners, NEW m \in Listeners, k # m,
                       ListenPort[k] = ListenPort[m],
                       NEW i \in DOMAIN bm[k], NEW j \in DOMAIN bm[m]
                PROVE  bm[k][i].peer # bm[m][j].peer
    BY DEF ApartIn
  <2>1. CASE k = l
    BY <1>2, <1>3, <2>1
  <2>2. CASE m = l
    BY <1>2, <1>3, <2>2
  <2>3. CASE k # l /\ m # l
    BY <1>2, <2>3 DEF ApartIn
  <2>. QED  BY <2>1, <2>2, <2>3
<1>. QED  BY <1>4 DEF bm, q

LEMMA ApartTail ==
  ASSUME NEW bl \in [Listeners -> Seq(Syn)], ApartIn(bl), NEW l \in Listeners,
         bl[l] # <<>>
  PROVE  ApartIn([bl EXCEPT ![l] = Tail(bl[l])])
<1> DEFINE q == Tail(bl[l])
           bm == [bl EXCEPT ![l] = q]
<1>1. \A i \in DOMAIN q : i + 1 \in DOMAIN bl[l] /\ q[i] = bl[l][i + 1]
  BY TailList
<1>2. bm[l] = q /\ \A m \in Listeners : m # l => bm[m] = bl[m]
  OBVIOUS
<1> HIDE DEF q, bm
<1>3. \A m \in Listeners : \A i \in DOMAIN bm[m] : \E j \in DOMAIN bl[m] : bm[m][i] = bl[m][j]
  BY <1>1, <1>2
<1>4. ApartIn(bm)
  BY <1>3 DEF ApartIn
<1>. QED  BY <1>4 DEF bm, q

\* listener_packet, before the entry is perhaps served.
LEMMA ApartSyn ==
  ASSUME SynsTogether, Types, TuplesInv, SynsApart, NEW s \in Segment, ListenerPacket(s)
  PROVE  LET l == ListenerFor(s)
             e == [peer |-> s.peer, ts |-> s.ts, ecn |-> s.kind = "SYN_ECN"] IN
         ApartIn([Backlogs EXCEPT ![l] = Append(lst[l].backlog, e)])
<1> DEFINE l == ListenerFor(s)
           e == [peer |-> s.peer, ts |-> s.ts, ecn |-> s.kind = "SYN_ECN"]
<1>1. /\ l \in Listeners /\ e \in Syn /\ s.port \in Ports
      /\ \E i \in DOMAIN ports[s.port].ls : l = ports[s.port].ls[i]
  BY ListenerFacts
<1>2. e.peer = s.peer
  OBVIOUS
<1>3. \A m \in Listeners \ {l} : ListenPort[m] = s.port => ~InBacklog(m, s)
  BY DEF SynsTogether
<1> HIDE DEF l, e
<1>4. ListenPort[l] = s.port
  BY <1>1 DEF TuplesInv, TuplesOn
<1>5. /\ Backlogs \in [Listeners -> Seq(Syn)]
      /\ \A m \in Listeners : Backlogs[m] = lst[m].backlog
  BY WaitsType DEF Backlogs
<1>6. \A m \in Listeners : m # l /\ ListenPort[m] = ListenPort[l] =>
        \A i \in DOMAIN Backlogs[m] : Backlogs[m][i].peer # e.peer
  BY <1>2, <1>3, <1>4, <1>5 DEF InBacklog
<1>7. ApartIn([Backlogs EXCEPT ![l] = Append(Backlogs[l], e)])
  BY <1>1, <1>5, <1>6, ApartAppend DEF SynsApart
<1>. QED  BY <1>1, <1>5, <1>7 DEF l, e

LEMMA ApartAccept ==
  ASSUME Types, NEW l \in Listeners, NEW bl \in Seq(Syn), bl # <<>>,
         NEW wait \in Seq(Conns), wait # <<>>, NEW cs \in [Conns -> ConnRec],
         ListenerAccept(l, bl, wait, cs), ApartIn([Backlogs EXCEPT ![l] = bl])
  PROVE  SynsApart'
<1> DEFINE bm == [Backlogs EXCEPT ![l] = bl]
<1>1. /\ lst' \in [Listeners -> ListenRec]
      /\ \A m \in Listeners : m # l => lst'[m] = lst[m]
      /\ lst'[l].backlog = Tail(bl)
  BY AcceptFacts
<1>2. bm \in [Listeners -> Seq(Syn)] /\ bm[l] = bl
  BY WaitsType
<1>3. Backlogs' = [bm EXCEPT ![l] = Tail(bl)]
  BY <1>1, WaitsType DEF Backlogs
<1> HIDE DEF bm
<1>4. ApartIn([bm EXCEPT ![l] = Tail(bm[l])])
  BY <1>2, ApartTail DEF bm
<1>5. ApartIn(Backlogs')
  BY <1>2, <1>3, <1>4
<1>. QED  BY <1>5 DEF SynsApart, ApartIn

LEMMA ApartStep ==
  ASSUME SynsTogether, Types, TuplesInv, SynsApart, [Next]_vars
  PROVE  SynsApart'
<1>1. ASSUME Backlogs' = Backlogs PROVE SynsApart'
  BY <1>1 DEF SynsApart, ApartIn
<1>2. ASSUME NEW l \in Listeners, NEW reuse \in BOOLEAN, KinListenOpen(l, reuse)
      PROVE  SynsApart'
  <2>1. CASE UNCHANGED <<lst, ports>>
    BY <1>1, <2>1 DEF Backlogs
  <2>2. CASE Listens(l)
    BY <1>1, <2>2, ListensFacts
  <2>. QED  BY <1>2, <2>1, <2>2, ListenFacts
<1>3. ASSUME NEW r \in Accepts, NEW l \in Listeners, KinAcceptConn(r, l)
      PROVE  SynsApart'
  <2>1. CASE lst' = lst
    BY <1>1, <2>1 DEF Backlogs
  <2>2. ASSUME NEW c \in FreeConns, NEW wait, wait = <<c>> \o lst[l].wait, NEW cs,
               cs \in [Conns -> ConnRec], wait \in Seq(Conns),
               \/ /\ lst[l].backlog # <<>>
                  /\ ListenerAccept(l, lst[l].backlog, wait, cs)
               \/ lst' = [lst EXCEPT ![l].wait = wait]
        PROVE  SynsApart'
    <3>1. CASE lst[l].backlog # <<>> /\ ListenerAccept(l, lst[l].backlog, wait, cs)
      <4>1. /\ lst[l].backlog \in Seq(Syn) /\ lst[l].wait \in Seq(Conns)
            /\ [Backlogs EXCEPT ![l] = lst[l].backlog] = Backlogs /\ c \in Conns
        BY <1>3, AcceptConnFacts, WaitsType DEF Backlogs, FreeConns
      <4>2. wait # <<>>
        BY <2>2, <4>1, ConsList
      <4>. QED  BY <2>2, <3>1, <4>1, <4>2, ApartAccept DEF SynsApart
    <3>2. CASE lst' = [lst EXCEPT ![l].wait = wait]
      <4>1. Backlogs' = Backlogs
        BY <3>2 DEF Backlogs, Types, ListenRec
      <4>. QED  BY <1>1, <4>1
    <3>. QED  BY <2>2, <3>1, <3>2
  <2>. QED  BY <1>3, <2>1, <2>2, AcceptConnFacts
<1>4. ASSUME NEW s \in Segment, ListenerPacket(s) PROVE SynsApart'
  <2> DEFINE l == ListenerFor(s)
             e == [peer |-> s.peer, ts |-> s.ts, ecn |-> s.kind = "SYN_ECN"]
             bl == Append(lst[l].backlog, e)
  <2>1. /\ l \in Listeners /\ lst[l].wait \in Seq(Conns) /\ bl \in Seq(Syn)
        /\ lst[l].backlog \in Seq(Syn) /\ e \in Syn
        /\ \/ lst[l].wait # <<>> /\ ListenerAccept(l, bl, lst[l].wait, conn)
           \/ lst' = [lst EXCEPT ![l].backlog = bl]
    BY <1>4, ListenerFacts
  <2>2. ApartIn([Backlogs EXCEPT ![l] = bl])
    BY <1>4, ApartSyn
  <2>3. bl # <<>>
    BY <2>1, AppendList
  <2> HIDE DEF l, e, bl
  <2>4. CASE lst[l].wait # <<>> /\ ListenerAccept(l, bl, lst[l].wait, conn)
    <3>1. conn \in [Conns -> ConnRec]
      BY DEF Types
    <3>. QED  BY <2>1, <2>2, <2>3, <2>4, <3>1, ApartAccept
  <2>5. CASE lst' = [lst EXCEPT ![l].backlog = bl]
    <3>1. Backlogs' = [Backlogs EXCEPT ![l] = bl]
      BY <2>1, <2>5 DEF Backlogs, Types, ListenRec
    <3>. QED  BY <2>2, <3>1 DEF SynsApart, ApartIn
  <2>. QED  BY <2>1, <2>4, <2>5
<1>5. CASE UNCHANGED lst
  BY <1>1, <1>5 DEF Backlogs
<1>6. ASSUME NEW c \in Conns, NEW ok \in BOOLEAN, ArpComplete(c, ok) PROVE UNCHANGED lst
  BY <1>6 DEF ArpComplete
<1>7. ASSUME NEW r \in Opens, NEW p \in Peers, KinConnOpen(r, p) PROVE UNCHANGED lst
  BY <1>7 DEF KinConnOpen
<1>8. ASSUME NEW s \in Segment, ConnPacket(s) PROVE UNCHANGED lst
  BY <1>8 DEF ConnPacket
<1>9. ASSUME NEW t \in Tuples, TapSynAck(t) \/ PeerReceives(t) \/ LoseSynAck(t)
      PROVE  UNCHANGED lst
  BY <1>9 DEF TapSynAck, PeerReceives, LoseSynAck
<1>10. CASE TcpPoll \/ (\E c \in Conns : TcpTimeout(c)) \/ TapAccepted \/ AppRead
            \/ UNCHANGED vars
  BY <1>5, <1>10 DEF TcpPoll, TcpTimeout, TapAccepted, AppRead, vars
<1>. QED  BY <1>2, <1>3, <1>4, <1>5, <1>6, <1>7, <1>8, <1>9, <1>10 DEF Next

\* listener_accept: the connection that leaves takes over the entry's four-tuple.
LEMMA TuplesAccept ==
  ASSUME Types, NEW l \in Listeners, NEW bl \in Seq(Syn), bl # <<>>,
         ApartIn([Backlogs EXCEPT ![l] = bl]),
         NEW wait \in Seq(Conns), wait # <<>>, NEW cs \in [Conns -> ConnRec],
         ListsOn(cs, tcp_conns, [Waits EXCEPT ![l] = wait]),
         TuplesOn(cs, tcp_conns, [Waits EXCEPT ![l] = wait], [Backlogs EXCEPT ![l] = bl],
                  Openness, ports),
         ports' = ports, ListenerAccept(l, bl, wait, cs)
  PROVE  TuplesInv'
<1> DEFINE c == Head(wait)
           e == Head(bl)
           cr == Registered(cs[c], e)
           w == [Waits EXCEPT ![l] = wait]
           v == [Waits EXCEPT ![l] = Tail(wait)]
           bm == [Backlogs EXCEPT ![l] = bl]
           bn == [Backlogs EXCEPT ![l] = Tail(bl)]
<1>1. /\ c \in Conns /\ e \in Syn /\ lst' \in [Listeners -> ListenRec]
      /\ \A m \in Listeners : lst'[m].open = lst[m].open
      /\ \A m \in Listeners : m # l => lst'[m] = lst[m]
      /\ lst'[l].backlog = Tail(bl)
  BY AcceptFacts
<1>2. cr \in ConnRec /\ cr.peer = e.peer /\ cr.port = cs[c].port
  BY <1>1, RegisteredRec
<1>3. \/ /\ lst'[l].wait = wait
         /\ conn' = cs \/ conn' = [cs EXCEPT ![c] = cr]
         /\ tcp_conns' = tcp_conns /\ async_q' = async_q
      \/ /\ e.ts
         /\ lst'[l].wait = Tail(wait)
         /\ conn' = [cs EXCEPT ![c] = cr]
         /\ tcp_conns' = <<c>> \o tcp_conns
         /\ async_q' = Append(async_q, [c |-> c, ok |-> TRUE])
  BY AcceptFacts, Zenon
<1>4. /\ Waits \in [Listeners -> Seq(Conns)] /\ Backlogs \in [Listeners -> Seq(Syn)]
      /\ tcp_conns \in Seq(Conns) /\ Tail(wait) \in Seq(Conns) /\ Tail(bl) \in Seq(Syn)
  BY WaitsType, TailList DEF Types
<1>5. /\ w \in [Listeners -> Seq(Conns)] /\ w[l] = wait
      /\ v \in [Listeners -> Seq(Conns)] /\ v[l] = Tail(wait)
      /\ \A m \in Listeners : m # l => v[m] = w[m]
      /\ v = [w EXCEPT ![l] = Tail(wait)]
      /\ bm \in [Listeners -> Seq(Syn)] /\ bm[l] = bl /\ bm[l] # <<>>
      /\ bn \in [Listeners -> Seq(Syn)] /\ bn = [bm EXCEPT ![l] = Tail(bm[l])]
      /\ bn[l] = Tail(bl) /\ \A m \in Listeners : m # l => bn[m] = bm[m]
  BY <1>4
<1>6. Backlogs' = bn /\ Openness' = Openness
  BY <1>1, <1>4 DEF Backlogs, Openness
<1>7. Waits' = [w EXCEPT ![l] = lst'[l].wait]
  BY <1>1 DEF Waits
<1>8. /\ c \in Range(wait) /\ Range(wait) = {c} \cup Range(Tail(wait))
      /\ Distinct(wait) => c \notin Range(Tail(wait))
  BY TailList
<1> HIDE DEF w, v, bm, bn
<1>9. /\ ListsOn(cs, tcp_conns, w) /\ TuplesOn(cs, tcp_conns, w, bm, Openness, ports)
      /\ ApartIn(bm) /\ 1 \in DOMAIN bm[l] /\ bm[l][1] = e
  BY <1>5 DEF w, bm
<1>10. /\ TuplesOn(cs, tcp_conns, w, bn, Openness, ports)
       /\ Openness[l]
       /\ \A d \in Range(tcp_conns) : ~(cs[d].peer = e.peer /\ cs[d].port = ListenPort[l])
       /\ \A i \in DOMAIN bn[l] : bn[l][i].peer # e.peer
  <2>1. /\ TuplesOn(cs, tcp_conns, w, [bm EXCEPT ![l] = Tail(bm[l])], Openness, ports)
        /\ Openness[l]
        /\ \A d \in Range(tcp_conns) :
             ~(cs[d].peer = Head(bm[l]).peer /\ cs[d].port = ListenPort[l])
        /\ \A i \in DOMAIN Tail(bm[l]) : Tail(bm[l])[i].peer # Head(bm[l]).peer
    <3>1. bm \in [Listeners -> Seq(Syn)] /\ bm[l] # <<>>
      BY <1>5
    <3>2. TuplesOn(cs, tcp_conns, w, bm, Openness, ports)
      BY <1>9
    <3>. QED  BY ONLY l \in Listeners, <3>1, <3>2, TuplesConsume
  <2>2. bn = [bm EXCEPT ![l] = Tail(bm[l])] /\ bn[l] = Tail(bm[l]) /\ e = Head(bm[l])
    BY <1>5
  <2>. QED  BY <2>1, <2>2
<1>11. /\ c \notin Range(tcp_conns) /\ cs[c].port = ListenPort[l]
       /\ \A m \in Listeners : m # l => c \notin Range(w[m])
       /\ Distinct(wait)
  <2>1. c \in Range(w[l])
    BY <1>5, <1>8
  <2>2. /\ Distinct(w[l]) /\ \A d \in Range(w[l]) : d \notin Range(tcp_conns)
        /\ \A m \in Listeners : m # l => Range(w[l]) \cap Range(w[m]) = {}
    BY <1>9 DEF ListsOn
  <2>3. \A d \in Range(w[l]) : cs[d].port = ListenPort[l]
    BY <1>9 DEF TuplesOn
  <2>. QED  BY <1>5, <2>1, <2>2, <2>3
<1> HIDE DEF c, e, cr
<1>12. CASE /\ lst'[l].wait = wait
            /\ conn' = cs \/ conn' = [cs EXCEPT ![c] = cr]
            /\ tcp_conns' = tcp_conns
  <2>1. Waits' = w
    BY <1>5, <1>7, <1>12
  <2>2. TuplesOn([cs EXCEPT ![c] = cr], tcp_conns, w, bn, Openness, ports)
    BY <1>1, <1>2, <1>4, <1>5, <1>10, <1>11, TuplesUpdate
  <2>. QED  BY <1>6, <1>10, <1>12, <2>1, <2>2 DEF TuplesInv
<1>13. CASE /\ lst'[l].wait = Tail(wait)
            /\ conn' = [cs EXCEPT ![c] = cr]
            /\ tcp_conns' = <<c>> \o tcp_conns
  <2>1. Waits' = v
    BY <1>5, <1>7, <1>13
  <2>2. \A d \in Range(Tail(wait)) : cs[d].port = ListenPort[l]
    BY <1>5, <1>8, <1>9 DEF TuplesOn
  <2>3. TuplesOn(cs, tcp_conns, v, bn, Openness, ports)
    BY <1>4, <1>5, <1>10, <2>2, TuplesWaits
  <2>4. \A m \in Listeners : c \notin Range(v[m])
    BY <1>5, <1>8, <1>11
  <2>5. cr.port \in Ports /\ ports[cr.port].type # "UNUSED"
    BY <1>2, <1>10, <1>11, TcpAssumption DEF TuplesOn, Ports
  <2>6. \A d \in Range(tcp_conns) : ~(cs[d].peer = cr.peer /\ cs[d].port = cr.port)
    BY <1>2, <1>10, <1>11
  <2>7. \A m \in Listeners : \A i \in DOMAIN bn[m] :
          ~(bn[m][i].peer = cr.peer /\ ListenPort[m] = cr.port)
    <3>. SUFFICES ASSUME NEW m \in Listeners, NEW i \in DOMAIN bn[m],
                         ListenPort[m] = ListenPort[l]
                  PROVE  bn[m][i].peer # e.peer
      BY <1>2, <1>11
    <3>1. CASE m = l
      BY <1>10, <3>1
    <3>2. CASE m # l
      BY <1>5, <1>9, <3>2 DEF ApartIn
    <3>. QED  BY <3>1, <3>2
  <2>8. TuplesOn([cs EXCEPT ![c] = cr], <<c>> \o tcp_conns, v, bn, Openness, ports)
    BY <1>1, <1>2, <1>4, <1>5, <1>11, <2>3, <2>4, <2>5, <2>6, <2>7, TuplesPush
  <2>. QED  BY <1>6, <1>13, <2>1, <2>8 DEF TuplesInv
<1>. QED  BY <1>3, <1>12, <1>13

LEMMA TuplesStep ==
  ASSUME SynsTogether, Types, Lists, TuplesInv, SynsApart, [Next]_vars
  PROVE  TuplesInv'
<1> USE WaitsType
<1>0. /\ conn \in [Conns -> ConnRec] /\ tcp_conns \in Seq(Conns)
      /\ ports \in [Ports -> PortRec] /\ Openness \in [Listeners -> BOOLEAN]
      /\ \A l \in Listeners : ListenPort[l] \in Ports
  BY TcpAssumption DEF Types, ListenRec, Openness, Ports
<1>a. ASSUME NEW c \in Conns, conn[c].st = "FREE"
      PROVE  c \notin Range(tcp_conns) /\ \A m \in Listeners : c \notin Range(Waits[m])
  BY <1>a DEF Lists, ListsOn
<1>b. ASSUME NEW c \in Conns, c \in Listed
      PROVE  c \in Range(tcp_conns) /\ \A m \in Listeners : c \notin Range(Waits[m])
  BY <1>b DEF Lists, ListsOn, Listed
<1>c. ASSUME lst' = lst
      PROVE  Waits' = Waits /\ Backlogs' = Backlogs /\ Openness' = Openness
  BY <1>c DEF Waits, Backlogs, Openness
<1>1. ASSUME NEW r \in Opens, NEW p \in Peers, KinConnOpen(r, p) PROVE TuplesInv'
  <2>1. /\ r \in Reqs /\ Waits' = Waits /\ Backlogs' = Backlogs /\ Openness' = Openness
    BY <1>1, <1>c, OpenFacts
  <2>2. CASE NoAlloc
    BY <2>1, <2>2 DEF NoAlloc, TuplesInv
  <2>3. CASE \E port \in PortAlloc \ {0}, c \in FreeConns, resolved \in BOOLEAN :
               Alloc(r, p, port, c, resolved)
    <3>1. PICK port \in PortAlloc \ {0}, c \in FreeConns, resolved \in BOOLEAN :
                 Alloc(r, p, port, c, resolved)
      BY <2>3
    <3>2. /\ c \in Conns /\ conn[c].st = "FREE" /\ tcp_conns' = <<c>> \o tcp_conns
          /\ port \in Ports /\ ports[port].type = "UNUSED"
          /\ ports' = [ports EXCEPT ![port] = [type |-> "CONN", ls |-> <<>>]]
      BY <2>1, <3>1, AllocFacts
    <3>3. PICK cr \in ConnRec : IsNew(cr, r, p, port, c)
      BY <2>1, <3>1, AllocFacts
    <3> DEFINE qs == [ports EXCEPT ![port] = [type |-> "CONN", ls |-> <<>>]]
    <3>4. TuplesOn(conn, tcp_conns, Waits, Backlogs, Openness, qs)
      BY <1>0, <3>2, TuplesPorts DEF TuplesInv
    <3>5. cr.port = port /\ cr.port \in Ports /\ qs[cr.port].type # "UNUSED"
      BY <1>0, <3>2, <3>3 DEF IsNew
    <3>6. \A d \in Range(tcp_conns) : ~(conn[d].peer = cr.peer /\ conn[d].port = cr.port)
      BY <3>2, <3>5 DEF TuplesInv, TuplesOn
    <3>7. \A m \in Listeners : \A i \in DOMAIN Backlogs[m] :
            ~(Backlogs[m][i].peer = cr.peer /\ ListenPort[m] = cr.port)
      <4>. SUFFICES ASSUME NEW m \in Listeners, NEW i \in DOMAIN Backlogs[m],
                           ListenPort[m] = cr.port
                    PROVE  FALSE
        OBVIOUS
      <4>1. Backlogs[m] # <<>>
        BY <1>0
      <4>2. ports[ListenPort[m]].type # "UNUSED"
        BY <4>1 DEF TuplesInv, TuplesOn
      <4>. QED  BY <3>2, <3>5, <4>2
    <3>8. c \notin Range(tcp_conns) /\ \A m \in Listeners : c \notin Range(Waits[m])
      BY <1>a, <3>2
    <3> HIDE DEF qs
    <3>9. TuplesOn([conn EXCEPT ![c] = cr], <<c>> \o tcp_conns, Waits, Backlogs, Openness, qs)
      BY <1>0, <3>2, <3>4, <3>5, <3>6, <3>7, <3>8, TuplesPush
    <3>. QED  BY <2>1, <3>2, <3>3, <3>9 DEF TuplesInv, IsNew, qs
  <2>. QED  BY <1>1, <2>2, <2>3, OpenFacts
<1>2. ASSUME NEW l \in Listeners, NEW reuse \in BOOLEAN, KinListenOpen(l, reuse)
      PROVE  TuplesInv'
  <2>1. UNCHANGED <<conn, tcp_conns>> /\ (UNCHANGED <<lst, ports>> \/ Listens(l))
    BY <1>2, ListenFacts
  <2>2. CASE UNCHANGED <<lst, ports>>
    BY <1>c, <2>1, <2>2 DEF TuplesInv
  <2>3. CASE Listens(l)
    <3>1. PICK ty \in {"LISTEN", "LMULTI"} :
            ports' = [ports EXCEPT ![ListenPort[l]] =
                        [type |-> ty, ls |-> Append(ports[ListenPort[l]].ls, l)]]
      BY <2>3 DEF Listens
    <3>2. /\ Waits' = Waits /\ Backlogs' = Backlogs /\ lst'[l].open = TRUE
          /\ \A m \in Listeners : m # l => lst'[m] = lst[m]
      BY <2>3, ListensFacts
    <3>3. Openness' = [Openness EXCEPT ![l] = TRUE]
      BY <3>2 DEF Openness
    <3>4. TuplesOn(conn, tcp_conns, Waits, Backlogs, Openness', ports')
      BY <1>0, <3>1, <3>3, TuplesListen DEF TuplesInv
    <3>. QED  BY <2>1, <3>2, <3>4 DEF TuplesInv
  <2>. QED  BY <2>1, <2>2, <2>3
<1>3. ASSUME NEW r \in Accepts, NEW l \in Listeners, KinAcceptConn(r, l)
      PROVE  TuplesInv'
  <2>0. ports' = ports /\ lst[l].open
    BY <1>3, AcceptConnFacts
  <2>1. CASE UNCHANGED <<conn, tcp_conns, lst, async_q>>
    BY <1>c, <2>0, <2>1 DEF TuplesInv
  <2>2. ASSUME NEW c \in FreeConns, NEW cs \in [Conns -> ConnRec], NEW wait \in Seq(Conns),
               cs = [conn EXCEPT ![c] = Accepted(r, ListenPort[l])],
               wait = <<c>> \o lst[l].wait,
               \/ lst[l].backlog # <<>> /\ ListenerAccept(l, lst[l].backlog, wait, cs)
               \/ /\ conn' = cs /\ lst' = [lst EXCEPT ![l].wait = wait]
                  /\ UNCHANGED <<tcp_conns, async_q>>
        PROVE  TuplesInv'
    <3> DEFINE cr == Accepted(r, ListenPort[l])
               w == [Waits EXCEPT ![l] = wait]
    <3>1. /\ r \in Reqs /\ ListenPort[l] \in Ports /\ lst[l].wait \in Seq(Conns)
          /\ lst[l].backlog \in Seq(Syn)
      BY <1>3, AcceptConnFacts
    <3>2. /\ c \in Conns /\ conn[c].st = "FREE" /\ wait # <<>>
          /\ lst[l].wait = Waits[l] /\ lst[l].backlog = Backlogs[l]
          /\ Range(wait) = {c} \cup Range(Waits[l])
      BY <2>2, <3>1, ConsList DEF FreeConns, Waits, Backlogs
    <3>3. /\ cr \in ConnRec /\ cr.st = "SYN_WAIT" /\ cr.armed = FALSE
          /\ cr.port = ListenPort[l]
      BY <3>1, AcceptedRec
    <3>4. cs = [conn EXCEPT ![c] = cr] /\ wait = <<c>> \o Waits[l]
      BY <2>2, <3>2
    <3> HIDE DEF cr
    <3>5. ListsOn(cs, tcp_conns, w)
      <4>1. ListsOn([conn EXCEPT ![c] = cr], tcp_conns, [Waits EXCEPT ![l] = <<c>> \o Waits[l]])
        BY <1>0, <3>2, <3>3, ListsWait DEF Lists
      <4>. QED  BY <3>4, <4>1
    <3>6. TuplesOn(cs, tcp_conns, w, Backlogs, Openness, ports)
      <4>1. c \notin Range(tcp_conns) /\ \A m \in Listeners : c \notin Range(Waits[m])
        BY <1>a, <3>2
      <4>2. TuplesOn(cs, tcp_conns, Waits, Backlogs, Openness, ports)
        BY <1>0, <3>2, <3>3, <3>4, <4>1, TuplesUpdate DEF TuplesInv
      <4>3. Range(Waits[l]) \subseteq Conns
        BY RangeIn
      <4>4. \A d \in Range(wait) : cs[d].port = ListenPort[l]
        <5>1. cs[c].port = ListenPort[l]
          BY <1>0, <3>2, <3>3, <3>4
        <5>2. \A d \in Range(Waits[l]) : cs[d].port = ListenPort[l]
          BY <4>2 DEF TuplesOn
        <5>. QED  BY <3>2, <5>1, <5>2
      <4>5. Openness[l]
        BY <2>0 DEF Openness
      <4>. QED  BY <4>2, <4>4, <4>5, TuplesWaits
    <3>7. CASE lst[l].backlog # <<>> /\ ListenerAccept(l, lst[l].backlog, wait, cs)
      <4>1. [Backlogs EXCEPT ![l] = lst[l].backlog] = Backlogs
        BY <3>2
      <4>. QED  BY <2>0, <3>1, <3>2, <3>5, <3>6, <3>7, <4>1, TuplesAccept DEF SynsApart
    <3>8. CASE /\ conn' = cs /\ lst' = [lst EXCEPT ![l].wait = wait]
               /\ UNCHANGED <<tcp_conns, async_q>>
      <4>1. Waits' = w /\ Backlogs' = Backlogs /\ Openness' = Openness
        BY <3>8 DEF Waits, Backlogs, Openness, Types, ListenRec
      <4>. QED  BY <2>0, <3>6, <3>8, <4>1 DEF TuplesInv
    <3>. QED  BY <2>2, <3>7, <3>8
  <2>. QED  BY <1>3, <2>1, <2>2, AcceptConnFacts
<1>4. ASSUME NEW c \in Conns, NEW ok \in BOOLEAN, ArpComplete(c, ok)
      PROVE  TuplesInv'
  BY <1>4, <1>c DEF ArpComplete, TuplesInv
<1>5. CASE TcpPoll
  <2> DEFINE e == Head(async_q)
  <2>1. lst' = lst /\ ports' = ports /\ e.c \in Conns
    <3>1. async_q \in Seq([c : Conns, ok : BOOLEAN]) /\ async_q # <<>>
      BY <1>5 DEF TcpPoll, Types
    <3>2. e \in [c : Conns, ok : BOOLEAN]
      BY <3>1, TailList
    <3>. QED  BY <1>5, <3>2 DEF TcpPoll
  <2>2. \/ UNCHANGED <<conn, tcp_conns>>
        \/ /\ conn[e.c].st = "ARP_PENDING"
           /\ \/ /\ conn' = [conn EXCEPT ![e.c] = SynSent(@)]
                 /\ tcp_conns' = tcp_conns
              \/ ConnFailed(e.c, conn)
    BY <1>5 DEF TcpPoll
  <2> HIDE DEF e
  <2>3. CASE UNCHANGED <<conn, tcp_conns>>
    BY <1>c, <2>1, <2>3 DEF TuplesInv
  <2>4. CASE conn[e.c].st = "ARP_PENDING" /\ ConnFailed(e.c, conn)
    <3>1. conn = [conn EXCEPT ![e.c] = conn[e.c]] /\ conn[e.c] \in ConnRec
      BY <1>0, <2>1
    <3>2. e.c \in Listed
      BY <2>1, <2>4 DEF Lists, ListsOn, Listed
    <3>. QED  BY <2>1, <2>4, <3>1, <3>2, TuplesFail
  <2>5. CASE /\ conn' = [conn EXCEPT ![e.c] = SynSent(@)] /\ tcp_conns' = tcp_conns
             /\ conn[e.c].st = "ARP_PENDING"
    <3>1. conn[e.c] \in ConnRec /\ e.c \in Listed
      BY <1>0, <2>1, <2>5 DEF Lists, ListsOn, Listed
    <3>2. /\ SynSent(conn[e.c]) \in ConnRec /\ SynSent(conn[e.c]).peer = conn[e.c].peer
          /\ SynSent(conn[e.c]).port = conn[e.c].port
      BY <3>1, SynSentRec
    <3>3. TuplesOn([conn EXCEPT ![e.c] = SynSent(conn[e.c])], tcp_conns, Waits, Backlogs,
                   Openness, ports)
      BY <1>0, <1>b, <2>1, <3>1, <3>2, TuplesUpdate DEF TuplesInv
    <3>. QED  BY <1>c, <2>1, <2>5, <3>3 DEF TuplesInv
  <2>. QED  BY <2>2, <2>3, <2>4, <2>5
<1>6. ASSUME NEW c \in Conns, TcpTimeout(c) PROVE TuplesInv'
  <2>1. /\ conn[c].st = "SYN_SENT" /\ conn[c].attempts <= Retries
        /\ lst' = lst /\ ports' = ports /\ conn[c] \in ConnRec
    BY <1>0, <1>6, TimeoutFacts
  <2>2. c \in Listed
    BY <2>1 DEF Lists, ListsOn, Listed
  <2>3. CASE ConnFailed(c, [conn EXCEPT ![c] = Expired(conn[c])])
    BY <2>1, <2>2, <2>3, ExpiredRec, TuplesFail
  <2>4. CASE conn' = [conn EXCEPT ![c] = Retried(conn[c])] /\ tcp_conns' = tcp_conns
    <3>1. /\ Retried(conn[c]) \in ConnRec /\ Retried(conn[c]).peer = conn[c].peer
          /\ Retried(conn[c]).port = conn[c].port
      BY <2>1, RetriedRec
    <3>2. TuplesOn([conn EXCEPT ![c] = Retried(conn[c])], tcp_conns, Waits, Backlogs,
                   Openness, ports)
      BY <1>0, <1>b, <2>2, <3>1, TuplesUpdate DEF TuplesInv
    <3>. QED  BY <1>c, <2>1, <2>4, <3>2 DEF TuplesInv
  <2>. QED  BY <1>6, <2>3, <2>4, TimeoutFacts
<1>7. ASSUME NEW s \in Segment, ConnPacket(s) PROVE TuplesInv'
  <2>1. lst' = lst /\ ports' = ports
    BY <1>7, PacketFacts
  <2>2. CASE UNCHANGED <<conn, tcp_conns, kout, kout_pos>>
    BY <1>c, <2>1, <2>2 DEF TuplesInv
  <2>3. ASSUME NEW c \in Conns, c \in Listed,
               ConnFailed(c, [conn EXCEPT ![c] = Disarmed(conn[c])])
        PROVE  TuplesInv'
    <3>1. conn[c] \in ConnRec
      BY <1>0
    <3>. QED  BY <2>1, <2>3, <3>1, DisarmedRec, TuplesFail
  <2>4. ASSUME NEW c \in Conns, c \in Listed, ConnFailed(c, conn)
        PROVE  TuplesInv'
    <3>1. conn = [conn EXCEPT ![c] = conn[c]] /\ conn[c] \in ConnRec
      BY <1>0
    <3>. QED  BY <2>1, <2>4, <3>1, TuplesFail
  <2>5. ASSUME NEW c \in Conns, c \in Listed, NEW ecn \in BOOLEAN,
               conn' = [conn EXCEPT ![c] = Established(conn[c], ecn)],
               tcp_conns' = tcp_conns
        PROVE  TuplesInv'
    <3>1. conn[c] \in ConnRec
      BY <1>0
    <3>2. /\ Established(conn[c], ecn) \in ConnRec
          /\ Established(conn[c], ecn).peer = conn[c].peer
          /\ Established(conn[c], ecn).port = conn[c].port
      BY <3>1, EstablishedRec
    <3>3. TuplesOn([conn EXCEPT ![c] = Established(conn[c], ecn)], tcp_conns, Waits,
                   Backlogs, Openness, ports)
      BY <1>0, <1>b, <2>5, <3>2, TuplesUpdate DEF TuplesInv
    <3>. QED  BY <1>c, <2>1, <2>5, <3>3 DEF TuplesInv
  <2>. QED  BY <1>7, <2>2, <2>3, <2>4, <2>5, PacketFacts DEF PacketCases
<1>8. ASSUME NEW s \in Segment, ListenerPacket(s) PROVE TuplesInv'
  <2> DEFINE l == ListenerFor(s)
             e == [peer |-> s.peer, ts |-> s.ts, ecn |-> s.kind = "SYN_ECN"]
             bl == Append(lst[l].backlog, e)
             bm == [Backlogs EXCEPT ![l] = bl]
  <2>1. /\ l \in Listeners /\ lst[l].wait \in Seq(Conns) /\ bl \in Seq(Syn)
        /\ lst[l].backlog \in Seq(Syn) /\ e \in Syn /\ ports' = ports
        /\ s.port \in Ports
        /\ \E i \in DOMAIN ports[s.port].ls : l = ports[s.port].ls[i]
        /\ \A c \in Listed : ~(conn[c].peer = s.peer /\ conn[c].port = s.port)
        /\ \A i \in DOMAIN lst[l].backlog : lst[l].backlog[i].peer # s.peer
    BY <1>8, ListenerFacts
  <2>2. bl # <<>>
    BY <2>1, AppendList
  <2>3. \/ lst[l].wait # <<>> /\ ListenerAccept(l, bl, lst[l].wait, conn)
        \/ lst' = [lst EXCEPT ![l].backlog = bl] /\ UNCHANGED <<conn, tcp_conns, async_q>>
    BY <1>8, ListenerFacts
  <2>4. e.peer = s.peer
    OBVIOUS
  <2>. HIDE DEF l, e
  <2>5. Openness[l] /\ ListenPort[l] = s.port
    BY <2>1 DEF TuplesInv, TuplesOn
  <2>6. Backlogs[l] = lst[l].backlog /\ bm = [Backlogs EXCEPT ![l] = Append(Backlogs[l], e)]
    BY <2>1 DEF Backlogs
  <2>7. TuplesOn(conn, tcp_conns, Waits, bm, Openness, ports)
    <3>1. TuplesOn(conn, tcp_conns, Waits, Backlogs, Openness, ports)
      BY DEF TuplesInv
    <3>2. \A d \in Range(tcp_conns) : ~(conn[d].peer = e.peer /\ conn[d].port = ListenPort[l])
      BY <2>1, <2>4, <2>5 DEF Listed
    <3>3. \A i \in DOMAIN Backlogs[l] : Backlogs[l][i].peer # e.peer
      BY <2>1, <2>4, <2>6
    <3> HIDE DEF bm
    <3>4. TuplesOn(conn, tcp_conns, Waits, [Backlogs EXCEPT ![l] = Append(Backlogs[l], e)],
                   Openness, ports)
      BY <2>1, <2>5, <3>1, <3>2, <3>3, TuplesQueue
    <3>. QED  BY <2>6, <3>4
  <2>. HIDE DEF bl, bm
  <2>8. CASE lst[l].wait # <<>> /\ ListenerAccept(l, bl, lst[l].wait, conn)
    <3>1. [Waits EXCEPT ![l] = lst[l].wait] = Waits
      BY <2>1 DEF Waits
    <3>2. ApartIn(bm)
      BY <1>8, ApartSyn DEF l, e, bl, bm
    <3>. QED  BY <1>0, <2>1, <2>2, <2>7, <2>8, <3>1, <3>2, TuplesAccept DEF Lists, bm
  <2>9. CASE lst' = [lst EXCEPT ![l].backlog = bl] /\ UNCHANGED <<conn, tcp_conns, async_q>>
    <3>1. Waits' = Waits /\ Openness' = Openness /\ Backlogs' = bm
      BY <2>1, <2>9 DEF Waits, Openness, Backlogs, bm, Types, ListenRec
    <3>. QED  BY <2>1, <2>7, <2>9, <3>1 DEF TuplesInv
  <2>. QED  BY <2>3, <2>8, <2>9
<1>9. ASSUME NEW t \in Tuples, TapSynAck(t) PROVE TuplesInv'
  <2>1. tcp_conns' = tcp_conns /\ lst' = lst /\ ports' = ports
    BY <1>9, TapFacts
  <2>2. CASE UNCHANGED <<conn, tap>>
    BY <1>c, <2>1, <2>2 DEF TuplesInv
  <2>3. ASSUME NEW c \in Conns, c \in Listed,
               conn' = [conn EXCEPT ![c] = SynAcked(conn[c])]
        PROVE  TuplesInv'
    <3>1. conn[c] \in ConnRec
      BY <1>0
    <3>2. TuplesOn([conn EXCEPT ![c] = SynAcked(conn[c])], tcp_conns, Waits, Backlogs,
                   Openness, ports)
      BY <1>0, <1>b, <2>3, <3>1, SynAckedRec, TuplesUpdate DEF TuplesInv
    <3>. QED  BY <1>c, <2>1, <2>3, <3>2 DEF TuplesInv
  <2>. QED  BY <1>9, <2>2, <2>3, TapFacts
<1>10. ASSUME NEW t \in Tuples, PeerReceives(t) \/ LoseSynAck(t) PROVE TuplesInv'
  BY <1>10, <1>c DEF PeerReceives, LoseSynAck, TuplesInv
<1>11. CASE TapAccepted
  BY <1>11, <1>c DEF TapAccepted, TuplesInv
<1>12. CASE AppRead
  BY <1>12, <1>c DEF AppRead, TuplesInv
<1>13. CASE UNCHANGED vars
  BY <1>13, <1>c DEF vars, TuplesInv
<1>. QED  BY <1>1, <1>2, <1>3, <1>4, <1>5, <1>6, <1>7, <1>8, <1>9, <1>10, <1>11,
             <1>12, <1>13 DEF Next

-----------------------------------------------------------------------------
(* Answers.                                                                *)

InHandshake(st) == st \in {"SYN_WAIT", "ARP_PENDING", "SYN_SENT", "REG_SYNACK"}

\* A connection changes: it keeps its request as long as the answer is due.
LEMMA AnswersUpdate ==
  ASSUME NEW cs \in [Conns -> ConnRec], NEW tp, NEW ko, NEW tld, NEW as,
         AnswersOn(cs, tp, ko, tld, as), tp # Idle => tp.c \in Conns,
         NEW c \in Conns, NEW cr \in ConnRec,
         InHandshake(cr.st) => c \in PendingIn(cs, tp) /\ cr.req = cs[c].req,
         tp # Idle => tp.c # c
  PROVE  /\ AnswersOn([cs EXCEPT ![c] = cr], tp, ko, tld, as)
         /\ PendingIn([cs EXCEPT ![c] = cr], tp) \subseteq PendingIn(cs, tp)
         /\ c \in PendingIn([cs EXCEPT ![c] = cr], tp) => InHandshake(cr.st)
<1> DEFINE ks == [cs EXCEPT ![c] = cr]
<1>1. ks[c] = cr /\ \A d \in Conns : d # c => ks[d] = cs[d]
  OBVIOUS
<1> HIDE DEF ks
<1>2. \A d \in PendingIn(ks, tp) : d \in PendingIn(cs, tp) /\ ks[d].req = cs[d].req
  BY <1>1 DEF PendingIn, InHandshake
<1>3. c \in PendingIn(ks, tp) => InHandshake(cr.st)
  BY <1>1 DEF PendingIn, InHandshake
<1>4. tp # Idle => ks[tp.c].st = "OPEN"
  BY <1>1 DEF AnswersOn
<1>5. \A d \in PendingIn(ks, tp) : /\ ks[d].req \in as /\ tld[ks[d].req] = <<>>
                                   /\ ~AnsweredIn(ko, ks[d].req)
  BY <1>2 DEF AnswersOn
<1>6. \A a, b \in PendingIn(ks, tp) : ks[a].req = ks[b].req => a = b
  BY <1>2 DEF AnswersOn
<1>7. AnswersOn(ks, tp, ko, tld, as)
  BY <1>4, <1>5, <1>6 DEF AnswersOn
<1>8. PendingIn(ks, tp) \subseteq PendingIn(cs, tp)
  BY <1>2
<1>. QED  BY <1>3, <1>7, <1>8 DEF ks

\* An answer is written into the queue, over whatever was there.
LEMMA AnswersPut ==
  ASSUME NEW cs, NEW tp, NEW ko \in [0..KoutLen-1 -> Event], NEW tld, NEW as,
         AnswersOn(cs, tp, ko, tld, as), NEW i \in 0..KoutLen-1, NEW e \in Event,
         IsAnswer(e) => /\ e.op \in as /\ tld[e.op] = <<>> /\ ~AnsweredIn(ko, e.op)
                        /\ \A c \in PendingIn(cs, tp) : cs[c].req # e.op
  PROVE  AnswersOn(cs, tp, [ko EXCEPT ![i] = e], tld, as)
<1> DEFINE kn == [ko EXCEPT ![i] = e]
<1>1. kn[i] = e /\ \A j \in 0..KoutLen-1 : j # i => kn[j] = ko[j]
  OBVIOUS
<1> HIDE DEF kn
<1>2. \A c \in PendingIn(cs, tp) : ~AnsweredIn(kn, cs[c].req)
  <2>. SUFFICES ASSUME NEW c \in PendingIn(cs, tp), NEW j \in 0..KoutLen-1,
                       IsAnswer(kn[j]), kn[j].op = cs[c].req
                PROVE  FALSE
    BY DEF AnsweredIn
  <2>1. ~AnsweredIn(ko, cs[c].req)
    BY DEF AnswersOn
  <2>2. CASE j = i
    BY <1>1, <2>2
  <2>3. CASE j # i
    BY <1>1, <2>1, <2>3 DEF AnsweredIn
  <2>. QED  BY <2>2, <2>3
<1>3. \A j \in 0..KoutLen-1 : IsAnswer(kn[j]) => kn[j].op \in as /\ tld[kn[j].op] = <<>>
  BY <1>1 DEF AnswersOn
<1>4. \A j, k \in 0..KoutLen-1 :
        IsAnswer(kn[j]) /\ IsAnswer(kn[k]) /\ kn[j].op = kn[k].op => j = k
  <2>. SUFFICES ASSUME NEW j \in 0..KoutLen-1, NEW k \in 0..KoutLen-1,
                       IsAnswer(kn[j]), IsAnswer(kn[k]), kn[j].op = kn[k].op
                PROVE  j = k
    OBVIOUS
  <2>1. CASE j # i /\ k # i
    BY <1>1, <2>1 DEF AnswersOn
  <2>2. CASE j = i /\ k # i
    BY <1>1, <2>2 DEF AnsweredIn
  <2>3. CASE j # i /\ k = i
    BY <1>1, <2>3 DEF AnsweredIn
  <2>. QED  BY <2>1, <2>2, <2>3
<1>5. AnswersOn(cs, tp, kn, tld, as)
  BY <1>2, <1>3, <1>4 DEF AnswersOn
<1>. QED  BY <1>5 DEF kn

\* A request is made.
LEMMA AnswersAsk ==
  ASSUME NEW cs, NEW tp, NEW ko, NEW tld, NEW as, AnswersOn(cs, tp, ko, tld, as),
         NEW r \in Reqs, r \notin as
  PROVE  /\ AnswersOn(cs, tp, ko, tld, as \cup {r})
         /\ tld[r] = <<>> /\ ~AnsweredIn(ko, r)
         /\ \A c \in PendingIn(cs, tp) : cs[c].req # r
BY DEF AnswersOn, AnsweredIn

\* A connection is allocated for a request that was just made.
LEMMA AnswersNew ==
  ASSUME NEW cs \in [Conns -> ConnRec], NEW tp, NEW ko, NEW tld, NEW as,
         AnswersOn(cs, tp, ko, tld, as), tp # Idle => tp.c \in Conns,
         NEW c \in Conns, NEW cr \in ConnRec, cs[c].st = "FREE",
         cr.req \in as, tld[cr.req] = <<>>, ~AnsweredIn(ko, cr.req),
         \A d \in PendingIn(cs, tp) : cs[d].req # cr.req
  PROVE  AnswersOn([cs EXCEPT ![c] = cr], tp, ko, tld, as)
<1> DEFINE ks == [cs EXCEPT ![c] = cr]
<1>1. ks[c] = cr /\ \A d \in Conns : d # c => ks[d] = cs[d]
  OBVIOUS
<1>2. tp # Idle => tp.c # c
  BY DEF AnswersOn
<1> HIDE DEF ks
<1>3. \A d \in PendingIn(ks, tp) : d = c \/ (d \in PendingIn(cs, tp) /\ ks[d].req = cs[d].req)
  BY <1>1 DEF PendingIn
<1>4. tp # Idle => ks[tp.c].st = "OPEN"
  BY <1>1, <1>2 DEF AnswersOn
<1>5. \A d \in PendingIn(ks, tp) : /\ ks[d].req \in as /\ tld[ks[d].req] = <<>>
                                   /\ ~AnsweredIn(ko, ks[d].req)
  <2>. SUFFICES ASSUME NEW d \in PendingIn(ks, tp)
                PROVE  /\ ks[d].req \in as /\ tld[ks[d].req] = <<>>
                       /\ ~AnsweredIn(ko, ks[d].req)
    OBVIOUS
  <2>1. CASE d = c
    BY <1>1, <2>1
  <2>2. CASE d \in PendingIn(cs, tp) /\ ks[d].req = cs[d].req
    BY <2>2 DEF AnswersOn
  <2>. QED  BY <1>3, <2>1, <2>2
<1>6. \A a, b \in PendingIn(ks, tp) : ks[a].req = ks[b].req => a = b
  BY <1>1, <1>3 DEF AnswersOn
<1>7. AnswersOn(ks, tp, ko, tld, as)
  BY <1>4, <1>5, <1>6 DEF AnswersOn
<1>. QED  BY <1>7 DEF ks

\* The TAP thread is done with its connection.
LEMMA AnswersIdle ==
  ASSUME NEW cs, NEW tp, NEW ko, NEW tld, NEW as, AnswersOn(cs, tp, ko, tld, as),
         tp # Idle, tp.c \in Conns
  PROVE  /\ AnswersOn(cs, Idle, ko, tld, as)
         /\ cs[tp.c].req \in as /\ tld[cs[tp.c].req] = <<>> /\ ~AnsweredIn(ko, cs[tp.c].req)
         /\ \A d \in PendingIn(cs, Idle) : cs[d].req # cs[tp.c].req
<1>1. cs[tp.c].st = "OPEN"
  BY DEF AnswersOn
<1>2. tp.c \in PendingIn(cs, tp) /\ tp.c \notin PendingIn(cs, Idle)
      /\ PendingIn(cs, Idle) \subseteq PendingIn(cs, tp)
  BY <1>1 DEF PendingIn
<1>3. AnswersOn(cs, Idle, ko, tld, as)
  BY <1>2 DEF AnswersOn
<1>. QED  BY <1>2, <1>3 DEF AnswersOn

\* The TAP thread opens the connection c and may go on to announce it.
LEMMA AnswersTap ==
  ASSUME NEW cs \in [Conns -> ConnRec], NEW ko, NEW tld, NEW as,
         AnswersOn(cs, Idle, ko, tld, as), NEW c \in Conns, InHandshake(cs[c].st),
         NEW cr \in ConnRec, cr.st = "OPEN", cr.req = cs[c].req,
         NEW tp, tp # Idle => tp.c = c
  PROVE  AnswersOn([cs EXCEPT ![c] = cr], tp, ko, tld, as)
<1> DEFINE ks == [cs EXCEPT ![c] = cr]
<1>1. ks[c] = cr /\ \A d \in Conns : d # c => ks[d] = cs[d]
  OBVIOUS
<1> HIDE DEF ks
<1>2. \A d \in PendingIn(ks, tp) : d \in PendingIn(cs, Idle) /\ ks[d].req = cs[d].req
  BY <1>1 DEF PendingIn, InHandshake
<1>3. \A d \in PendingIn(ks, tp) : /\ ks[d].req \in as /\ tld[ks[d].req] = <<>>
                                   /\ ~AnsweredIn(ko, ks[d].req)
  BY <1>2 DEF AnswersOn
<1>4. \A a, b \in PendingIn(ks, tp) : ks[a].req = ks[b].req => a = b
  BY <1>2 DEF AnswersOn
<1>5. AnswersOn(ks, tp, ko, tld, as)
  BY <1>1, <1>3, <1>4 DEF AnswersOn
<1>. QED  BY <1>5 DEF ks

\* The application reads the entry i.
LEMMA AnswersRead ==
  ASSUME NEW cs, NEW tp, NEW ko \in [0..KoutLen-1 -> Event],
         NEW tld \in [Reqs -> Seq({"ok", "fail"})], NEW as, as \subseteq Reqs,
         AnswersOn(cs, tp, ko, tld, as), NEW i \in 0..KoutLen-1
  PROVE  LET e == ko[i]
             kn == [ko EXCEPT ![i] = NoEvent] IN
         /\ ~IsAnswer(e) => AnswersOn(cs, tp, kn, tld, as)
         /\ IsAnswer(e) =>
              /\ e.op \in as /\ e.op \in Reqs /\ tld[e.op] = <<>>
              /\ AnswersOn(cs, tp, kn, [tld EXCEPT ![e.op] = Append(@, e.st)], as)
<1> DEFINE e == ko[i]
           kn == [ko EXCEPT ![i] = NoEvent]
<1>1. ~IsAnswer(NoEvent) /\ NoEvent \in Event
  BY DEF NoEvent, IsAnswer, Event
<1>2. kn[i] = NoEvent /\ \A j \in 0..KoutLen-1 : j # i => kn[j] = ko[j]
  OBVIOUS
<1>3. AnswersOn(cs, tp, kn, tld, as)
  BY <1>1, AnswersPut
<1> HIDE DEF kn
<1>4. ASSUME IsAnswer(e)
      PROVE  /\ e.op \in as /\ e.op \in Reqs /\ tld[e.op] = <<>>
             /\ AnswersOn(cs, tp, kn, [tld EXCEPT ![e.op] = Append(@, e.st)], as)
  <2> DEFINE tn == [tld EXCEPT ![e.op] = Append(@, e.st)]
  <2>1. e.op \in as /\ e.op \in Reqs /\ tld[e.op] = <<>>
    BY <1>4 DEF AnswersOn
  <2>2. \A r \in Reqs : r # e.op => tn[r] = tld[r]
    OBVIOUS
  <2>3. \A c \in PendingIn(cs, tp) : cs[c].req # e.op /\ cs[c].req \in Reqs
    BY <1>4 DEF AnswersOn, AnsweredIn
  <2>4. \A j \in 0..KoutLen-1 : IsAnswer(kn[j]) => kn[j].op # e.op /\ kn[j].op \in Reqs
    BY <1>1, <1>2, <1>4 DEF AnswersOn
  <2> HIDE DEF tn, e
  <2>5. AnswersOn(cs, tp, kn, tn, as)
    BY <1>3, <2>1, <2>2, <2>3, <2>4 DEF AnswersOn
  <2>. QED  BY <2>1, <2>5 DEF tn
<1>. QED  BY <1>3, <1>4 DEF kn

\* A handshake is over, and the answer is written into the queue.
LEMMA AnswersDone ==
  ASSUME NEW cs \in [Conns -> ConnRec], NEW tp, NEW ko \in [0..KoutLen-1 -> Event],
         NEW tld, NEW as, AnswersOn(cs, tp, ko, tld, as), tp # Idle => tp.c \in Conns,
         NEW c \in Conns, InHandshake(cs[c].st), NEW cr \in ConnRec, ~InHandshake(cr.st),
         NEW i \in 0..KoutLen-1, NEW e \in Event, IsAnswer(e), e.op = cs[c].req
  PROVE  AnswersOn([cs EXCEPT ![c] = cr], tp, [ko EXCEPT ![i] = e], tld, as)
<1> DEFINE ks == [cs EXCEPT ![c] = cr]
<1>1. \A d \in Conns : d # c => ks[d] = cs[d]
  OBVIOUS
<1>2. tp # Idle => tp.c # c
  BY DEF AnswersOn, InHandshake
<1>3. c \in PendingIn(cs, tp)
  BY DEF PendingIn, InHandshake
<1>4. /\ AnswersOn(ks, tp, ko, tld, as) /\ PendingIn(ks, tp) \subseteq PendingIn(cs, tp)
      /\ c \notin PendingIn(ks, tp)
  BY <1>2, AnswersUpdate
<1>5. e.op \in as /\ tld[e.op] = <<>> /\ ~AnsweredIn(ko, e.op)
  BY <1>3 DEF AnswersOn
<1> HIDE DEF ks
<1>6. \A d \in PendingIn(ks, tp) : d # c /\ d \in Conns /\ ks[d] = cs[d]
  BY <1>1, <1>4 DEF PendingIn
<1>7. \A d \in PendingIn(ks, tp) : ks[d].req # e.op
  BY <1>3, <1>4, <1>6 DEF AnswersOn
<1>8. AnswersOn(ks, tp, [ko EXCEPT ![i] = e], tld, as)
  BY <1>4, <1>5, <1>7, AnswersPut
<1>. QED  BY <1>8 DEF ks

\* conn_failed in the handshake.
LEMMA AnswersFail ==
  ASSUME Types, AnswersInv, NEW c \in Conns, NEW cr \in ConnRec,
         conn[c].st \in {"ARP_PENDING", "SYN_SENT"}, cr.st = conn[c].st,
         cr.req = conn[c].req, ConnFailed(c, [conn EXCEPT ![c] = cr]),
         UNCHANGED <<tap, told, asked>>
  PROVE  AnswersInv'
<1> DEFINE cs == [conn EXCEPT ![c] = cr]
           e == [ev |-> "opened", op |-> cs[c].req, st |-> "fail"]
<1>1. /\ conn \in [Conns -> ConnRec] /\ cs \in [Conns -> ConnRec] /\ conn[c] \in ConnRec
      /\ kout \in [0..KoutLen-1 -> Event] /\ kout_pos \in 0..KoutLen-1
      /\ tap # Idle => tap.c \in Conns
      /\ cs[c] = cr
  BY DEF Types
<1>2. AnswersOn(conn, tap, kout, told, asked) /\ (tap # Idle => tap.c # c)
      /\ c \in PendingIn(conn, tap) /\ InHandshake(conn[c].st)
  BY DEF AnswersInv, AnswersOn, PendingIn, InHandshake
<1>3. e \in Event /\ IsAnswer(e) /\ e.op = conn[c].req
  BY <1>1 DEF Event, IsAnswer, ConnRec
<1>4. /\ FailedRec(cr) \in ConnRec /\ ~InHandshake(FailedRec(cr).st)
      /\ FreeConn \in ConnRec /\ ~InHandshake(FreeConn.st)
  BY FailedRecFacts, FreeRec DEF InHandshake
<1>5. \A x : [cs EXCEPT ![c] = x] = [conn EXCEPT ![c] = x]
  OBVIOUS
<1>6. \/ Freed(c, cs) \/ LeftFailed(c, cs)
      \/ conn' = cs /\ kout' = kout
  BY <1>1, FailedFacts
<1>7. CASE Freed(c, cs)
  <2>1. conn' = [conn EXCEPT ![c] = FreeConn] /\ kout' = [kout EXCEPT ![kout_pos] = e]
    BY <1>5, <1>7 DEF Freed
  <2> HIDE DEF e
  <2>2. AnswersOn([conn EXCEPT ![c] = FreeConn], tap, [kout EXCEPT ![kout_pos] = e], told,
                  asked)
    BY <1>1, <1>2, <1>3, <1>4, AnswersDone
  <2>. QED  BY <2>1, <2>2 DEF AnswersInv
<1>8. CASE LeftFailed(c, cs)
  <2>1. conn' = [conn EXCEPT ![c] = FailedRec(cr)] /\ kout' = kout
    BY <1>1, <1>5, <1>8 DEF LeftFailed
  <2>2. AnswersOn([conn EXCEPT ![c] = FailedRec(cr)], tap, kout, told, asked)
    BY <1>1, <1>2, <1>4, AnswersUpdate
  <2>. QED  BY <2>1, <2>2 DEF AnswersInv
<1>9. CASE conn' = cs /\ kout' = kout
  <2>1. AnswersOn(cs, tap, kout, told, asked)
    BY <1>1, <1>2, AnswersUpdate
  <2>. QED  BY <1>9, <2>1 DEF AnswersInv
<1>. QED  BY <1>6, <1>7, <1>8, <1>9

\* listener_accept answers nothing.
LEMMA AnswersAccept ==
  ASSUME Types, NEW l \in Listeners, NEW bl \in Seq(Syn), bl # <<>>,
         NEW wait \in Seq(Conns), wait # <<>>, NEW cs \in [Conns -> ConnRec],
         NEW as, AnswersOn(cs, tap, kout, told, as),
         cs[Head(wait)].st \in {"SYN_WAIT", "REG_SYNACK"},
         ListenerAccept(l, bl, wait, cs)
  PROVE  AnswersOn(conn', tap, kout, told, as)
<1> DEFINE c == Head(wait)
           e == Head(bl)
           cr == Registered(cs[c], e)
<1>1. c \in Conns /\ e \in Syn
  BY TailList
<1>2. cr \in ConnRec /\ cr.req = cs[c].req /\ cr.st = "REG_SYNACK"
  BY <1>1, RegisteredRec
<1>3. conn' = cs \/ conn' = [cs EXCEPT ![c] = cr]
  <2>1. \/ /\ lst'[l].wait = wait
           /\ conn' = cs \/ conn' = [cs EXCEPT ![c] = cr]
           /\ tcp_conns' = tcp_conns /\ async_q' = async_q
        \/ /\ e.ts
           /\ lst'[l].wait = Tail(wait)
           /\ conn' = [cs EXCEPT ![c] = cr]
           /\ tcp_conns' = <<c>> \o tcp_conns
           /\ async_q' = Append(async_q, [c |-> c, ok |-> TRUE])
    BY AcceptFacts, Zenon
  <2>. QED  BY <2>1
<1>4. c \in PendingIn(cs, tap) /\ (tap # Idle => tap.c # c) /\ (tap # Idle => tap.c \in Conns)
  BY <1>1 DEF PendingIn, AnswersOn, Types
<1> HIDE DEF c, cr
<1>5. AnswersOn([cs EXCEPT ![c] = cr], tap, kout, told, as)
  BY <1>1, <1>2, <1>4, AnswersUpdate
<1>. QED  BY <1>3, <1>5

LEMMA AnswersStep ==
  ASSUME TsKept, Types, Lists, Comps, AnswersInv, [Next]_vars
  PROVE  AnswersInv'
<1>0. /\ conn \in [Conns -> ConnRec] /\ tcp_conns \in Seq(Conns)
      /\ kout \in [0..KoutLen-1 -> Event]
      /\ kout_pos \in 0..KoutLen-1 /\ app_pos \in 0..KoutLen-1
      /\ tap # Idle => tap.c \in Conns /\ tap.pos \in 0..KoutLen-1
      /\ told \in [Reqs -> Seq({"ok", "fail"})] /\ asked \subseteq Reqs
  BY DEF Types
<1>a. AnswersOn(conn, tap, kout, told, asked)
  BY DEF AnswersInv
<1>b. ASSUME NEW c \in Conns, InHandshake(conn[c].st)
      PROVE  c \in PendingIn(conn, tap) /\ (tap # Idle => tap.c # c)
  BY <1>a, <1>b DEF PendingIn, InHandshake, AnswersOn
\* A connection changes in the handshake, or a failed one is freed.
<1>c. ASSUME NEW c \in Conns, InHandshake(conn[c].st), NEW cr \in ConnRec,
             cr.req = conn[c].req, conn' = [conn EXCEPT ![c] = cr],
             UNCHANGED <<tap, kout, told, asked>>
      PROVE  AnswersInv'
  <2>1. AnswersOn([conn EXCEPT ![c] = cr], tap, kout, told, asked)
    BY <1>0, <1>a, <1>b, <1>c, AnswersUpdate
  <2>. QED  BY <1>c, <2>1 DEF AnswersInv
\* An event that is no answer.
<1>d. ASSUME NEW e \in Event, ~IsAnswer(e), PutEvent(e), NEW cs,
             AnswersOn(cs, tap, kout, told, asked)
      PROVE  AnswersOn(cs, tap, kout', told, asked)
  <2>1. AnswersOn(cs, tap, [kout EXCEPT ![kout_pos] = e], told, asked)
    BY <1>0, <1>d, AnswersPut
  <2>. QED  BY <1>d, <2>1, PutFacts
<1>1. ASSUME NEW r \in Opens, NEW p \in Peers, KinConnOpen(r, p) PROVE AnswersInv'
  <2>1. /\ r \in Reqs /\ r \notin asked /\ asked' = asked \cup {r}
        /\ UNCHANGED <<tap, told>>
    BY <1>1, OpenFacts
  <2>2. /\ AnswersOn(conn, tap, kout, told, asked')
        /\ told[r] = <<>> /\ ~AnsweredIn(kout, r) /\ r \in asked'
        /\ \A c \in PendingIn(conn, tap) : conn[c].req # r
    BY <1>a, <2>1, AnswersAsk
  <2>3. CASE /\ NoAlloc
             /\ \/ kout' = kout
                \/ kout' = [kout EXCEPT ![kout_pos] =
                              [ev |-> "opened", op |-> r, st |-> "fail"]]
    <3> DEFINE e == [ev |-> "opened", op |-> r, st |-> "fail"]
    <3>1. e \in Event /\ e.op = r
      BY <2>1 DEF Event
    <3>2. AnswersOn(conn, tap, [kout EXCEPT ![kout_pos] = e], told, asked')
      BY <1>0, <2>2, <3>1, AnswersPut
    <3>. QED  BY <2>1, <2>2, <2>3, <3>2 DEF NoAlloc, AnswersInv
  <2>4. CASE \E port \in PortAlloc \ {0}, c \in FreeConns, resolved \in BOOLEAN :
               Alloc(r, p, port, c, resolved)
    <3>1. PICK port \in PortAlloc \ {0}, c \in FreeConns, resolved \in BOOLEAN :
                 Alloc(r, p, port, c, resolved)
      BY <2>4
    <3>2. c \in Conns /\ conn[c].st = "FREE" /\ kout' = kout
      <4>1. kout' = kout
        BY <3>1 DEF Alloc
      <4>. QED  BY <4>1 DEF FreeConns
    <3>3. PICK cr \in ConnRec : IsNew(cr, r, p, port, c)
      BY <2>1, <3>1, AllocFacts
    <3>4. cr.req = r /\ conn' = [conn EXCEPT ![c] = cr]
      BY <3>3 DEF IsNew
    <3>5. AnswersOn([conn EXCEPT ![c] = cr], tap, kout, told, asked')
      BY <1>0, <2>2, <3>2, <3>4, AnswersNew
    <3>. QED  BY <2>1, <3>2, <3>4, <3>5 DEF AnswersInv
  <2>. QED  BY <1>1, <2>3, <2>4, OpenFacts
<1>2. ASSUME NEW l \in Listeners, NEW reuse \in BOOLEAN, KinListenOpen(l, reuse)
      PROVE  AnswersInv'
  <2>1. PICK st \in {"ok", "fail"} : PutEvent([ev |-> "listen", op |-> l, st |-> st])
    BY <1>2, ListenFacts
  <2>2. UNCHANGED <<conn, tap, told, asked>>
    BY <1>2, ListenFacts
  <2> DEFINE e == [ev |-> "listen", op |-> l, st |-> st]
  <2>3. e \in Event /\ ~IsAnswer(e)
    BY DEF Event, IsAnswer
  <2>4. AnswersOn(conn, tap, kout', told, asked)
    BY <1>a, <1>d, <2>1, <2>3
  <2>. QED  BY <2>2, <2>4 DEF AnswersInv
<1>3. ASSUME NEW r \in Accepts, NEW l \in Listeners, KinAcceptConn(r, l)
      PROVE  AnswersInv'
  <2>1. /\ r \in Reqs /\ r \notin asked /\ asked' = asked \cup {r}
        /\ UNCHANGED <<tap, told>>
        /\ lst[l].wait \in Seq(Conns) /\ lst[l].backlog \in Seq(Syn)
        /\ ListenPort[l] \in Ports
    BY <1>3, AcceptConnFacts
  <2>a. r \in Reqs /\ r \notin asked /\ asked' = asked \cup {r}
    BY <2>1
  <2>2. /\ AnswersOn(conn, tap, kout, told, asked')
        /\ told[r] = <<>> /\ ~AnsweredIn(kout, r) /\ r \in asked'
        /\ \A c \in PendingIn(conn, tap) : conn[c].req # r
    BY <1>a, <2>a, AnswersAsk
  <2>3. CASE /\ UNCHANGED <<conn, tcp_conns, lst, async_q>>
             /\ kout' = [kout EXCEPT ![kout_pos] =
                           [ev |-> "accepted", op |-> r, st |-> "fail"]]
    <3> DEFINE e == [ev |-> "accepted", op |-> r, st |-> "fail"]
    <3>1. e \in Event /\ e.op = r
      BY <2>1 DEF Event
    <3>2. AnswersOn(conn, tap, [kout EXCEPT ![kout_pos] = e], told, asked')
      BY <1>0, <2>2, <3>1, AnswersPut
    <3>. QED  BY <2>1, <2>3, <3>2 DEF AnswersInv
  <2>4. ASSUME NEW c \in FreeConns, NEW cs \in [Conns -> ConnRec], NEW wait \in Seq(Conns),
               kout' = kout,
               cs = [conn EXCEPT ![c] = Accepted(r, ListenPort[l])],
               wait = <<c>> \o lst[l].wait,
               \/ lst[l].backlog # <<>> /\ ListenerAccept(l, lst[l].backlog, wait, cs)
               \/ conn' = cs
        PROVE  AnswersInv'
    <3> DEFINE cr == Accepted(r, ListenPort[l])
    <3>1. c \in Conns /\ conn[c].st = "FREE" /\ wait # <<>> /\ Head(wait) = c
      BY <2>1, <2>4, ConsList DEF FreeConns
    <3>2. cr \in ConnRec /\ cr.st = "SYN_WAIT" /\ cr.req = r
      BY <2>1, AcceptedRec
    <3>3. cs = [conn EXCEPT ![c] = cr]
      BY <2>4
    <3> HIDE DEF cr
    <3>4. AnswersOn(cs, tap, kout, told, asked')
      BY <1>0, <2>2, <3>1, <3>2, <3>3, AnswersNew
    <3>5. cs[Head(wait)].st = "SYN_WAIT"
      BY <1>0, <3>1, <3>2, <3>3
    <3>6. CASE lst[l].backlog # <<>> /\ ListenerAccept(l, lst[l].backlog, wait, cs)
      <4>1. AnswersOn(conn', tap, kout, told, asked')
        BY <2>1, <3>1, <3>4, <3>5, <3>6, AnswersAccept
      <4>. QED  BY <2>1, <2>4, <4>1 DEF AnswersInv
    <3>7. CASE conn' = cs
      BY <2>1, <2>4, <3>4, <3>7 DEF AnswersInv
    <3>. QED  BY <2>4, <3>6, <3>7
  <2>. QED  BY <1>3, <2>3, <2>4, AcceptConnFacts
<1>4. ASSUME NEW c \in Conns, NEW ok \in BOOLEAN, ArpComplete(c, ok)
      PROVE  AnswersInv'
  BY <1>4 DEF ArpComplete, AnswersInv
<1>5. CASE TcpPoll
  <2> DEFINE e == Head(async_q)
  <2>1. UNCHANGED <<tap, told, asked>> /\ e.c \in Conns
    <3>1. async_q \in Seq([c : Conns, ok : BOOLEAN]) /\ async_q # <<>>
      BY <1>5 DEF TcpPoll, Types
    <3>2. e \in [c : Conns, ok : BOOLEAN]
      BY <3>1, TailList
    <3>. QED  BY <1>5, <3>2 DEF TcpPoll
  <2>2. \/ UNCHANGED <<conn, kout>>
        \/ /\ conn[e.c].st = "ARP_PENDING"
           /\ \/ conn' = [conn EXCEPT ![e.c] = SynSent(@)] /\ kout' = kout
              \/ ConnFailed(e.c, conn)
    BY <1>5 DEF TcpPoll
  <2> HIDE DEF e
  <2>3. CASE UNCHANGED <<conn, kout>>
    BY <2>1, <2>3 DEF AnswersInv
  <2>4. CASE conn[e.c].st = "ARP_PENDING" /\ ConnFailed(e.c, conn)
    <3>1. conn = [conn EXCEPT ![e.c] = conn[e.c]] /\ conn[e.c] \in ConnRec
      BY <1>0, <2>1
    <3>. QED  BY <2>1, <2>4, <3>1, AnswersFail
  <2>5. CASE /\ conn' = [conn EXCEPT ![e.c] = SynSent(@)] /\ kout' = kout
             /\ conn[e.c].st = "ARP_PENDING"
    <3>1. conn[e.c] \in ConnRec
      BY <1>0, <2>1
    <3>2. SynSent(conn[e.c]) \in ConnRec /\ SynSent(conn[e.c]).req = conn[e.c].req
      BY <3>1, SynSentRec
    <3>. QED  BY <1>c, <2>1, <2>5, <3>2 DEF InHandshake
  <2>. QED  BY <2>2, <2>3, <2>4, <2>5
<1>6. ASSUME NEW c \in Conns, TcpTimeout(c) PROVE AnswersInv'
  <2>1. /\ conn[c].st = "SYN_SENT" /\ conn[c].attempts <= Retries
        /\ UNCHANGED <<tap, told, asked>> /\ conn[c] \in ConnRec
    BY <1>0, <1>6, TimeoutFacts
  <2>2. CASE ConnFailed(c, [conn EXCEPT ![c] = Expired(conn[c])])
    BY <2>1, <2>2, ExpiredRec, AnswersFail
  <2>3. CASE conn' = [conn EXCEPT ![c] = Retried(conn[c])] /\ kout' = kout
    <3>1. Retried(conn[c]) \in ConnRec /\ Retried(conn[c]).req = conn[c].req
      BY <2>1, RetriedRec
    <3>. QED  BY <1>c, <2>1, <2>3, <3>1 DEF InHandshake
  <2>. QED  BY <1>6, <2>2, <2>3, TimeoutFacts
<1>7. ASSUME NEW s \in Segment, ConnPacket(s) PROVE AnswersInv'
  <2>1. UNCHANGED <<tap, told, asked>>
    BY <1>7, PacketFacts
  <2>2. s.peer \in Peers /\ s.ts \in PeerTs[s.peer] /\ s.ts \in BOOLEAN
    BY DEF Segment
  <2>3. CASE UNCHANGED <<conn, tcp_conns, kout, kout_pos>>
    BY <2>1, <2>3 DEF AnswersInv
  <2>4. ASSUME NEW c \in Conns, conn[c].st = "SYN_SENT",
               ConnFailed(c, [conn EXCEPT ![c] = Disarmed(conn[c])])
        PROVE  AnswersInv'
    <3>1. conn[c] \in ConnRec
      BY <1>0
    <3>. QED  BY <2>1, <2>4, <3>1, DisarmedRec, AnswersFail
  <2>6. ASSUME NEW c \in Conns, conn[c].st = "SYN_SENT", NEW ecn \in BOOLEAN,
               conn' = [conn EXCEPT ![c] = Established(conn[c], ecn)],
               PutEvent([ev |-> "opened", op |-> conn[c].req, st |-> "ok"])
        PROVE  AnswersInv'
    <3> DEFINE e == [ev |-> "opened", op |-> conn[c].req, st |-> "ok"]
               cr == Established(conn[c], ecn)
    <3>1. conn[c] \in ConnRec
      BY <1>0
    <3>2. cr \in ConnRec /\ cr.req = conn[c].req /\ ~InHandshake(cr.st)
      BY <3>1, EstablishedRec DEF InHandshake
    <3>3. e \in Event /\ IsAnswer(e) /\ e.op = conn[c].req
      BY <3>1 DEF Event, IsAnswer, ConnRec
    <3>4. InHandshake(conn[c].st)
      BY <2>6 DEF InHandshake
    <3>5. kout' = kout \/ kout' = [kout EXCEPT ![kout_pos] = e]
      BY <2>6, <3>3, PutFacts
    <3>6. conn' = [conn EXCEPT ![c] = cr]
      BY <2>6
    <3> HIDE DEF e, cr
    <3>7. AnswersOn([conn EXCEPT ![c] = cr], tap, [kout EXCEPT ![kout_pos] = e], told, asked)
      BY <1>0, <1>a, <3>2, <3>3, <3>4, AnswersDone
    <3>8. AnswersOn([conn EXCEPT ![c] = cr], tap, kout, told, asked)
      BY <1>0, <1>a, <1>b, <3>2, <3>4, AnswersUpdate
    <3>. QED  BY <2>1, <3>5, <3>6, <3>7, <3>8 DEF AnswersInv
  <2>7. PICK c \in Conns :
          /\ c \in Listed /\ conn[c].peer = s.peer
          /\ PacketCases(c, s) /\ ~OpenNoTs(c, s)
    BY <1>7, PacketKept
  <2>. QED  BY <2>3, <2>4, <2>6, <2>7 DEF PacketCases
<1>8. ASSUME NEW s \in Segment, ListenerPacket(s) PROVE AnswersInv'
  <2> DEFINE l == ListenerFor(s)
             e == [peer |-> s.peer, ts |-> s.ts, ecn |-> s.kind = "SYN_ECN"]
             bl == Append(lst[l].backlog, e)
             ev == [ev |-> "newconn", op |-> l, st |-> "ok"]
  <2>1. /\ l \in Listeners /\ lst[l].wait \in Seq(Conns) /\ bl \in Seq(Syn)
        /\ lst[l].backlog \in Seq(Syn) /\ e \in Syn
        /\ UNCHANGED <<tap, told, asked>> /\ PutEvent(ev)
    BY <1>8, ListenerFacts
  <2>2. bl # <<>>
    BY <2>1, AppendList
  <2>3. \/ lst[l].wait # <<>> /\ ListenerAccept(l, bl, lst[l].wait, conn)
        \/ conn' = conn
    BY <1>8, ListenerFacts
  <2>4. ev \in Event /\ ~IsAnswer(ev)
    BY <2>1 DEF Event, IsAnswer
  <2> HIDE DEF l, e, bl, ev
  <2>5. AnswersOn(conn', tap, kout, told, asked)
    <3>1. CASE lst[l].wait # <<>> /\ ListenerAccept(l, bl, lst[l].wait, conn)
      <4>1. Head(lst[l].wait) \in Range(Waits[l])
        BY <2>1, <3>1, TailList DEF Waits
      <4>2. conn[Head(lst[l].wait)].st \in {"SYN_WAIT", "REG_SYNACK"}
        BY <2>1, <4>1 DEF Lists, ListsOn
      <4>. QED  BY <1>0, <1>a, <2>1, <2>2, <3>1, <4>2, AnswersAccept
    <3>. QED  BY <1>a, <2>3, <3>1
  <2>6. AnswersOn(conn', tap, kout', told, asked)
    BY <1>d, <2>1, <2>4, <2>5
  <2>. QED  BY <2>1, <2>6 DEF AnswersInv
<1>9. ASSUME NEW t \in Tuples, TapSynAck(t) PROVE AnswersInv'
  <2>1. UNCHANGED <<kout, told, asked>> /\ tap = Idle
    BY <1>9, TapFacts
  <2>2. CASE UNCHANGED <<conn, tap>>
    BY <2>1, <2>2 DEF AnswersInv
  <2>3. ASSUME NEW c \in Conns, conn[c].st = "REG_SYNACK",
               conn' = [conn EXCEPT ![c] = SynAcked(conn[c])],
               tap' = Idle \/ tap' = [c |-> c, pos |-> kout_pos]
        PROVE  AnswersInv'
    <3>1. conn[c] \in ConnRec /\ InHandshake(conn[c].st)
      BY <1>0, <2>3 DEF InHandshake
    <3>2. /\ SynAcked(conn[c]) \in ConnRec /\ SynAcked(conn[c]).st = "OPEN"
          /\ SynAcked(conn[c]).req = conn[c].req
      BY <3>1, SynAckedRec
    <3>3. tap' # Idle => tap'.c = c
      BY <2>3
    <3>4. AnswersOn(conn, Idle, kout, told, asked)
      BY <1>a, <2>1
    <3>5. AnswersOn([conn EXCEPT ![c] = SynAcked(conn[c])], tap', kout, told, asked)
      BY <1>0, <3>1, <3>2, <3>3, <3>4, AnswersTap
    <3>. QED  BY <2>1, <2>3, <3>5 DEF AnswersInv
  <2>. QED  BY <1>9, <2>2, <2>3, TapFacts
<1>10. ASSUME NEW t \in Tuples, PeerReceives(t) \/ LoseSynAck(t) PROVE AnswersInv'
  BY <1>10 DEF PeerReceives, LoseSynAck, AnswersInv
<1>11. CASE TapAccepted
  <2> DEFINE e == [ev |-> "accepted", op |-> conn[tap.c].req, st |-> "ok"]
  <2>1. /\ tap # Idle /\ kout' = [kout EXCEPT ![tap.pos] = e] /\ tap' = Idle
        /\ UNCHANGED <<conn, told, asked>>
    BY <1>11 DEF TapAccepted
  <2>2. tap.c \in Conns /\ tap.pos \in 0..KoutLen-1 /\ conn[tap.c] \in ConnRec
    BY <1>0, <2>1
  <2>3. e \in Event /\ e.op = conn[tap.c].req
    BY <2>2 DEF Event, ConnRec
  <2> HIDE DEF e
  <2>4. /\ AnswersOn(conn, Idle, kout, told, asked)
        /\ e.op \in asked /\ told[e.op] = <<>> /\ ~AnsweredIn(kout, e.op)
        /\ \A d \in PendingIn(conn, Idle) : conn[d].req # e.op
    BY <1>a, <2>1, <2>2, <2>3, AnswersIdle
  <2>5. AnswersOn(conn, Idle, [kout EXCEPT ![tap.pos] = e], told, asked)
    BY <1>0, <2>2, <2>3, <2>4, AnswersPut
  <2>. QED  BY <2>1, <2>5 DEF AnswersInv
<1>12. CASE AppRead
  <2> DEFINE e == kout[app_pos]
             kn == [kout EXCEPT ![app_pos] = NoEvent]
  <2>1. /\ kout' = kn /\ UNCHANGED <<conn, tap, asked>>
        /\ told' = IF IsAnswer(e) /\ e.op \in Reqs
                   THEN [told EXCEPT ![e.op] = Append(@, e.st)] ELSE told
    BY <1>12 DEF AppRead, IsAnswer
  <2>2. /\ ~IsAnswer(e) => AnswersOn(conn, tap, kn, told, asked)
        /\ IsAnswer(e) =>
             /\ e.op \in Reqs
             /\ AnswersOn(conn, tap, kn, [told EXCEPT ![e.op] = Append(@, e.st)], asked)
    BY <1>0, <1>a, AnswersRead
  <2>. QED  BY <2>1, <2>2 DEF AnswersInv
<1>13. CASE UNCHANGED vars
  BY <1>13 DEF vars, AnswersInv
<1>. QED  BY <1>1, <1>2, <1>3, <1>4, <1>5, <1>6, <1>7, <1>8, <1>9, <1>10, <1>11,
             <1>12, <1>13 DEF Next

-----------------------------------------------------------------------------
(* What follows of the specification.                                      *)

LEMMA InitAll == Init => Comps /\ TuplesInv /\ SynsApart /\ AnswersInv
<1>. SUFFICES ASSUME Init PROVE Comps /\ TuplesInv /\ SynsApart /\ AnswersInv
  OBVIOUS
<1>1. /\ Range(tcp_conns) = {} /\ arp = {} /\ async_q = <<>> /\ DOMAIN async_q = {}
      /\ \A l \in Listeners : Waits[l] = <<>> /\ Backlogs[l] = <<>> /\ ~Openness[l]
      /\ \A c \in Conns : conn[c].st = "FREE"
  BY EmptyLists, FreeRec DEF Init, Openness
<1>2. \A l \in Listeners : DOMAIN Backlogs[l] = {} /\ Range(Waits[l]) = {}
  BY <1>1 DEF Range
<1>3. \A p \in Ports : DOMAIN ports[p].ls = {}
  BY DEF Init
<1>4. Comps
  BY <1>1, <1>2 DEF Comps, CompsOn
<1>5. TuplesInv /\ SynsApart
  BY <1>1, <1>2, <1>3 DEF TuplesInv, TuplesOn, SynsApart, ApartIn
<1>6. AnswersInv
  <2>1. PendingIn(conn, tap) = {} /\ tap = Idle
    BY <1>1 DEF Init, PendingIn
  <2>2. \A i \in 0..KoutLen-1 : ~IsAnswer(kout[i])
    BY DEF Init, IsAnswer, NoEvent
  <2>3. \A r \in Reqs : told[r] = <<>>
    BY DEF Init
  <2>. QED  BY <2>1, <2>2, <2>3 DEF AnswersInv, AnswersOn
<1>. QED  BY <1>4, <1>5, <1>6

\* tcp.c, whatever fails, is retransmitted, or is answered late: a connection is
\* in one list at most, and no list, no listener, ARP request or completion refers
\* to one that was freed, as long as no SYN without the timestamp option comes for
\* an open connection: nothing else fails one that waits for its completion.
THEOREM NothingDangles == Spec /\ [][TsKept]_vars => [](TypeOK /\ NoDangling)
<1> DEFINE Inv == Types /\ Lists /\ Comps
<1>1. Init => Inv
  BY InitLists, InitAll
<1>2. Inv /\ [Next]_vars /\ [TsKept]_vars => Inv'
  <2>. SUFFICES ASSUME Inv, [Next]_vars, [TsKept]_vars PROVE Inv'
    OBVIOUS
  <2>1. Types' /\ Lists'
    BY TypesStep, ListsStep
  <2>2. CASE TsKept
    BY <2>1, <2>2, CompsStep
  <2>3. CASE UNCHANGED vars
    BY <2>1, <2>3 DEF vars, Comps
  <2>. QED  BY <2>2, <2>3
<1>3. Inv => TypeOK /\ NoDangling
  <2>. SUFFICES ASSUME Inv PROVE TypeOK /\ NoDangling
    OBVIOUS
  <2>1. tcp_conns \in Seq(Conns) /\ Range(tcp_conns) \subseteq Conns
        /\ async_q \in Seq([c : Conns, ok : BOOLEAN])
        /\ \A l \in Listeners : Waits[l] = lst[l].wait
    BY RangeIn DEF Types, Waits
  <2>2. NoDangling
    <3>1. \A i, j \in DOMAIN tcp_conns : tcp_conns[i] = tcp_conns[j] => i = j
      BY DEF Lists, ListsOn, Distinct
    <3>2. Range(tcp_conns) \cap Waiting = {}
      BY <2>1 DEF Lists, ListsOn, Waiting
    <3>3. \A c \in Range(tcp_conns) : conn[c].st # "FREE"
      BY DEF Lists, ListsOn
    <3>4. \A c \in Waiting : conn[c].st # "FREE"
      BY <2>1 DEF Lists, ListsOn, Waiting
    <3>5. \A c \in arp : conn[c].st # "FREE"
      BY DEF Comps, CompsOn
    <3>6. \A e \in Range(async_q) : conn[e.c].st # "FREE"
      BY <2>1 DEF Comps, CompsOn, Range
    <3>. QED  BY <3>1, <3>2, <3>3, <3>4, <3>5, <3>6 DEF NoDangling
  <2>. QED  BY <2>2, TypesTypeOK
<1>. QED  BY <1>1, <1>2, <1>3, PTL DEF Spec

\* conn_lookup is unambiguous: whatever is retransmitted, no two listed connections
\* have one four-tuple, as long as the copies of a SYN go to one listener.
THEOREM FourTuplesUnique == Spec /\ [][SynsTogether]_vars => []TuplesUnique
<1> DEFINE Inv == Types /\ Lists /\ TuplesInv /\ SynsApart
<1>1. Init => Inv
  BY InitLists, InitAll
<1>2. Inv /\ [Next]_vars /\ [SynsTogether]_vars => Inv'
  <2>. SUFFICES ASSUME Inv, [Next]_vars, [SynsTogether]_vars PROVE Inv'
    OBVIOUS
  <2>1. Types' /\ Lists'
    BY TypesStep, ListsStep
  <2>2. CASE SynsTogether
    BY <2>1, <2>2, TuplesStep, ApartStep
  <2>3. CASE UNCHANGED vars
    <3>1. TuplesInv'
      BY <2>3 DEF vars, TuplesInv, Waits, Backlogs, Openness
    <3>2. SynsApart'
      BY <2>3 DEF vars, SynsApart, ApartIn, Backlogs
    <3>. QED  BY <2>1, <3>1, <3>2
  <2>. QED  BY <2>2, <2>3
<1>3. Inv => TuplesUnique
  <2>. SUFFICES ASSUME Inv PROVE TuplesUnique
    OBVIOUS
  <2>. SUFFICES ASSUME NEW i \in DOMAIN tcp_conns, NEW j \in DOMAIN tcp_conns,
                       conn[tcp_conns[i]].peer = conn[tcp_conns[j]].peer,
                       conn[tcp_conns[i]].port = conn[tcp_conns[j]].port
                PROVE  i = j
    BY DEF TuplesUnique
  <2>1. tcp_conns[i] \in Range(tcp_conns) /\ tcp_conns[j] \in Range(tcp_conns)
    BY DEF Range
  <2>2. tcp_conns[i] = tcp_conns[j]
    BY <2>1 DEF TuplesInv, TuplesOn
  <2>. QED  BY <2>2 DEF Lists, ListsOn, Distinct
<1>. QED  BY <1>1, <1>2, <1>3, PTL DEF Spec

\* ConnsSound, which the runs check, of both: the two kinds of SYN that NothingDangles
\* and FourTuplesUnique name are all that can break it.
THEOREM ConnsSafe ==
  Spec /\ [][TsKept]_vars /\ [][SynsTogether]_vars => []ConnsSound
<1>1. TypeOK /\ NoDangling /\ TuplesUnique => ConnsSound
  BY DEF ConnsSound
<1>. QED  BY <1>1, NothingDangles, FourTuplesUnique, PTL

\* What the application sees is ConnService: no request of a connection is
\* answered before it was made, or twice, whether the handshake ends in a
\* SYN-ACK, a reset, a timeout, an address that does not resolve, a full queue or
\* in the TAP thread, as long as no SYN without the timestamp option comes for an
\* open connection.
THEOREM ImplementsService == Spec /\ [][TsKept]_vars => AnswersRequests
<1> DEFINE Inv == Types /\ Lists /\ Comps /\ AnswersInv
<1>1. Init => Inv
  BY InitLists, InitAll
<1>2. Inv /\ [Next]_vars /\ [TsKept]_vars => Inv'
  <2>. SUFFICES ASSUME Inv, [Next]_vars, [TsKept]_vars PROVE Inv'
    OBVIOUS
  <2>1. Types' /\ Lists'
    BY TypesStep, ListsStep
  <2>2. CASE TsKept
    BY <2>1, <2>2, CompsStep, AnswersStep
  <2>3. CASE UNCHANGED vars
    BY <2>1, <2>3 DEF vars, Comps, AnswersInv
  <2>. QED  BY <2>2, <2>3
<1>3. Init => Service!Init
  BY DEF Init, Service!Init, Service!Reqs, Reqs
<1>4. Inv /\ [Next]_vars => [Service!Next]_Service!vars
  <2>. SUFFICES ASSUME Inv, [Next]_vars PROVE [Service!Next]_Service!vars
    OBVIOUS
  <2>0. Service!Reqs = Reqs
    BY DEF Service!Reqs, Reqs
  <2>1. ASSUME UNCHANGED <<asked, told>> PROVE [Service!Next]_Service!vars
    BY <2>1 DEF Service!vars
  <2>2. ASSUME NEW r \in Reqs, r \notin asked, asked' = asked \cup {r}, told' = told
        PROVE  [Service!Next]_Service!vars
    BY <2>0, <2>2 DEF Service!Next, Service!Ask
  <2>3. CASE AppRead
    <3> DEFINE e == kout[app_pos]
    <3>1. /\ asked' = asked
          /\ told' = IF IsAnswer(e) /\ e.op \in Reqs
                     THEN [told EXCEPT ![e.op] = Append(@, e.st)] ELSE told
      BY <2>3 DEF AppRead, IsAnswer
    <3>2. CASE IsAnswer(e) /\ e.op \in Reqs
      <4>1. app_pos \in 0..KoutLen-1 /\ e \in Event /\ told \in [Reqs -> Seq({"ok", "fail"})]
        BY DEF Types
      <4>2. e.op \in asked /\ told[e.op] = <<>> /\ e.st \in {"ok", "fail"}
        BY <3>2, <4>1 DEF AnswersInv, AnswersOn, Event
      <4>3. Append(told[e.op], e.st) = <<e.st>>
        BY <4>2
      <4>4. told' = [told EXCEPT ![e.op] = <<e.st>>]
        BY <3>1, <3>2, <4>3
      <4> HIDE DEF e
      <4>5. Service!Answer(e.op)
        BY <3>1, <4>2, <4>4 DEF Service!Answer
      <4>. QED  BY <2>0, <3>2, <4>5 DEF Service!Next
    <3>3. CASE ~(IsAnswer(e) /\ e.op \in Reqs)
      BY <2>1, <3>1, <3>3
    <3>. QED  BY <3>2, <3>3
  <2>4. ASSUME NEW r \in Opens, NEW p \in Peers, KinConnOpen(r, p)
        PROVE  [Service!Next]_Service!vars
    BY <2>2, <2>4, OpenFacts
  <2>5. ASSUME NEW r \in Accepts, NEW l \in Listeners, KinAcceptConn(r, l)
        PROVE  [Service!Next]_Service!vars
    BY <2>2, <2>5, AcceptConnFacts
  <2>6. ASSUME NEW l \in Listeners, NEW reuse \in BOOLEAN, KinListenOpen(l, reuse)
        PROVE  UNCHANGED <<asked, told>>
    BY <2>6 DEF KinListenOpen
  <2>7. ASSUME NEW c \in Conns, NEW ok \in BOOLEAN, ArpComplete(c, ok)
        PROVE  UNCHANGED <<asked, told>>
    BY <2>7 DEF ArpComplete
  <2>8. CASE TcpPoll
    BY <2>1, <2>8 DEF TcpPoll
  <2>9. ASSUME NEW c \in Conns, TcpTimeout(c) PROVE UNCHANGED <<asked, told>>
    BY <2>9 DEF TcpTimeout
  <2>10. ASSUME NEW s \in Segment, ConnPacket(s) \/ ListenerPacket(s)
         PROVE  UNCHANGED <<asked, told>>
    BY <2>10 DEF ConnPacket, ListenerPacket
  <2>11. ASSUME NEW t \in Tuples, TapSynAck(t) \/ PeerReceives(t) \/ LoseSynAck(t)
         PROVE  UNCHANGED <<asked, told>>
    BY <2>11 DEF TapSynAck, PeerReceives, LoseSynAck
  <2>12. CASE TapAccepted
    BY <2>1, <2>12 DEF TapAccepted
  <2>13. CASE UNCHANGED vars
    BY <2>1, <2>13 DEF vars
  <2>. QED  BY <2>1, <2>3, <2>4, <2>5, <2>6, <2>7, <2>8, <2>9, <2>10, <2>11, <2>12, <2>13
            DEF Next
<1>. QED  BY <1>1, <1>2, <1>3, <1>4, PTL DEF Spec, AnswersRequests, Service!Spec
=============================================================================
