------------------------------ MODULE Steering ------------------------------
(***************************************************************************)
(* Scaling the fast path to more or fewer cores while flows have data to   *)
(* send: the redirection table (flexnic/network.c), poll_scale             *)
(* (fastemu.c), and the forwarding of flows whose core changed             *)
(* (fast_flows.c).  Each core has its own queue manager, of which only the *)
(* credit of the flows is kept.                                            *)
(***************************************************************************)
EXTENDS Integers, FiniteSets, Sequences, FiniteSetsExt

CONSTANTS
  MaxCores,     \* fp_cores_max
  Size,         \* rss_reta_size
  ByteMax,      \* UINT8_MAX, the bound core_min starts from
  Flows,
  GroupOf,      \* the flow group of each flow
  MaxBytes,     \* bytes a flow gets to send, a bound
  Mss,
  MaxScales     \* scalings, a bound

Cores == 0..MaxCores - 1
Groups == 0..Size - 1

SteeringAssumption ==
  /\ {MaxCores, Size, ByteMax, MaxBytes, Mss} \subseteq Nat \ {0} /\ MaxScales \in Nat
  /\ GroupOf \in [Flows -> Groups] /\ IsFiniteSet(Flows)

VARIABLES
  reta,         \* rss_reta and flow_group_steering
  buckets,      \* rss_core_buckets
  cur,          \* fp_cores_cur
  scale_to,     \* fp_scale_to
  scales,       \* scalings so far
  given, avail, \* bytes each flow got to send, and can still send
  credit,       \* bytes each core's queue manager has for each flow
  ring          \* qman_fwd_ring of each core

scaling == <<reta, buckets, cur, scale_to, scales>>
vars == <<reta, buckets, cur, scale_to, scales, given, avail, credit, ring>>

(* reta_setup: the groups go round the cores in use, one at the start. *)
Init ==
  /\ cur = 1 /\ scale_to = 0 /\ scales = 0
  /\ reta = [g \in Groups |-> 0] /\ buckets = [c \in Cores |-> IF c = 0 THEN Size ELSE 0]
  /\ given = [f \in Flows |-> 0] /\ avail = given /\ credit = [c \in Cores |-> [f \in Flows |-> 0]]
  /\ ring = [c \in Cores |-> <<>>]
-----------------------------------------------------------------------------
(* core_min: the first with the fewest groups, the first of all if none    *)
(* has fewer than UINT8_MAX.                                               *)
CoreMin(b, n) ==
  LET small == {c \in 0..n - 1 : b[c] < ByteMax}
  IN IF small = {} THEN 0
     ELSE Min({c \in small : \A d \in small : b[c] <= b[d]})

(* core_max: the last with the most groups. *)
CoreMax(b, n) == Max({c \in 0..n - 1 : \A d \in 0..n - 1 : b[c] >= b[d]})

Move(t, g, c) ==
  [reta |-> [t.reta EXCEPT ![g] = c],
   buckets |-> [d \in Cores |-> t.buckets[d] - (IF d = t.reta[g] THEN 1 ELSE 0) + (IF d = c THEN 1 ELSE 0)],
   k |-> g]

(* network_scale_up: every new core gets its share, each group from the    *)
(* core that has the most, searched for from where the last was found.     *)
ScaleUp(new) ==
  LET share == Size \div new
      Found(t, c) == (t.k + Min({d \in 0..Size - 1 : t.reta[(t.k + d) % Size] = c})) % Size
      up[m \in 0..(new - cur) * share] ==
        IF m = 0 THEN [reta |-> reta, buckets |-> buckets, k |-> 0]
        ELSE Move(up[m - 1], Found(up[m - 1], CoreMax(up[m - 1].buckets, cur)), cur + (m - 1) \div share)
  IN up[(new - cur) * share]

(* network_scale_down: the groups of the cores given up go to those with   *)
(* the fewest.                                                             *)
ScaleDown(new) ==
  LET down[i \in 0..Size] ==
        IF i = 0 THEN [reta |-> reta, buckets |-> buckets, k |-> 0]
        ELSE IF reta[i - 1] >= new THEN Move(down[i - 1], i - 1, CoreMin(down[i - 1].buckets, new))
        ELSE down[i - 1]
  IN down[Size]

(* flexnic_scale_to, for the load monitor or for an application; more      *)
(* cores than the fast path has are not asked for.                         *)
ScaleTo(n) ==
  /\ scale_to = 0 /\ scales < MaxScales /\ scale_to' = n /\ scales' = scales + 1
  /\ UNCHANGED <<reta, buckets, cur, given, avail, credit, ring>>

(* poll_scale, on core 0 *)
PollScale ==
  /\ scale_to # 0
  /\ LET t == IF scale_to < cur THEN ScaleDown(scale_to)
              ELSE IF scale_to > cur THEN ScaleUp(scale_to)
              ELSE [reta |-> reta, buckets |-> buckets]
     IN reta' = t.reta /\ buckets' = t.buckets
  /\ cur' = scale_to /\ scale_to' = 0 /\ UNCHANGED <<scales, given, avail, credit, ring>>
-----------------------------------------------------------------------------
(* A bump, a packet or a retransmission lets d more bytes be sent.  It may *)
(* be handled by a core that has lost the flow: packets are still in its   *)
(* receive queue, and applications and the kernel look the core up first.  *)
MoreToSend(c, f, d) ==
  /\ given[f] + d <= MaxBytes /\ given' = [given EXCEPT ![f] = @ + d]
  /\ avail' = [avail EXCEPT ![f] = @ + d] /\ credit' = [credit EXCEPT ![c][f] = @ + d]
  /\ UNCHANGED <<scaling, ring>>

(* The peer's window closes. *)
LessToSend(f, d) ==
  /\ avail[f] >= d /\ avail' = [avail EXCEPT ![f] = @ - d]
  /\ UNCHANGED <<scaling, given, credit, ring>>

Steered(f) == reta[GroupOf[f]]

Polled(c, f) == [credit EXCEPT ![c][f] = IF @ <= Mss THEN 0 ELSE @ - Mss]

(* fast_flows_qman, after qman_poll took a chunk from the flow's credit:   *)
(* on the right core,                                                      *)
QmanSend(c, f) ==
  /\ credit[c][f] > 0 /\ Steered(f) = c
  /\ credit' = Polled(c, f)
  /\ avail' = [avail EXCEPT ![f] = IF @ <= Mss THEN 0 ELSE @ - Mss]
  /\ UNCHANGED <<scaling, given, ring>>

(* and on a core that lost the flow: its credit is cleared.  The ring is   *)
(* not bounded here: in the code an entry that does not fit ends the       *)
(* fast path.                                                              *)
QmanForward(c, f) ==
  /\ credit[c][f] > 0 /\ Steered(f) # c
  /\ credit' = [credit EXCEPT ![c][f] = 0]
  /\ ring' = [ring EXCEPT ![Steered(f)] = Append(@, f)]
  /\ UNCHANGED <<scaling, given, avail>>

(* Mutation of QmanFwd: credit is only renewed on the core of the flow. *)
QmanFwdSteered(c) ==
  /\ ring[c] # <<>>
  /\ LET f == Head(ring[c])
     IN credit' = IF Steered(f) = c THEN [credit EXCEPT ![c][f] = avail[f]] ELSE credit
  /\ ring' = [ring EXCEPT ![c] = Tail(@)] /\ UNCHANGED <<scaling, given, avail>>

(* poll_qman_fwd and fast_flows_qman_fwd: all that is available becomes    *)
(* credit of this core.                                                    *)
QmanFwd(c) ==
  /\ ring[c] # <<>>
  /\ credit' = [credit EXCEPT ![c][Head(ring[c])] = avail[Head(ring[c])]]
  /\ ring' = [ring EXCEPT ![c] = Tail(@)] /\ UNCHANGED <<scaling, given, avail>>

(* The cores poll and find nothing. *)
Idle == UNCHANGED vars

Next ==
  \/ Idle
  \/ \E n \in 1..MaxCores : ScaleTo(n)
  \/ PollScale
  \/ \E f \in Flows, d \in 1..MaxBytes : LessToSend(f, d) \/ \E c \in Cores : MoreToSend(c, f, d)
  \/ \E c \in Cores : QmanFwd(c) \/ \E f \in Flows : QmanSend(c, f) \/ QmanForward(c, f)

(* Every core keeps polling, also one that is not in use: no thread stops  *)
(* when the fast path is scaled down.                                      *)
Fairness ==
  /\ WF_vars(PollScale)
  /\ \A c \in Cores : WF_vars(QmanFwd(c)) /\ \A f \in Flows : WF_vars(QmanSend(c, f)) /\ WF_vars(QmanForward(c, f))

Spec == Init /\ [][Next]_vars /\ Fairness
-----------------------------------------------------------------------------
(* Types *)
TypeOK ==
  /\ reta \in [Groups -> Cores] /\ buckets \in [Cores -> 0..Size] /\ cur \in 1..MaxCores
  /\ scale_to \in 0..MaxCores /\ scales \in 0..MaxScales
  /\ avail \in [Flows -> 0..MaxBytes] /\ \A c \in Cores : credit[c] \in [Flows -> Nat] /\ ring[c] \in Seq(Flows)

(* After any sequence of scalings every flow group is steered to a core in *)
(* use, and the counts that balance the next scaling are those of the      *)
(* table.                                                                  *)
TableExact ==
  /\ \A g \in Groups : reta[g] < cur
  /\ \A c \in Cores : buckets[c] = Cardinality({g \in Groups : reta[g] = c})

(* No core in use is left without groups or has more than twice its        *)
(* share, after any scalings that do not divide the table evenly           *)
(* (network_scale_up and _down keep no other record of the balance).       *)
Balanced ==
  \A c \in 0..cur - 1 : buckets[c] >= 1 /\ buckets[c] <= 2 * (Size \div cur)

(* What a flow can send is covered: by credit, on whichever cores, or by   *)
(* an entry in a forwarding ring.  Otherwise it would not be sent.         *)
Covered ==
  \A f \in Flows :
    \/ \E c \in Cores : \E i \in DOMAIN ring[c] : ring[c][i] = f
    \/ avail[f] <= MapThenSumSet(LAMBDA c : credit[c][f], Cores)

(* When scaling is over, every flow's data is sent, or its peer's window   *)
(* takes no more.                                                          *)
AllSent == \A f \in Flows : avail[f] > 0 ~> avail[f] = 0
=============================================================================
