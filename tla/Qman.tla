-------------------------------- MODULE Qman --------------------------------
(***************************************************************************)
(* The queue manager of one fast path core (flexnic/qman.c): queues with a *)
(* rate are kept in a skip list by the virtual time at which they may send *)
(* next, queues without one in a list of their own.  Timestamps are        *)
(* truncated to 32 bits, here modulo 2 * Half.  Of the wall clock only the *)
(* difference cur_ts - ts_real is used; it is the time since the last poll *)
(* except where the multiplication in timestamp() overflows in between,    *)
(* which adds one of Jumps.  The links of a queue in no list are never     *)
(* read and kept cleared.                                                  *)
(***************************************************************************)
EXTENDS Integers, FiniteSets, Sequences

CONSTANTS Queues,
          Levels,    \* SKIPLIST_LEVELS
          Half,      \* 2^(TIMESTAMP_BITS - 1)
          Jumps,     \* what an overflow of the clock adds to a difference
          Costs,     \* virtual time per byte at the rates that occur
          MSS,       \* chunk of a flow that has a rate
          Amounts,   \* bytes that are added at a time
          MaxAvail,  \* bound on the bytes of a queue
          Num,       \* queues that one poll may return
          Gap,       \* longest time between two polls
          Nil

QmanAssumption ==
  /\ Levels \in Nat \ {0} /\ Half \in Nat \ {0} /\ MSS \in Nat \ {0}
  /\ Num \in Nat \ {0} /\ Costs \subseteq Nat \ {0} /\ Jumps \subseteq Nat
  /\ Nil \notin Queues /\ IsFiniteSet(Queues) /\ Gap \in Nat
  /\ \A c \in Costs : c * MSS + Gap < Half

VARIABLES since,   \* true time since the last poll
          t,       \* struct qman_thread with its queues
          fired    \* queues that the last poll returned

vars == <<since, t, fired>>

Wrap == 2 * Half

Init ==
  /\ since = 0 /\ fired = <<>>
  /\ t = [q |-> [x \in Queues |-> [nx |-> [l \in 0..Levels - 1 |-> Nil], ts |-> 0,
                                   cost |-> 0, chunk |-> 0, avail |-> 0, in |-> "none"]],
          head |-> [l \in 0..Levels - 1 |-> Nil],
          nhead |-> Nil, ntail |-> Nil,
          tsv |-> 0, nolimitFirst |-> FALSE]
-----------------------------------------------------------------------------
RelTime(cur, ts) ==
  IF cur < Half /\ ts >= (cur - Half) % Wrap THEN ts - ((cur - Half) % Wrap) - Half
  ELSE IF cur > Half /\ ts < ((cur + Half) % Wrap) + 1 THEN ts + Wrap - cur
  ELSE ts - cur

LessEq(th, a, b) == RelTime(th.tsv, a) <= RelTime(th.tsv, b)

NewTs(th, x, bytes) == (th.tsv + bytes * th.q[x].cost) % Wrap

ActivateNolimit(th, x) ==
  LET th1 == [th EXCEPT !.q[x].in = "nolimit", !.q[x].nx[0] = Nil]
  IN IF th.ntail = Nil THEN [th1 EXCEPT !.nhead = x, !.ntail = x]
     ELSE [th1 EXCEPT !.q[th.ntail].nx[0] = x, !.ntail = x]

(* The time at which x may send: not in the past, and no later than if it  *)
(* had just sent a full chunk at its present rate.                         *)
ReasonableTs(th, x) ==
  LET ts == th.q[x].ts   max == NewTs(th, x, th.q[x].chunk) IN
  IF LessEq(th, ts, th.tsv) THEN th.tsv
  ELSE IF ~LessEq(th, ts, max) THEN max ELSE ts

(* The last element of level l, from start on, that is not after ts. *)
LastBefore(th, l, pred, ts) ==
  LET start == IF pred # Nil THEN pred ELSE th.head[l]
      w[n \in 0..Cardinality(Queues)] ==
        IF n = 0 THEN start
        ELSE LET y == w[n - 1] IN IF y = Nil THEN Nil ELSE th.q[y].nx[l]
      Stop(n) == w[n] = Nil \/ ~LessEq(th, th.q[w[n]].ts, ts)
      k == CHOOSE n \in DOMAIN w : Stop(n) /\ \A m \in 0..n - 1 : ~Stop(m)
  IN IF k = 0 THEN pred ELSE w[k - 1]

(* Predecessors at all levels, found from the top level down. *)
Preds(th, ts) ==
  LET p[l \in 0..Levels] == IF l = Levels THEN Nil ELSE LastBefore(th, l, p[l + 1], ts)
  IN p

(* Insert x into the levels up to the one that was drawn for it. *)
ActivateSkiplist(th, x, level) ==
  LET ts == ReasonableTs(th, x)
      p == Preds(th, ts)
      In(l) == l <= level
  IN [th EXCEPT
        !.q = [y \in Queues |->
                 IF y = x
                 THEN [@[x] EXCEPT !.ts = ts, !.in = "skiplist",
                         !.nx = [l \in 0..Levels - 1 |-> IF ~In(l) THEN Nil
                                   ELSE IF p[l] = Nil THEN th.head[l] ELSE th.q[p[l]].nx[l]]]
                 ELSE [@[y] EXCEPT !.nx = [l \in 0..Levels - 1 |->
                                             IF In(l) /\ p[l] = y THEN x ELSE @[l]]]],
        !.head = [l \in 0..Levels - 1 |-> IF In(l) /\ p[l] = Nil THEN x ELSE @[l]]]

Activate(th, x, level) ==
  IF th.q[x].cost = 0 THEN ActivateNolimit(th, x) ELSE ActivateSkiplist(th, x, level)

(* qman_set; the callers always give a rate, a chunk and an amount. *)
QmanSet(x, cost, chunk, avail, level) ==
  LET th == [t EXCEPT !.q[x].cost = cost, !.q[x].chunk = chunk, !.q[x].avail = avail] IN
  /\ avail <= MaxAvail
  /\ t' = IF avail > 0 /\ t.q[x].in = "none" THEN Activate(th, x, level) ELSE th
  /\ UNCHANGED <<since, fired>>

(* Credit for a flow with its rate, a single token without a rate, which   *)
(* object connections are given, and the withdrawal of all credit when a   *)
(* flow has moved to another core.                                         *)
AddCredit(x, level) ==
  \E cost \in Costs, a \in Amounts : QmanSet(x, cost, MSS, t.q[x].avail + a, level)
AddToken(x, level) == QmanSet(x, 0, 1, t.q[x].avail + 1, level)
ClearCredit(x, level) == QmanSet(x, 0, 0, 0, level)
-----------------------------------------------------------------------------
(* Mutation of QueueFire: what is left over is not queued again. *)
QueueFireOnce(r, x, level) ==
  LET q == r.th.q[x]
      bytes == IF q.avail <= q.chunk THEN q.avail ELSE q.chunk
      ts == IF q.cost > 0 THEN NewTs(r.th, x, bytes) ELSE q.ts
      th == [r.th EXCEPT !.q[x].avail = @ - bytes, !.q[x].ts = ts]
  IN [r EXCEPT !.th = th, !.fired = Append(@, x)]

(* queue_fire: take a chunk and queue what is left over again. *)
QueueFire(r, x, level) ==
  LET q == r.th.q[x]
      bytes == IF q.avail <= q.chunk THEN q.avail ELSE q.chunk
      ts == IF q.cost > 0 THEN NewTs(r.th, x, bytes) ELSE q.ts
      th == [r.th EXCEPT !.q[x].avail = @ - bytes, !.q[x].ts = ts]
  IN [r EXCEPT !.th = IF q.avail - bytes > 0 THEN Activate(th, x, level) ELSE th,
               !.fired = Append(@, x)]

FireIfAvail(r, x, level) == IF r.th.q[x].avail > 0 THEN QueueFire(r, x, level) ELSE r

(* A loop runs until a round changes nothing: at most num queues fire and  *)
(* at most all others leave their list without firing.                     *)
Rounds == Num + Cardinality(Queues)

(* poll_nolimit on r = [th, fired]; num is the total that may have fired.  *)
PollNolimit(r0, num, level) ==
  LET Round(r) ==
        LET x == r.th.nhead
            th == [r.th EXCEPT !.nhead = r.th.q[x].nx[0],
                               !.ntail = IF r.th.q[x].nx[0] = Nil THEN Nil ELSE @,
                               !.q[x].in = "none", !.q[x].nx[0] = Nil]
        IN FireIfAvail([r EXCEPT !.th = th], x, level)
      f[n \in 0..Rounds] ==
        IF n = 0 THEN r0
        ELSE LET r == f[n - 1]
             IN IF Len(r.fired) < num /\ r.th.nhead # Nil THEN Round(r) ELSE r
  IN f[Rounds]

(* Take the head of the skip list out of every level it heads. *)
RemoveHead(th) ==
  LET x == th.head[0]
      Headed(l) == \A k \in 0..l : th.head[k] = x
  IN [th EXCEPT !.head = [l \in 0..Levels - 1 |-> IF Headed(l) THEN th.q[x].nx[l] ELSE @[l]],
                !.q[x].in = "none", !.q[x].nx = [l \in 0..Levels - 1 |-> Nil],
                !.tsv = th.q[x].ts]

(* poll_skiplist: fire the queues whose time is reached by the virtual     *)
(* clock, which lags behind when the limit of the poll is reached.         *)
PollSkiplist(r0, num, elapsed, level) ==
  LET maxVts == (r0.th.tsv + elapsed) % Wrap
      HeadDue(th) == th.head[0] # Nil /\ LessEq(th, th.q[th.head[0]].ts, maxVts)
      Round(r) == FireIfAvail([r EXCEPT !.th = RemoveHead(r.th)], r.th.head[0], level)
      f[n \in 0..Rounds] ==
        IF n = 0 THEN r0
        ELSE LET r == f[n - 1]
             IN IF Len(r.fired) < num /\ HeadDue(r.th) THEN Round(r) ELSE r
      e == f[Rounds]
  IN [e EXCEPT !.th.tsv = IF HeadDue(e.th) THEN e.th.q[e.th.head[0]].ts ELSE maxVts]

(* qman_poll: the two lists take turns in being first. *)
QmanPoll(elapsed, level) ==
  /\ LET r0 == [th |-> t, fired |-> <<>>]
         r == IF t.nolimitFirst
              THEN PollSkiplist(PollNolimit(r0, Num, level), Num, elapsed, level)
              ELSE PollNolimit(PollSkiplist(r0, Num, elapsed, level), Num, level)
     IN t' = [r.th EXCEPT !.nolimitFirst = ~@] /\ fired' = r.fired
  /\ since' = 0

(* Time passes; the core polls at least every Gap. *)
Tick ==
  /\ since < Gap
  /\ since' = since + 1
  /\ UNCHANGED <<t, fired>>

Poll == \E level \in 0..Levels - 1, jump \in Jumps : QmanPoll((since + jump) % Wrap, level)
Set ==
  \E x \in Queues, level \in 0..Levels - 1 :
    AddCredit(x, level) \/ AddToken(x, level) \/ ClearCredit(x, level)

Next == Set \/ Poll \/ Tick

(* Flows that only ever get credit with a rate, so that more queues meet   *)
(* in the skip list.                                                       *)
RatedNext == (\E x \in Queues, level \in 0..Levels - 1 : AddCredit(x, level)) \/ Poll \/ Tick

(* The flows in objs are object connections, which have no rate. *)
MixedNext(objs) ==
  \/ \E x \in Queues, level \in 0..Levels - 1 :
       IF x \in objs THEN AddToken(x, level) ELSE AddCredit(x, level) \/ ClearCredit(x, level)
  \/ Poll \/ Tick

Spec == Init /\ [][Next]_vars

(* Time passes and the core goes round its loop.  A poll is always         *)
(* possible and is the step that flips nolimitFirst, so that the second    *)
(* conjunct is weak fairness of Poll.                                      *)
Fairness == WF_vars(Tick) /\ []<><<t'.nolimitFirst # t.nolimitFirst>>_vars
FairSpec == Spec /\ Fairness
-----------------------------------------------------------------------------
(* Elements of a list, in order. *)
Chain(first, l) ==
  LET w[n \in 0..Cardinality(Queues)] ==
        IF n = 0 THEN first
        ELSE LET y == w[n - 1] IN IF y = Nil THEN Nil ELSE t.q[y].nx[l]
  IN SelectSeq([n \in 1..Cardinality(Queues) |-> w[n - 1]], LAMBDA x : x # Nil)
Elements(s) == {s[i] : i \in DOMAIN s}

(* Types of the clocks and of the queues. *)
TypeOK ==
  /\ since \in 0..Gap /\ t.tsv \in 0..Wrap - 1
  /\ \A x \in Queues : /\ t.q[x].ts \in 0..Wrap - 1 /\ t.q[x].avail \in 0..MaxAvail
                       /\ t.q[x].in \in {"none", "skiplist", "nolimit"}
  /\ Len(fired) <= Num

(* The lists hold the queues that are flagged for them, each once, and     *)
(* every level of the skip list is a part of the one below in its order.   *)
ListsSound ==
  /\ Elements(Chain(t.head[0], 0)) = {x \in Queues : t.q[x].in = "skiplist"}
  /\ Elements(Chain(t.nhead, 0)) = {x \in Queues : t.q[x].in = "nolimit"}
  /\ t.ntail = (LET s == Chain(t.nhead, 0) IN IF s = <<>> THEN Nil ELSE s[Len(s)])
  /\ \A l \in 1..Levels - 1 :
       LET s == Chain(t.head[l], l) IN
       s = SelectSeq(Chain(t.head[l - 1], l - 1), LAMBDA x : x \in Elements(s))

(* A queue that has bytes is in a list, so that it will be served. *)
NoneForgotten == \A x \in Queues : t.q[x].avail > 0 => t.q[x].in # "none"

(* The skip list is in the order of the virtual times, none of which is in *)
(* the past nor further off than a full chunk at the slowest rate: a queue *)
(* neither overtakes its turn nor waits for a wrap of the clock.           *)
InOrder ==
  LET s == Chain(t.head[0], 0)
      Off(x) == RelTime(t.tsv, t.q[x].ts)
  IN /\ \A i, j \in DOMAIN s : i <= j => Off(s[i]) <= Off(s[j])
     /\ \A i \in DOMAIN s : /\ Off(s[i]) >= 0
                            /\ \E c \in Costs : Off(s[i]) <= c * MSS

(* The virtual clock, which paces the queues, never runs faster than time: *)
(* one poll advances it by no more than the time since the last poll.      *)
NotFasterStep == (t'.tsv - t.tsv) % Wrap <= since
NotFaster == [][NotFasterStep]_vars

(* Every queue that has bytes fires, or its bytes are taken back. *)
Served ==
  \A x \in Queues : t.q[x].avail > 0 ~> (x \in Elements(fired) \/ t.q[x].avail = 0)
=============================================================================
