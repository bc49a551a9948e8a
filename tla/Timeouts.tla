------------------------------ MODULE Timeouts ------------------------------
(***************************************************************************)
(* The timeout manager (utils/timeout.c) as the kernel's main loop uses    *)
(* it: two doubly linked lists, of pending and of due timeouts, with       *)
(* timestamps that wrap.  The clock runs modulo 2 * Half; the true time    *)
(* until a timeout is kept beside it in left, so that behaviours go on     *)
(* through any number of wraps.  Handlers arm and disarm timeouts while    *)
(* the due list is processed.  The fields of a timeout that is in no list  *)
(* are never read and kept cleared.                                        *)
(***************************************************************************)
EXTENDS Integers, FiniteSets

CONSTANTS Timers,
          Half,         \* 2^(TIMEOUT_BITS - 1)
          MaxTimeouts,  \* MAX_TIMEOUTS, handled by one poll
          Delays,       \* delays that are armed
          Gap,          \* longest time the main loop takes from poll to poll
          Nil

TimeAssumption ==
  /\ Half \in Nat \ {0} /\ Gap \in 1..Half - 1 /\ MaxTimeouts \in Nat \ {0}
  /\ Delays \subseteq 0..Half - 1 /\ Nil \notin Timers /\ IsFiniteSet(Timers)

VARIABLES
  clock,     \* timestamp_us()
  age,       \* time since the loop read cur_ts
  sincePoll, \* age of the timestamp of the last poll
  mgr,       \* the manager: list heads and tails, links, stored timestamps
  left,      \* true time until the timeout, negative when overdue
  armed,     \* timeouts that are armed
  handled,   \* handlers run by the poll in progress, -1 outside
  aborted    \* abort() was reached

vars == <<clock, age, sincePoll, mgr, left, armed, handled, aborted>>

Wrap == 2 * Half

Init ==
  /\ clock \in 0..Wrap - 1
  /\ age = 0 /\ sincePoll = 0 /\ handled = -1 /\ aborted = FALSE
  /\ mgr = [tf |-> Nil, tl |-> Nil, df |-> Nil, dl |-> Nil,
            nx |-> [t \in Timers |-> Nil], pv |-> [t \in Timers |-> Nil],
            ts |-> [t \in Timers |-> 0]]
  /\ left = [t \in Timers |-> 0] /\ armed = {}
-----------------------------------------------------------------------------
(* Mutation of RelTime: the plain difference. *)
RelTimePlain(cur, to) == to - cur

(* Signed time from cur to the stored timestamp. *)
RelTime(cur, to) ==
  IF cur < Half /\ to >= (cur - Half) % Wrap THEN to - ((cur - Half) % Wrap) - Half
  ELSE IF cur > Half /\ to < ((cur + Half) % Wrap) + 1 THEN to + Wrap - cur
  ELSE to - cur

Due(m, t, cur) == RelTime(cur, m.ts[t]) <= 0

(* One round of the loop of move_due_timeouts: the first pending timeout   *)
(* is appended to the due list.                                            *)
MoveFirst(m) ==
  LET t == m.tf   n == m.nx[t] IN
  [m EXCEPT !.tf = n,
            !.tl = IF n = Nil THEN Nil ELSE @,
            !.df = IF m.dl = Nil THEN t ELSE @,
            !.dl = t,
            !.pv = [x \in Timers |-> IF x = t THEN m.dl ELSE IF x = n THEN Nil ELSE @[x]],
            !.nx = [x \in Timers |-> IF x = t THEN Nil ELSE IF x = m.dl THEN t ELSE @[x]]]

MoveDue(m, cur) ==
  LET r[n \in 0..Cardinality(Timers)] ==
        IF n = 0 THEN m
        ELSE LET k == r[n - 1]
             IN IF k.tf # Nil /\ Due(k, k.tf, cur) THEN MoveFirst(k) ELSE k
  IN r[Cardinality(Timers)]

(* The list from the tail, n elements back. *)
FromTail(m) ==
  LET w[n \in 0..Cardinality(Timers)] ==
        IF n = 0 THEN m.tl ELSE IF w[n - 1] = Nil THEN Nil ELSE m.pv[w[n - 1]]
  IN w

(* The last pending timeout that is not later.  The comparison is unsigned *)
(* in C, so that a negative distance counts as later.                      *)
Later(m, t, us, cur) ==
  LET d == RelTime(cur, m.ts[t]) IN d < 0 \/ d > us

Predecessor(m, us, cur) ==
  LET w == FromTail(m)
      Stop(n) == w[n] = Nil \/ ~Later(m, w[n], us, cur)
  IN w[CHOOSE n \in DOMAIN w : Stop(n) /\ \A k \in 0..n - 1 : ~Stop(k)]

InsertAfter(m, tp, t, us, cur) ==
  LET tn == IF tp = Nil THEN m.tf ELSE m.nx[tp] IN
  [m EXCEPT !.ts[t] = (cur + us) % Wrap,
            !.tf = IF tp = Nil THEN t ELSE @,
            !.tl = IF tn = Nil THEN t ELSE @,
            !.nx = [x \in Timers |-> IF x = t THEN tn ELSE IF x = tp THEN t ELSE @[x]],
            !.pv = [x \in Timers |-> IF x = t THEN tp ELSE IF x = tn THEN t ELSE @[x]]]

(* util_timeout_arm, from the loop or from a handler. *)
Arm(t, us) ==
  /\ t \notin armed
  /\ LET m == MoveDue(mgr, clock)
     IN mgr' = InsertAfter(m, Predecessor(m, us, clock), t, us, clock)
  /\ left' = [left EXCEPT ![t] = us]
  /\ armed' = armed \cup {t}
  /\ UNCHANGED <<clock, age, sincePoll, handled, aborted>>

(* util_timeout_disarm looks for the list at the ends only. *)
Unlink(m, t) ==
  LET p == m.pv[t]   n == m.nx[t] IN
  [m EXCEPT !.tf = IF p = Nil /\ m.tf = t THEN n ELSE @,
            !.df = IF p = Nil /\ m.tf # t /\ m.df = t THEN n ELSE @,
            !.tl = IF n = Nil /\ m.tl = t THEN p ELSE @,
            !.dl = IF n = Nil /\ m.tl # t /\ m.dl = t THEN p ELSE @,
            !.ts[t] = 0,
            !.nx = [x \in Timers |-> IF x = p THEN n ELSE IF x = t THEN Nil ELSE @[x]],
            !.pv = [x \in Timers |-> IF x = n THEN p ELSE IF x = t THEN Nil ELSE @[x]]]

Disarm(t) ==
  /\ t \in armed
  /\ mgr' = Unlink(mgr, t)
  /\ aborted' = \/ aborted
                \/ mgr.pv[t] = Nil /\ t \notin {mgr.tf, mgr.df}
                \/ mgr.nx[t] = Nil /\ t \notin {mgr.tl, mgr.dl}
  /\ armed' = armed \ {t} /\ left' = [left EXCEPT ![t] = 0]
  /\ UNCHANGED <<clock, age, sincePoll, handled>>
-----------------------------------------------------------------------------
(* The main loop reads the clock at the start of a round. *)
ReadClock ==
  /\ handled = -1
  /\ age' = 0
  /\ UNCHANGED <<clock, sincePoll, mgr, left, armed, handled, aborted>>

(* util_timeout_poll_ts with the timestamp that was read. *)
PollStart ==
  /\ handled = -1
  /\ mgr' = MoveDue(mgr, (clock - age) % Wrap)
  /\ handled' = 0 /\ sincePoll' = age
  /\ UNCHANGED <<clock, age, left, armed, aborted>>

(* Take the first due timeout and run its handler, whose effects are the   *)
(* Arm and Disarm steps that follow.                                       *)
Trigger ==
  /\ handled \in 0..MaxTimeouts - 1 /\ mgr.df # Nil
  /\ LET n == mgr.nx[mgr.df] IN
       mgr' = [mgr EXCEPT !.df = n, !.dl = IF n = Nil THEN Nil ELSE @,
                          !.nx[mgr.df] = Nil, !.ts[mgr.df] = 0,
                          !.pv = [x \in Timers |-> IF x = n THEN Nil ELSE @[x]]]
  /\ armed' = armed \ {mgr.df} /\ left' = [left EXCEPT ![mgr.df] = 0]
  /\ handled' = handled + 1
  /\ UNCHANGED <<clock, age, sincePoll, aborted>>

(* The poll ends; the loop goes round and reads the clock again. *)
PollEnd ==
  /\ handled >= 0 /\ (mgr.df = Nil \/ handled = MaxTimeouts)
  /\ handled' = -1 /\ age' = 0
  /\ UNCHANGED <<clock, sincePoll, mgr, left, armed, aborted>>

(* Time passes.  The loop comes round within Gap. *)
Tick ==
  /\ sincePoll < Gap
  /\ clock' = (clock + 1) % Wrap
  /\ age' = age + 1 /\ sincePoll' = sincePoll + 1
  /\ left' = [t \in Timers |-> IF t \in armed /\ left[t] > -Half THEN left[t] - 1 ELSE left[t]]
  /\ UNCHANGED <<mgr, armed, handled, aborted>>

Next ==
  \/ \E t \in Timers : (\E us \in Delays : Arm(t, us)) \/ Disarm(t)
  \/ ReadClock \/ PollStart \/ Trigger \/ PollEnd \/ Tick

(* The clock advances and the main loop goes round. *)
Fairness ==
  /\ WF_vars(Tick) /\ WF_vars(PollStart) /\ WF_vars(Trigger) /\ WF_vars(PollEnd)

Spec == Init /\ [][Next]_vars /\ Fairness
-----------------------------------------------------------------------------
(* util_timeout_next: how long the main loop may sleep; Wrap stands for    *)
(* the value that says for ever.                                           *)
NextTimeout(cur) ==
  IF mgr.df # Nil THEN 0
  ELSE IF mgr.tf = Nil THEN Wrap
  ELSE LET d == RelTime(cur, mgr.ts[mgr.tf]) IN IF d < 0 THEN 0 ELSE d

(* Elements of the list that starts with f. *)
Listed(f) ==
  LET w[n \in 0..Cardinality(Timers)] ==
        IF n = 0 THEN f ELSE IF w[n - 1] = Nil THEN Nil ELSE mgr.nx[w[n - 1]]
  IN {w[n] : n \in DOMAIN w} \ {Nil}
Pending == Listed(mgr.tf)
DueList == Listed(mgr.df)

(* Types of the clock and the ages. *)
TypeOK ==
  /\ clock \in 0..Wrap - 1 /\ age \in 0..Gap /\ sincePoll \in 0..Gap
  /\ handled \in -1..MaxTimeouts /\ left \in [Timers -> -Half..Half - 1]
  /\ armed \subseteq Timers

(* The links of both lists agree in both directions, every armed timeout   *)
(* is in one of them and no other: disarming finds it and no list is cut.  *)
ListsSound ==
  /\ Pending \cup DueList = armed /\ Pending \cap DueList = {}
  /\ \A t \in armed :
       /\ mgr.nx[t] # Nil => mgr.pv[mgr.nx[t]] = t
       /\ mgr.pv[t] # Nil => mgr.nx[mgr.pv[t]] = t
       /\ mgr.pv[t] = Nil <=> t \in {mgr.tf, mgr.df}
       /\ mgr.nx[t] = Nil <=> t \in {mgr.tl, mgr.dl}
  /\ ~aborted

(* No timeout is due before its time, whatever wraps between arming and    *)
(* polling.                                                                *)
NeverEarly == \A t \in DueList : left[t] <= 0

(* A timeout whose time had passed when the last poll read the clock is    *)
(* not still pending: it was not taken for one in the future.              *)
NeverMissed == \A t \in Pending : left[t] + sincePoll >= 0

(* The main loop, which sleeps for the time util_timeout_next returns,     *)
(* does not sleep past any timeout.                                        *)
NoOversleep == \A t \in armed : NextTimeout(clock) <= left[t] \/ NextTimeout(clock) = 0

(* Every armed timeout is triggered or disarmed, even when more are due    *)
(* than one poll handles.                                                  *)
Triggers == \A t \in Timers : t \in armed ~> t \notin armed
=============================================================================
