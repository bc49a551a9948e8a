------------------------------- MODULE LoadMon ------------------------------
(***************************************************************************)
(* The load monitor: every core counts the cycles of its busy iterations   *)
(* (dataplane_loop), the kernel compares them with the time that passed    *)
(* and asks for a core more or less (flexnic_loadmon), core 0 changes      *)
(* their number (poll_scale, of which Steering has the tables).            *)
(***************************************************************************)
EXTENDS Integers, FiniteSetsExt

CONSTANTS
  MaxCores,     \* fp_cores_max
  Tick,         \* cycles in a step of time
  MaxIter,      \* steps an iteration of a core takes at most, a bound
  Period,       \* steps between two calls of the monitor
  Smooth,       \* weight of the averages, 8 in the code
  WaitN,        \* calls to wait after a decision, 10 in the code
  W,            \* width of the counters, 64 in the code
  Loads         \* whether iterations find work: {TRUE} for a full load, or BOOLEAN

Cores == 0..MaxCores - 1

LoadMonAssumption ==
  /\ {MaxCores, Tick, MaxIter, Period, Smooth, WaitN, W} \subseteq Nat \ {0}
  /\ Loads \subseteq BOOLEAN /\ Loads # {}

VARIABLES
  cur, scale_to,    \* fp_cores_cur, fp_scale_to
  age, idle,        \* of every core's iteration: steps since it began; the last found nothing
  delta,            \* busy cycles counted since the monitor read them
  elapsed,          \* steps since the monitor ran
  ewma_busy, ewma_cycles, waiting_n,
  num, busy         \* what the running call has read; num = 0: none runs

core == <<age, idle>>
mon == <<ewma_busy, ewma_cycles, waiting_n>>
vars == <<cur, scale_to, age, idle, delta, elapsed, ewma_busy, ewma_cycles, waiting_n, num, busy>>

(* After the first call of the monitor, which only starts its clock. *)
Init ==
  /\ cur = 1 /\ scale_to = 0 /\ age = [c \in Cores |-> 0] /\ idle = [c \in Cores |-> TRUE]
  /\ delta = [c \in Cores |-> 0] /\ elapsed = 0
  /\ ewma_busy = 0 /\ ewma_cycles = 0 /\ waiting_n = 0 /\ num = 0 /\ busy = 0
-----------------------------------------------------------------------------
(* The head of dataplane_loop: the iteration that ends is counted if it    *)
(* was busy; the next one finds work or not, in a core in use.             *)
Iterate(c, work) ==
  /\ age[c] > 0
  /\ delta' = [delta EXCEPT ![c] = IF idle[c] THEN @ ELSE @ + age[c] * Tick]
  /\ age' = [age EXCEPT ![c] = 0] /\ idle' = [idle EXCEPT ![c] = ~(work /\ c < cur)]
  /\ UNCHANGED <<cur, scale_to, elapsed, mon, num, busy>>

(* flexnic_loadmon, first part: the cores in use are read one after the    *)
(* other, here at once.  Cores not in use keep counting.                   *)
ReadLoads ==
  /\ num = 0 /\ elapsed >= Period
  /\ num' = cur /\ busy' = MapThenSumSet(LAMBDA c : delta[c], 0..cur - 1)
  /\ delta' = [c \in Cores |-> IF c < cur THEN 0 ELSE delta[c]]
  /\ UNCHANGED <<cur, scale_to, core, elapsed, mon>>

Average(a, x) == ((Smooth - 1) * a + x) \div Smooth
(* Idle cycles, unsigned. *)
IdleCyc(n, b, t) == (n * t - b) % 2^W

ScaleDownDue(n, b, t) == n > 1 /\ IdleCyc(n, b, t) > (t * 5) \div 4

ScaleUpDue(n, b, t) == n < MaxCores /\ IdleCyc(n, b, t) < t \div 5

(* The number of cores that a call asks for, 0 for none. *)
Decision(n, b, t) ==
  IF ScaleDownDue(n, b, t) THEN n - 1 ELSE IF ScaleUpDue(n, b, t) THEN n + 1 ELSE 0

(* flexnic_loadmon, second part, and flexnic_scale_to: refused while one   *)
(* is under way, and the monitor waits all the same.                       *)
Decide ==
  /\ num # 0
  /\ LET b == Average(ewma_busy, busy)
         t == Average(ewma_cycles, elapsed * Tick)
         d == IF waiting_n + 1 < WaitN THEN 0 ELSE Decision(num, b, t)
     IN /\ ewma_busy' = b /\ ewma_cycles' = t
        /\ waiting_n' = IF d # 0 THEN 0 ELSE IF waiting_n + 1 < WaitN THEN waiting_n + 1 ELSE WaitN
        /\ scale_to' = IF scale_to = 0 THEN d ELSE scale_to
  /\ elapsed' = 0 /\ num' = 0 /\ busy' = 0 /\ UNCHANGED <<cur, core, delta>>

(* poll_scale *)
PollScale ==
  /\ scale_to # 0 /\ cur' = scale_to /\ scale_to' = 0
  /\ UNCHANGED <<core, delta, elapsed, mon, num, busy>>

(* Time passes; iterations end and the monitor runs in time. *)
Advance ==
  /\ elapsed < Period /\ \A c \in Cores : age[c] < MaxIter
  /\ elapsed' = elapsed + 1 /\ age' = [c \in Cores |-> age[c] + 1]
  /\ UNCHANGED <<cur, scale_to, idle, delta, mon, num, busy>>

Next ==
  \/ \E c \in Cores, work \in Loads : Iterate(c, work)
  \/ ReadLoads \/ Decide \/ PollScale \/ Advance

(* Time passes, the monitor and every core's loop run. *)
Fairness ==
  /\ WF_vars(Advance) /\ WF_vars(ReadLoads) /\ WF_vars(Decide) /\ WF_vars(PollScale)
  /\ \A c \in Cores : WF_vars(\E work \in Loads : Iterate(c, work))

Spec == Init /\ [][Next]_vars /\ Fairness
-----------------------------------------------------------------------------
(* Types; the number of cores stays in its range whatever is read while    *)
(* it changes.                                                             *)
TypeOK ==
  /\ cur \in 1..MaxCores /\ scale_to \in 0..MaxCores /\ num \in 0..MaxCores
  /\ waiting_n \in 0..WaitN /\ {ewma_busy, ewma_cycles, busy} \subseteq Nat

(* The thresholds leave a gap: what one decision asks for, the next one,   *)
(* for the same load, does not take back.                                  *)
Settles ==
  LET d == Decision(cur, ewma_busy, ewma_cycles)
  IN ewma_busy <= cur * ewma_cycles /\ d # 0 /\ d * ewma_cycles >= ewma_busy =>
       Decision(d, ewma_busy, ewma_cycles) # cur

(* When the cores no longer find work the fast path is scaled down to one. *)
IdleShrinks == <>[](\A c \in Cores : idle[c]) => <>[](cur = 1)

(* "scale down if ... more than 1.25 cores are idle": a core is only given *)
(* up when the averages leave that of idle cycles.                         *)
DownOnlyIdle ==
  scale_to # 0 /\ scale_to < cur => 4 * (ewma_busy + ewma_cycles) <= 4 * cur * ewma_cycles
=============================================================================
