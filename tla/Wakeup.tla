------------------------------- MODULE Wakeup -------------------------------
(***************************************************************************)
(* Blocking when idle, and the kicks that end it (kernel/kernel.c,         *)
(* flexnic/fastemu.c, sockets/epoll.c, stack/init.c, utils/utils.c).  A    *)
(* thread that found nothing for POLL_CYCLE waits for its event fd.  Who   *)
(* queues something for it kicks the fd, but only if its own last kick     *)
(* was longer than POLL_CYCLE ago: until then the thread should be polling.*)
(* Times are subtracted in 32 bits (Wide).  The fast path's own clock has  *)
(* as many; util_timeout_time_us, which everybody else and every kick      *)
(* uses, is masked to 28 (Wrap), so that a difference across its wrap is   *)
(* close to Wide and longer than any POLL_CYCLE.                           *)
(***************************************************************************)
EXTENDS Integers

CONSTANTS
  Kind,       \* of the thread that sleeps: "kernel", "fast", "app"
  Posters,    \* who queues for it; each keeps its own last_ts
  PollCycle,  \* POLL_CYCLE, 10 ms
  Wrap, Wide, \* 2^28 and 2^32 us
  Long,       \* 1000 ms
  Timers      \* times to the next timeout it may find, None for no timeout

None == -1

WakeupAssumption ==
  /\ Kind \in {"kernel", "fast", "app"} /\ {PollCycle, Wrap, Wide, Long} \subseteq Nat
  /\ Wrap > PollCycle + 1 /\ Wide > Wrap /\ Wide % Wrap = 0

VARIABLES
  clk,        \* the clock of the thread that sleeps
  pc,         \* of the sleeper: "clock", "poll", "decide", "wait"
  queue,      \* something is queued
  found,      \* the last poll found something (n > 0)
  startwait,  \* when the thread became idle; 0: it is not
  ts,         \* the loop's timestamp
  left,       \* rest of the wait, None: for ever
  ev,         \* the event fd is readable
  pst,        \* a poster queued and has not kicked yet
  last        \* the poster's last_ts

vars == <<clk, pc, queue, found, startwait, ts, left, ev, pst, last>>

Period == IF Kind = "fast" THEN Wide ELSE Wrap
Diff(a, b) == (a - b) % Wide

Init ==
  /\ clk \in 0..Period - 1 /\ pc = "poll" /\ queue = FALSE /\ found = FALSE /\ startwait = 0 /\ ts = clk
  /\ left = None /\ ev = FALSE /\ pst = [p \in Posters |-> FALSE] /\ last = [p \in Posters |-> 0]

(* Time passes. *)
Tick ==
  /\ clk' = (clk + 1) % Period
  /\ left' = (IF pc = "wait" /\ left > 0 THEN left - 1 ELSE left)
  /\ UNCHANGED <<pc, queue, found, startwait, ts, ev, pst, last>>
-----------------------------------------------------------------------------
(* A poster queues an entry ... *)
Post(p) ==
  /\ ~pst[p] /\ pst' = [pst EXCEPT ![p] = TRUE] /\ queue' = TRUE
  /\ UNCHANGED <<clk, pc, found, startwait, ts, left, ev, last>>

(* ... and then kicks: util_flexnic_kick, and in the same words            *)
(* flextcp_flexnic_kick, flextcp_kernel_kick, fast_kernel_kick and         *)
(* appif_ctx_kick.                                                         *)
Kick(p) ==
  LET t == clk % Wrap
  IN /\ pst[p] /\ pst' = [pst EXCEPT ![p] = FALSE]
     /\ ev' = (ev \/ Diff(t, last[p]) > PollCycle)
     /\ last' = [last EXCEPT ![p] = t]
     /\ UNCHANGED <<clk, pc, queue, found, startwait, ts, left>>
-----------------------------------------------------------------------------
(* The timestamp: before the poll in the kernel and in the fast path,      *)
(* after it in the socket layer's epoll_wait.                              *)
ReadClock ==
  /\ pc = "clock" /\ ts' = clk /\ pc' = (IF Kind = "app" THEN "decide" ELSE "poll")
  /\ UNCHANGED <<clk, queue, found, startwait, left, ev, pst, last>>

(* One pass over the queues. *)
Poll ==
  /\ pc = "poll" /\ found' = queue /\ queue' = FALSE
  /\ pc' = (IF Kind = "app" THEN "clock" ELSE "decide")
  /\ UNCHANGED <<clk, startwait, ts, left, ev, pst, last>>

Again == IF Kind = "app" THEN "poll" ELSE "clock"

Busy ==
  /\ pc = "decide" /\ found /\ startwait' = 0 /\ pc' = Again
  /\ UNCHANGED <<clk, queue, found, ts, left, ev, pst, last>>

(* A thread that becomes idle at time 0 does so again in the next round. *)
IdleFirst ==
  /\ pc = "decide" /\ ~found /\ startwait = 0 /\ startwait' = ts /\ pc' = Again
  /\ UNCHANGED <<clk, queue, found, ts, left, ev, pst, last>>

Waited == Diff(ts, startwait) >= PollCycle

IdleMore ==
  /\ pc = "decide" /\ ~found /\ startwait # 0 /\ ~Waited /\ pc' = Again
  /\ UNCHANGED <<clk, queue, found, startwait, ts, left, ev, pst, last>>

(* The kernel's timeout.  With one of the two set, the other one, which is *)
(* not, is taken; then, and above a second, 10 ms are.                     *)
KernelTimeout(cc, util) ==
  LET t == IF cc # None /\ util # None THEN (IF cc < util THEN cc ELSE util)
           ELSE IF cc # None THEN util ELSE cc
  IN IF t = None \/ t > Long THEN PollCycle ELSE t

Block ==
  /\ pc = "decide" /\ ~found /\ startwait # 0 /\ Waited /\ pc' = "wait"
  /\ IF Kind = "kernel" THEN \E cc, util \in Timers : left' = KernelTimeout(cc, util)
     ELSE left' \in Timers
  /\ UNCHANGED <<clk, queue, found, startwait, ts, ev, pst, last>>

(* epoll_wait returns; the kernel leaves startwait as it is. *)
Wake ==
  /\ pc = "wait" /\ (ev \/ left = 0) /\ ev' = FALSE /\ pc' = Again
  /\ startwait' = (IF Kind = "kernel" THEN startwait ELSE 0)
  /\ UNCHANGED <<clk, queue, found, ts, left, pst, last>>

Loop == ReadClock \/ Poll \/ Busy \/ IdleFirst \/ IdleMore \/ Block \/ Wake
Next == Tick \/ Loop \/ \E p \in Posters : Post(p) \/ Kick(p)

(* Time passes, the sleeper's thread runs and a poster goes on to kick.    *)
(* Nobody has to post.                                                     *)
Fairness == WF_vars(Tick) /\ WF_vars(Loop) /\ \A p \in Posters : WF_vars(Kick(p))

Spec == Init /\ [][Next]_vars /\ Fairness
-----------------------------------------------------------------------------
(* Types; only the kernel's waits are always bounded. *)
TypeOK ==
  /\ pc \in {"clock", "poll", "decide", "wait"} /\ {queue, found, ev} \subseteq BOOLEAN
  /\ {clk, startwait, ts} \subseteq 0..Period - 1 /\ last \in [Posters -> 0..Wrap - 1]
  /\ left \in (0..Long) \cup {None} /\ (Kind = "kernel" /\ pc = "wait" => left # None)

(* What was queued is found. *)
Served == queue ~> ~queue

(* A kick is never lost: it also ends a wait that starts after it, and the *)
(* thread then looks at everything queued before.                          *)
KickServes == (queue /\ ev) ~> ~queue
=============================================================================
