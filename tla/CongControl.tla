---------------------------- MODULE CongControl -----------------------------
(***************************************************************************)
(* The congestion control loop (kernel/cc.c) of one connection: the four   *)
(* algorithms, in integers of W bits, and retransmission of stalled        *)
(* connections.  The loop's clock has TW bits (utils/timeout.c masks it to *)
(* 28) and its values are subtracted in DW (32): a difference across the   *)
(* wrap is close to 2^DW.  What the fast path counted between two rounds   *)
(* is an input.                                                            *)
(***************************************************************************)
EXTENDS Integers

CONSTANTS
  Alg,          \* "win", "rate", "timely" or "const"
  W, TW, DW,    \* widths of rates, of the clock and of differences of times
  Counts,       \* values of the fast path's counters
  Rtts,         \* values of its RTT estimate
  Mss, TxLen, LinkBw, Ns,              \* segment, send buffer, link, nanoseconds in a microsecond
  RttInit, Interval, Gran, RexmitInts, \* config.tcp_rtt_init, cc_control_*, cc_rexmit_ints
  RateInit, RateMin, Step, Mimd, Weight, MinPkts,
  Tlow, Thigh, Alpha, Beta, MinRtt,
  Starts,       \* times at which the connection may be opened
  Late,         \* how late the loop may come, a bound on the scheduler
  Rounds        \* rounds until the connection is closed, a bound; 0: it never is

Max == 2^W - 1

CongAssumption ==
  /\ Rounds \in Nat /\ {W, TW, DW, Mss, LinkBw, Ns, RttInit, Interval, Gran, MinRtt} \subseteq Nat \ {0}
  /\ {Late, TxLen, RexmitInts, RateInit, RateMin, Step, Mimd, Weight, MinPkts, Tlow, Thigh, Alpha, Beta} \subseteq 0..Max
  /\ DW >= TW /\ Starts \subseteq 0..2^TW - 1 /\ Alg \in {"win", "rate", "timely", "const"} /\ Counts \subseteq 0..Max /\ Rtts \subseteq 0..Max

VARIABLES
  now, last_ts,  \* the clock; when the loop ran
  c,             \* the connection
  loss,          \* a loss was reported since the last decision
  dec,           \* the last round decided, and after a loss
  left           \* rounds left

vars == <<now, last_ts, c, loss, dec, left>>

Stats == [drops : Counts, acks : Counts, ackb : Counts, ecn : Counts, txp : BOOLEAN, rtt : Rtts]

U(x) == x % 2^W
Since(t) == (now - t) % 2^DW
Least(a, b) == IF a <= b THEN a ELSE b
Most(a, b) == IF a >= b THEN a ELSE b
(* Division of C, towards zero. *)
Quot(a, b) == IF a >= 0 THEN a \div b ELSE -((-a) \div b)

(* window_to_rate: no more than a window per round trip. *)
WindowToRate(window, rtt) ==
  LET time == Most(((window * 8 * Ns) \div LinkBw) \div Ns, U(rtt * Ns))
  IN Least((window * 8 * Ns * Ns) \div time, Max)

(* cc_conn_init; act_rate is whatever was in the memory. *)
ConnInit(act) ==
  [last |-> now, rtt |-> RttInit, rexmits |-> 0, cnt |-> 0, ts |-> 0, slow |-> TRUE, ecn |-> 0, act |-> act,
   rate |-> IF Alg = "win" THEN WindowToRate(2 * Mss, RttInit) ELSE RateInit, win |-> 2 * Mss,
   ua |-> 0, ub |-> 0, ue |-> 0, ud |-> 0, prev |-> 0, diff |-> 0, hai |-> 0, lts |-> 0]

Value(d) == IF Alg = "win" THEN d.win ELSE d.rate

Init ==
  /\ now \in Starts /\ last_ts = now /\ loss = FALSE /\ left = Rounds
  /\ \E act \in IF Alg \in {"rate", "timely"} THEN {0, Max} ELSE {0} : c = ConnInit(act)
  /\ dec = FALSE
-----------------------------------------------------------------------------
Marked(acks, ecn) == IF acks = 0 THEN ecn ELSE Least(ecn, acks)

(* The moving average of the share of marked acknowledgements. *)
EcnRate(d, acks, ecn) ==
  IF acks = 0 THEN d.ecn
  ELSE (((Marked(acks, ecn) * Max) \div acks) * Weight + d.ecn * (Max - Weight)) \div Max

WinClamp(w) == Least(Most(w, Mss), TxLen)

(* Mutation of Lost: retransmissions by the kernel are not counted. *)
LostDropsOnly(d, drops) == drops > 0

Lost(d, drops) == drops > 0 \/ d.rexmits > 0

(* dctcp_win_update *)
WinUpdate(d, s) ==
  LET rtt == IF s.rtt = 0 THEN RttInit ELSE s.rtt
      lost == Lost(d, s.drops)
      slow == d.slow /\ ~lost /\ s.ecn = 0
      grown == U(d.win + s.ackb)
      ecn == IF slow \/ lost THEN d.ecn ELSE EcnRate(d, s.acks, s.ecn)
      incr == U(d.win + ((s.ackb * Mss) \div d.win))
      w == CASE slow -> Most(grown, d.win)
             [] lost -> d.win \div 2
             [] ~slow /\ ~lost /\ Marked(s.acks, s.ecn) > 0 -> (d.win * (Max - ecn \div 2)) \div Max
             [] OTHER -> Most(incr, d.win)
  IN [d EXCEPT !.rtt = rtt, !.win = WinClamp(w), !.rate = WindowToRate(WinClamp(w), rtt),
               !.ecn = ecn, !.slow = slow, !.rexmits = 0]

(* The rate the acknowledgements of the interval stand for, and its mean. *)
ActRate(ackb, t) == IF t = 0 \/ Since(t) = 0 THEN 0 ELSE U(ackb * 8 * Ns) \div Since(t)
Mean(d, act) == U(7 * d.act + act) \div 8

(* Too few packets: the counters are kept for the next round. *)
Waiting(d, n) == [d EXCEPT !.ua = n.acks, !.ub = n.ackb, !.ue = n.ecn, !.ud = n.drops]

RateFloor(r) == Most(r, RateMin)

(* dctcp_rate_update *)
RateUpdate(d0, s) ==
  LET d == [d0 EXCEPT !.rtt = IF s.rtt = 0 THEN RttInit ELSE s.rtt]
      n == [acks |-> U(d.ua + s.acks), ackb |-> U(d.ub + s.ackb), ecn |-> U(d.ue + s.ecn), drops |-> U(d.ud + s.drops)]
      act == ActRate(n.ackb, d.last)
      mean == Mean(d, act)
      r == Least(d.rate, (Most(act, mean) * 12) \div 10)
      lost == Lost(d, n.drops)
      slow == d.slow /\ ~lost /\ n.ecn = 0
      ecn == IF slow \/ lost THEN d.ecn ELSE EcnRate(d, n.acks, n.ecn)
      r2 == CASE slow -> IF U(r * 2) >= r THEN U(r * 2) ELSE Max
              [] lost -> r \div 2
              [] ~slow /\ ~lost /\ Marked(n.acks, n.ecn) > 0 -> (r * (Max - ecn \div 2)) \div Max
              [] OTHER -> U(r + IF Mimd = 0 THEN Step ELSE (r * Mimd) \div Max)
  IN IF n.acks < MinPkts THEN Waiting(d, n)
     ELSE [d EXCEPT !.ua = 0, !.ub = 0, !.ue = 0, !.ud = 0, !.act = mean, !.rate = RateFloor(r2),
                    !.ecn = ecn, !.slow = slow, !.rexmits = 0]

IMax == 2^(W - 1) - 1
HMax == 2^(W \div 2) - 1

(* The rate of TIMELY above the high threshold, and for a growing RTT. *)
Above(r, rtt) == (r * (Max - (Beta * (Max - (Max * Thigh) \div rtt)) \div Max)) \div Max
Gradient(r, g) ==
  LET b == Quot((Beta \div 2) * g, HMax) IN Quot(r * (IF b <= IMax THEN IMax - b ELSE 0), IMax)

TimelyFloor(r, orig) == Most(Most(r, orig \div 2), RateMin)

(* timely_update *)
TimelyUpdate(d0, s) ==
  LET act == ActRate(s.ackb, d0.lts)
      d == [d0 EXCEPT !.act = Mean(d0, act)]
      slow == d.slow /\ s.rtt <= (Tlow + Thigh) \div 2
      r == IF slow THEN d.rate ELSE Least(d.rate, (Most(act, d.act) * 12) \div 10)
      diff == IF d.prev = 0 THEN d.diff
              ELSE Quot((IMax - Alpha \div 2) * d.diff + (Alpha \div 2) * (s.rtt - d.prev), IMax)
      grad == IF d.prev = 0 THEN 0 ELSE Quot(diff * HMax, MinRtt)
      hai == ~slow /\ s.rtt \in Tlow..Thigh /\ grad <= 0
      r2 == CASE slow -> U(r * 2)
              [] ~slow /\ s.rtt < Tlow -> U(r + Step)
              [] ~slow /\ s.rtt > Thigh -> Above(r, s.rtt)
              [] hai -> U(r + IF d.hai + 1 >= 5 THEN Step * 5 ELSE Step)
              [] OTHER -> Gradient(r, grad)
  IN IF s.rtt = 0 THEN d
     ELSE [d EXCEPT !.slow = slow, !.diff = diff, !.prev = s.rtt, !.rate = TimelyFloor(r2, r),
                    !.hai = CASE hai -> Least(@ + 1, 4) [] slow -> @ [] OTHER -> 0,
                    !.rtt = s.rtt, !.lts = now, !.rexmits = 0]

(* const_rate_update *)
ConstUpdate(d, s) == [d EXCEPT !.rtt = IF s.rtt = 0 THEN RttInit ELSE s.rtt, !.rexmits = 0]

Update(d, s) ==
  CASE Alg = "win" -> WinUpdate(d, s) [] Alg = "rate" -> RateUpdate(d, s)
    [] Alg = "timely" -> TimelyUpdate(d, s) [] OTHER -> ConstUpdate(d, s)
-----------------------------------------------------------------------------
Stalled(s) == s.txp /\ s.ackb = 0
Overdue(d, s) ==
  d.cnt + 1 >= RexmitInts /\ Since(d.ts) >= 2 * (IF s.rtt # 0 THEN s.rtt ELSE RttInit)

(* Mutation of IssueRetransmits: only the round that completes the number  *)
(* of rounds is looked at.                                                 *)
IssueRetransmitsOnce(d, s, sent) ==
  CASE ~Stalled(s) -> [d EXCEPT !.cnt = 0]
    [] Stalled(s) /\ d.cnt = 0 -> [d EXCEPT !.cnt = 1, !.ts = now]
    [] Stalled(s) /\ d.cnt + 1 = RexmitInts /\ Overdue(d, s) /\ sent -> [d EXCEPT !.cnt = 0, !.rexmits = @ + 1]
    [] OTHER -> [d EXCEPT !.cnt = Least(@ + 1, RexmitInts + 1)]

(* issue_retransmits: after enough rounds and two round trips without an   *)
(* acknowledgement, if the request can be queued (sent).  The counter is   *)
(* capped where it makes no difference.                                    *)
IssueRetransmits(d, s, sent) ==
  CASE ~Stalled(s) -> [d EXCEPT !.cnt = 0]
    [] Stalled(s) /\ d.cnt = 0 -> [d EXCEPT !.cnt = 1, !.ts = now]
    [] Stalled(s) /\ d.cnt > 0 /\ Overdue(d, s) /\ sent -> [d EXCEPT !.cnt = 0, !.rexmits = @ + 1]
    [] OTHER -> [d EXCEPT !.cnt = Least(@ + 1, RexmitInts + 1)]

Open == Rounds = 0 \/ left > 0
ControlDue == Open /\ Since(c.last) >= (c.rtt * Interval) % 2^DW
LoopDue == Since(last_ts) >= Gran

(* cc_poll, a round in which this connection is not due or not open, and   *)
(* one in which it is.                                                     *)
CcPollOther ==
  /\ LoopDue /\ ~ControlDue /\ last_ts' = now /\ dec' = FALSE
  /\ UNCHANGED <<now, c, loss, left>>

CcPoll(s, sent) ==
  /\ LoopDue /\ ControlDue /\ last_ts' = now /\ left' = (IF Rounds = 0 THEN 0 ELSE left - 1)
  /\ LET d == Update(c, s)
         e == IssueRetransmits(d, s, sent)
         decided == Alg # "rate" \/ U(c.ua + s.acks) >= MinPkts
         lost == loss \/ s.drops > 0
     IN /\ c' = [e EXCEPT !.last = now] /\ dec' = (decided /\ lost)
        /\ loss' = (e.rexmits > d.rexmits \/ (lost /\ ~decided))
  /\ UNCHANGED now

(* Time passes; the loop comes in time. *)
Advance ==
  /\ (now - last_ts) % 2^TW < Gran + Late /\ now' = (now + 1) % 2^TW
  /\ UNCHANGED <<last_ts, c, loss, dec, left>>

Round == CcPollOther \/ \E s \in Stats, sent \in BOOLEAN : CcPoll(s, sent)

Next == Round \/ Advance

(* The loop runs, and requests to retransmit do not fail forever. *)
Fairness ==
  /\ WF_vars(Round) /\ WF_vars(Advance)
  /\ SF_vars(\E s \in Stats : Stalled(s) /\ c.cnt > 0 /\ CcPoll(s, TRUE) /\ c'.cnt = 0)

Spec == Init /\ [][Next]_vars /\ Fairness
-----------------------------------------------------------------------------
(* Types: nothing leaves its width. *)
TypeOK == {c.rate, c.win, c.ecn, c.act, c.ua, c.ub, c.ue, c.ud} \subseteq 0..Max /\ {now, last_ts, c.last} \subseteq 0..2^TW - 1

(* The window is at least a segment and at most the send buffer, as the    *)
(* assertions of dctcp_win_update say.                                     *)
WindowBounds == c.win >= Mss /\ (Alg = "win" => c.win <= Most(TxLen, 2 * Mss))

(* A loss, reported or acted upon by retransmission, at least halves the   *)
(* window or rate at the next decision, also when intervals with too few   *)
(* packets came between.                                                   *)
LossHalvesStep ==
  c'.last # c.last /\ dec' => Value(c') <= Most(Value(c) \div 2, IF Alg = "win" THEN Mss ELSE RateMin)
LossHalves == [][LossHalvesStep]_vars

(* The rate set for the flow is a limit: zero means none. *)
RateLimited == c.rate > 0

(* One round of TIMELY takes at most half of the rate away, or of what is  *)
(* used if that is less.                                                   *)
TimelyHalvesStep ==
  last_ts' # last_ts /\ c' # c =>
    c'.rate >= RateMin /\ c'.rate >= Least(c.rate, (c'.act * 12) \div 10) \div 2
TimelyHalves == [][TimelyHalvesStep]_vars

(* A stall ends: with an acknowledgement, or with a retransmission, after  *)
(* which the next one is counted.                                          *)
StallEnds == []<>(c.cnt = 0)

(* The assertion of cc_next_ts, which the kernel calls with the time of a  *)
(* cc_poll that had nothing left to do: although the clock wraps, it is    *)
(* not behind the loop's last run, since a wrap makes the loop run.        *)
NextTsForward == ~LoopDue => now >= last_ts
=============================================================================
