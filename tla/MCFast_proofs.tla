---------------------------- MODULE MCFast_proofs ----------------------------
(***************************************************************************)
(* The parts of the fast path that MCFast runs, for every width of the     *)
(* sequence numbers and every size of the buffers, pools and rings.        *)
(***************************************************************************)
EXTENDS MCFast, TcpCommon_proofs, FiniteSetTheorems, SequenceTheorems, WellFoundedInduction

-----------------------------------------------------------------------------
(* Sequence arithmetic *)


\* Ahead and behind are told apart: a segment and the receive buffer are at
\* most half of the sequence space each.
HalfSpace == LenMod <= SeqMod \div 2 /\ RxLen <= SeqMod \div 2

\* When tcp_trim_rxbuf drops a segment, with the wrapped ends of the segment
\* (seq, pb) and of the free part of the buffer (sa, sb).
LEMMA TrimDrops ==
  ASSUME NEW f, NEW seq \in SeqNo, NEW len \in Nat,
         f.rx_next_seq \in SeqNo, f.rx_avail \in 0 .. RxLen,
         tcp_trim_rxbuf(f, seq, len).drop
  PROVE  LET pb == U32(seq + U16(len))
             sa == f.rx_next_seq
             sb == U32(f.rx_next_seq + f.rx_avail)
         IN  /\ seq <= pb \/ sa <= sb
             /\ seq <= pb /\ sa <= sb => pb < sa \/ seq > sb
             /\ seq > pb \/ sa > sb => seq > sb /\ pb < sa
<1> DEFINE tr == tcp_trim_rxbuf(f, seq, len)
           pb == U32(seq + U16(len))
           sa == f.rx_next_seq
           sb == U32(f.rx_next_seq + f.rx_avail)
           Trim(drop, start, end) ==
             [drop       |-> drop,
              trim_start |-> IF start THEN U32(sa - seq) ELSE 0,
              trim_end   |-> IF end THEN U32(pb - sb) ELSE 0]
<1>1. pb \in SeqNo /\ sb \in SeqNo
  BY U16Range, TcpCommonAssumption DEF U32, SeqNo
<1>2. tr.drop
  OBVIOUS
<1>3. CASE seq <= pb /\ sa <= sb
  <2>1. tr = Trim(pb < sa \/ seq > sb, seq < sa, pb > sb)
    BY <1>1, <1>3 DEF tcp_trim_rxbuf, SeqNo
  <2> HIDE DEF tr, pb, sb
  <2>2. pb < sa \/ seq > sb
    BY <1>2, <2>1
  <2> QED BY <1>1, <1>3, <2>2 DEF SeqNo, pb, sb
<1>4. CASE seq <= pb /\ sa > sb
  <2>1. tr = Trim(seq > sb /\ pb < sa, seq > sb /\ seq < sa, pb >= sb /\ pb < sa)
    BY <1>1, <1>4 DEF tcp_trim_rxbuf, SeqNo
  <2> HIDE DEF tr, pb, sb
  <2>2. seq > sb /\ pb < sa
    BY <1>2, <2>1
  <2> QED BY <1>1, <1>4, <2>2 DEF SeqNo, pb, sb
<1>5. CASE seq > pb /\ sa <= sb
  <2>1. tr = Trim(seq > sb /\ pb < sa, sa <= pb \/ sa > seq, pb > sb \/ sa >= seq)
    BY <1>1, <1>5 DEF tcp_trim_rxbuf, SeqNo
  <2> HIDE DEF tr, pb, sb
  <2>2. seq > sb /\ pb < sa
    BY <1>2, <2>1
  <2> QED BY <1>1, <1>5, <2>2 DEF SeqNo, pb, sb
<1>6. ~(seq > pb /\ sa > sb)
  <2> SUFFICES ASSUME seq > pb /\ sa > sb PROVE FALSE
    OBVIOUS
  <2>1. tr = Trim(FALSE, seq < sa, pb > sb)
    BY <1>1 DEF tcp_trim_rxbuf, SeqNo
  <2> HIDE DEF tr, pb, sb
  <2> QED BY <1>2, <2>1
<1> HIDE DEF tr, pb, sb
<1>7. seq \in Int /\ sa \in Int /\ pb \in Int /\ sb \in Int
  BY <1>1 DEF SeqNo
<1> QED BY <1>3, <1>4, <1>5, <1>6, <1>7

\* The offset of a segment: its distance from the next byte, or minus the
\* distance back.
LEMMA OffsetIs ==
  ASSUME HalfSpace, NEW x, x.seq \in SeqNo, x.rx_next_seq \in SeqNo
  PROVE  LET d == x.seq - x.rx_next_seq
         IN  /\ Offset(x) \in Int
             /\ Offset(x) \in {d, d - SeqMod, d + SeqMod}
             /\ - SeqMod + SeqMod \div 2 <= Offset(x) /\ Offset(x) < SeqMod \div 2
<1> DEFINE h == SeqMod \div 2
<1>1. h \in Nat /\ h <= SeqMod /\ SeqMod - h <= h + 1
  BY TcpCommonAssumption
<1> HIDE DEF h
<1>2. Offset(x) = LET d == U32(x.seq - x.rx_next_seq) IN IF d < h THEN d ELSE d - SeqMod
  BY DEF Offset, h
<1>3. LET d == x.seq - x.rx_next_seq
      IN  /\ Offset(x) \in Int
          /\ Offset(x) \in {d, d - SeqMod, d + SeqMod}
          /\ - SeqMod + h <= Offset(x) /\ Offset(x) < h
  BY <1>1, <1>2, TcpCommonAssumption DEF U32, SeqNo
<1> QED BY <1>3 DEF h

\* What a segment of len bytes at offset o keeps.
LEMMA TrimKeeps ==
  ASSUME HalfSpace, NEW x, x.seq \in SeqNo, x.rx_next_seq \in SeqNo,
         x.rx_avail \in 0 .. RxLen, x.len \in 0 .. LenMod - 1,
         ~TrimMisses(x, x.seq, x.len),
         ~tcp_trim_rxbuf(x, x.seq, x.len).drop
  PROVE  LET tr == tcp_trim_rxbuf(x, x.seq, x.len)
         IN  /\ tr.trim_start \in Nat /\ tr.trim_end \in Nat
             /\ tr.trim_start + tr.trim_end <= x.len
             /\ \A z \in Int : (Offset(x) + tr.trim_start <= z /\ z <= Offset(x) + x.len - tr.trim_end - 1) <=>
                                 (Offset(x) <= z /\ z <= Offset(x) + x.len - 1 /\ 0 <= z /\ z <= x.rx_avail - 1)
<1> DEFINE tr == tcp_trim_rxbuf(x, x.seq, x.len)
           ts == tr.trim_start
           te == tr.trim_end
           h == SeqMod \div 2
           o == Offset(x)
           seq == x.seq
           len == x.len
           sa == x.rx_next_seq
           v == x.rx_avail
           pb == U32(seq + len)
           sb == U32(sa + v)
           Trims(start, end) ==
             /\ ts = IF start THEN U32(sa - seq) ELSE 0
             /\ te = IF end THEN U32(pb - sb) ELSE 0
<1>1. /\ SeqMod \in Nat /\ LenMod \in Nat /\ RxLen \in Nat /\ LenMod + RxLen < SeqMod
      /\ len \in Nat /\ len < LenMod /\ v \in Nat /\ v <= RxLen
      /\ seq \in Nat /\ seq < SeqMod /\ sa \in Nat /\ sa < SeqMod
  BY TcpCommonAssumption DEF SeqNo
<1>2. U16(len) = len
  BY <1>1, U16Range
<1>3. /\ seq <= pb /\ sa <= sb =>
            ~(pb < sa \/ seq > sb) /\ Trims(seq < sa, pb > sb)
      /\ seq <= pb /\ sa > sb =>
            /\ ~(seq > sb /\ pb < sa)
            /\ Trims(seq > sb /\ seq < sa, pb >= sb /\ pb < sa)
      /\ seq > pb /\ sa <= sb =>
            /\ ~(seq > sb /\ pb < sa)
            /\ Trims(sa <= pb \/ sa > seq, pb > sb \/ sa >= seq)
      /\ seq > pb /\ sa > sb => Trims(seq < sa, pb > sb)
  <2>1. x.len \in Nat
    BY <1>1
  <2> HIDE DEF Trims
  <2> QED BY <1>2, <2>1, TrimCases, ZenonT(30) DEF Trims
<1>4. ~(/\ seq > pb /\ sa < seq /\ seq <= sa + v /\ sa + v < SeqMod)
  BY <1>2 DEF TrimMisses
<1>5. /\ o \in Int /\ (o = seq - sa \/ o = seq - sa - SeqMod \/ o = seq - sa + SeqMod)
      /\ - SeqMod + h <= o /\ o < h
  BY OffsetIs
<1>6. h \in Nat /\ h + h <= SeqMod /\ SeqMod <= h + h + 1 /\ LenMod <= h /\ RxLen <= h
  BY <1>1 DEF HalfSpace
<1> SUFFICES ASSUME NEW z \in Int
             PROVE  /\ ts \in Nat /\ te \in Nat /\ ts + te <= len
                    /\ (o + ts <= z /\ z <= o + len - te - 1) <=>
                         (o <= z /\ z <= o + len - 1 /\ 0 <= z /\ z <= v - 1)
  OBVIOUS
<1>7. pb = (IF seq + len < SeqMod THEN seq + len ELSE seq + len - SeqMod) /\ pb \in Int
  BY <1>1 DEF U32
<1>8. sb = (IF sa + v < SeqMod THEN sa + v ELSE sa + v - SeqMod) /\ sb \in Int
  BY <1>1 DEF U32
<1> HIDE DEF tr, ts, te, h, o, seq, len, sa, v, pb, sb
<1>9. CASE seq <= pb /\ sa <= sb
  <2>1. pb = seq + len /\ sb = sa + v
    BY <1>1, <1>7, <1>8, <1>9
  <2>2. /\ ~(pb < sa \/ seq > sb)
        /\ ts = IF seq < sa THEN sa - seq ELSE 0
        /\ te = IF pb > sb THEN pb - sb ELSE 0
    BY <1>1, <1>3, <1>7, <1>8, <1>9 DEF U32
  <2> QED BY <1>1, <1>5, <1>6, <2>1, <2>2
<1>10. CASE seq <= pb /\ sa > sb
  <2>1. pb = seq + len /\ pb < SeqMod /\ sb = sa + v - SeqMod /\ sb >= 0
    BY <1>1, <1>7, <1>8, <1>10
  <2>2. /\ ~(seq > sb /\ pb < sa)
        /\ ts = IF seq > sb /\ seq < sa THEN sa - seq ELSE 0
        /\ te = IF pb >= sb /\ pb < sa THEN pb - sb ELSE 0
    BY <1>1, <1>3, <1>7, <1>8, <1>10 DEF U32
  <2> QED BY <1>1, <1>5, <1>6, <1>10, <2>1, <2>2
<1>11. CASE seq > pb /\ sa <= sb
  <2>1. pb = seq + len - SeqMod /\ pb >= 0 /\ sb = sa + v /\ sb < SeqMod
    BY <1>1, <1>7, <1>8, <1>11
  <2>2. /\ ~(seq > sb /\ pb < sa)
        /\ ts = IF sa <= pb \/ sa > seq THEN (IF sa < seq THEN sa - seq + SeqMod ELSE sa - seq) ELSE 0
        /\ te = IF pb > sb \/ sa >= seq THEN (IF pb < sb THEN pb - sb + SeqMod ELSE pb - sb) ELSE 0
    BY <1>1, <1>3, <1>7, <1>8, <1>11 DEF U32
  <2>3. ~(sa < seq /\ seq <= sa + v /\ sa + v < SeqMod)
    BY <1>4, <1>11
  <2> QED BY <1>1, <1>5, <1>6, <1>11, <2>1, <2>2, <2>3
<1>12. CASE seq > pb /\ sa > sb
  <2>1. pb = seq + len - SeqMod /\ pb >= 0 /\ sb = sa + v - SeqMod /\ sb >= 0
    BY <1>1, <1>7, <1>8, <1>12
  <2>2. /\ ts = IF seq < sa THEN sa - seq ELSE 0
        /\ te = IF pb > sb THEN pb - sb ELSE 0
    BY <1>1, <1>3, <1>7, <1>8, <1>12 DEF U32
  <2> QED BY <1>1, <1>5, <1>6, <1>12, <2>1, <2>2
<1> QED BY <1>1, <1>7, <1>8, <1>9, <1>10, <1>11, <1>12

\* A segment that is dropped has no byte that would fit.
LEMMA TrimDropsNone ==
  ASSUME HalfSpace, NEW x, x.seq \in SeqNo, x.rx_next_seq \in SeqNo,
         x.rx_avail \in 0 .. RxLen, x.len \in 0 .. LenMod - 1,
         tcp_trim_rxbuf(x, x.seq, x.len).drop, NEW z \in Int
  PROVE  ~(Offset(x) <= z /\ z <= Offset(x) + x.len - 1 /\ 0 <= z /\ z <= x.rx_avail - 1)
<1> DEFINE h == SeqMod \div 2
           o == Offset(x)
           seq == x.seq
           len == x.len
           sa == x.rx_next_seq
           v == x.rx_avail
           pb == U32(seq + len)
           sb == U32(sa + v)
<1>1. /\ SeqMod \in Nat /\ LenMod \in Nat /\ RxLen \in Nat /\ LenMod + RxLen < SeqMod
      /\ len \in Nat /\ len < LenMod /\ v \in Nat /\ v <= RxLen
      /\ seq \in Nat /\ seq < SeqMod /\ sa \in Nat /\ sa < SeqMod
  BY TcpCommonAssumption DEF SeqNo
<1>2. U16(len) = len
  BY <1>1, U16Range
<1>3. /\ seq <= pb \/ sa <= sb
      /\ seq <= pb /\ sa <= sb => pb < sa \/ seq > sb
      /\ seq > pb \/ sa > sb => seq > sb /\ pb < sa
  BY <1>1, <1>2, TrimDrops
<1>4. /\ o \in Int /\ (o = seq - sa \/ o = seq - sa - SeqMod \/ o = seq - sa + SeqMod)
      /\ - SeqMod + h <= o /\ o < h
  BY OffsetIs
<1>5. h \in Nat /\ h + h <= SeqMod /\ SeqMod <= h + h + 1 /\ LenMod <= h /\ RxLen <= h
  BY <1>1 DEF HalfSpace
<1>6. pb = (IF seq + len < SeqMod THEN seq + len ELSE seq + len - SeqMod) /\ pb \in Int
  BY <1>1 DEF U32
<1>7. sb = (IF sa + v < SeqMod THEN sa + v ELSE sa + v - SeqMod) /\ sb \in Int
  BY <1>1 DEF U32
<1> HIDE DEF h, o, seq, len, sa, v, pb, sb
<1>8. ~(o <= z /\ z <= o + len - 1 /\ 0 <= z /\ z <= v - 1)
  BY <1>1, <1>3, <1>4, <1>5, <1>6, <1>7
<1> QED BY <1>8 DEF o, len, v

LEMMA TrimExactly ==
  ASSUME HalfSpace, NEW x \in RxInputs, ~TrimMisses(x, x.seq, x.len)
  PROVE  LET tr == tcp_trim_rxbuf(x, x.seq, x.len)
         IN  /\ Kept(x) = Fitting(x)
             /\ ~tr.drop => tr.trim_start + tr.trim_end <= x.len
<1> DEFINE tr == tcp_trim_rxbuf(x, x.seq, x.len)
           o == Offset(x)
<1>1. /\ x.seq \in SeqNo /\ x.rx_next_seq \in SeqNo
      /\ x.rx_avail \in 0 .. RxLen /\ x.len \in 0 .. LenMod - 1
  BY DEF RxInputs
<1>2. o \in Int /\ x.len \in Int /\ x.rx_avail \in Int
  BY <1>1, OffsetIs, TcpCommonAssumption
<1>3. CASE tr.drop
  <2>1. \A z \in Int : ~(o <= z /\ z <= o + x.len - 1 /\ 0 <= z /\ z <= x.rx_avail - 1)
    BY <1>1, <1>3, TrimDropsNone
  <2>2. Kept(x) = {}
    BY <1>3 DEF Kept
  <2> HIDE DEF o
  <2>3. Fitting(x) = (o .. o + x.len - 1) \intersect (0 .. x.rx_avail - 1)
    BY DEF Fitting, o
  <2>4. Fitting(x) = {}
    BY <1>2, <2>1, <2>3
  <2> QED BY <1>3, <2>2, <2>4
<1>4. CASE ~tr.drop
  <2>1. /\ tr.trim_start \in Nat /\ tr.trim_end \in Nat
        /\ tr.trim_start + tr.trim_end <= x.len
        /\ \A z \in Int : (o + tr.trim_start <= z /\ z <= o + x.len - tr.trim_end - 1) <=>
                            (o <= z /\ z <= o + x.len - 1 /\ 0 <= z /\ z <= x.rx_avail - 1)
    BY <1>1, <1>4, TrimKeeps
  <2>2. Kept(x) = o + tr.trim_start .. o + x.len - tr.trim_end - 1
    BY <1>4 DEF Kept
  <2>3. Fitting(x) = (o .. o + x.len - 1) \intersect (0 .. x.rx_avail - 1)
    BY DEF Fitting
  <2> HIDE DEF o, tr
  <2>4. Kept(x) = Fitting(x)
    BY <1>2, <2>1, <2>2, <2>3
  <2> QED BY <2>1, <2>4 DEF tr
<1> QED BY <1>3, <1>4
-----------------------------------------------------------------------------
(* Acks and bump numbers. *)

LEMMA RxackExactly ==
  ASSUME NEW x \in TxInputs
  PROVE  tcp_valid_rxack(x, x.ack) <=> rxack_bump(x, x.ack) <= x.tx_sent + tx_unsent(x, x.tx_head)
<1> DEFINE n == x.tx_next_seq
           s == x.tx_sent
           k == x.ack
           u == tx_unsent(x, x.tx_head)
<1>1. n \in SeqNo /\ s \in Nat /\ k \in SeqNo /\ u \in Nat /\ s + u < TxLen
  <2>1. n \in SeqNo /\ s \in Nat /\ k \in SeqNo /\ x.tx_head \in 0 .. TxLen - 1
        /\ x.tx_next_pos \in 0 .. TxLen - 1
    BY TcpCommonAssumption DEF TxInputs
  <2>2. u \in Nat
    BY <2>1, TcpCommonAssumption DEF tx_unsent, CircDist
  <2>3. s + u < TxLen
    BY DEF TxInputs
  <2> QED BY <2>1, <2>2, <2>3
<1>2. /\ tcp_valid_rxack(x, k) <=>
           LET fsack_a == U32(n - s)
               fsack_b == U32(n + u)
           IN  IF fsack_a <= fsack_b THEN fsack_a <= k /\ k <= fsack_b ELSE ~(fsack_a > k /\ k > fsack_b)
      /\ rxack_bump(x, k) = U32(k - U32(n - s))
  BY DEF tcp_valid_rxack, rxack_bump
<1> HIDE DEF n, s, k, u
<1>3. (IF U32(n - s) <= U32(n + u) THEN U32(n - s) <= k /\ k <= U32(n + u) ELSE ~(U32(n - s) > k /\ k > U32(n + u)))
        <=> U32(k - U32(n - s)) <= s + u
  BY <1>1, TcpCommonAssumption DEF U32, SeqNo
<1>4. tcp_valid_rxack(x, k) <=> rxack_bump(x, k) <= s + u
  BY <1>2, <1>3
<1> QED BY <1>4 DEF s, k, u

LEMMA BumpsExactly ==
  ASSUME NEW seq \in SeqNo, NEW last \in SeqNo
  PROVE  LET ahead == U32(seq - last)  behind == U32(last - seq)
             quarter == (SeqMod - 1) \div 4
         IN  /\ ahead <= quarter => ~bump_stale(seq, last)
             /\ behind \in 1 .. quarter => bump_stale(seq, last)
<1> DEFINE qr == (SeqMod - 1) \div 4
           h == (SeqMod - 1) \div 2
<1>1. SeqMod \in Nat \ {0} /\ qr \in Nat /\ h \in Nat
  BY TcpCommonAssumption
<1>2. 4 * qr <= SeqMod - 1 /\ SeqMod - 1 <= 4 * qr + 3 /\ 2 * h <= SeqMod - 1 /\ SeqMod - 1 <= 2 * h + 1
  BY <1>1
<1>3. bump_stale(seq, last) <=>
        \/ seq >= last /\ seq - last > h
        \/ seq < last /\ (last < qr * 3 \/ seq > qr)
  BY DEF bump_stale
<1> HIDE DEF qr, h
<1>4. U32(seq - last) <= qr => ~bump_stale(seq, last)
  BY <1>1, <1>2, <1>3 DEF U32, SeqNo
<1>5. U32(last - seq) \in 1 .. qr => bump_stale(seq, last)
  BY <1>1, <1>2, <1>3 DEF U32, SeqNo
<1> QED BY <1>4, <1>5 DEF qr
-----------------------------------------------------------------------------
\* Every input remains one when its numbers are shifted.
Inputs == in \in RxInputs \union TxInputs \union BumpInputs

LEMMA ShiftRange ==
  ASSUME NEW s \in SeqNo
  PROVE  Shift(s) \in SeqNo
  BY TcpCommonAssumption DEF Shift, U32, SeqNo

LEMMA NextInputs ==
  ASSUME Inputs, [Next]_in
  PROVE  Inputs'
<1>1. CASE ShiftRx
  <2>1. in \in RxInputs
    BY <1>1 DEF Inputs, ShiftRx, RxInputs, TxInputs, BumpInputs
  <2>2. in' \in RxInputs
    BY <1>1, <2>1, ShiftRange DEF ShiftRx, RxInputs
  <2> QED BY <2>2 DEF Inputs
<1>2. CASE ShiftTx
  <2>1. in \in TxInputs
    BY <1>2 DEF Inputs, ShiftTx, RxInputs, TxInputs, BumpInputs
  <2>2. /\ in' \in [kind : {"tx"}, tx_next_seq : SeqNo,
                    tx_next_pos : 0 .. TxLen - 1, tx_head : 0 .. TxLen - 1,
                    tx_sent : 0 .. TxLen - 1, ack : SeqNo]
        /\ in'.tx_next_pos = in.tx_next_pos /\ in'.tx_head = in.tx_head /\ in'.tx_sent = in.tx_sent
    BY <1>2, <2>1, ShiftRange DEF ShiftTx, TxInputs
  <2>3. in'.tx_sent + tx_unsent(in', in'.tx_head) < TxLen
    BY <2>1, <2>2 DEF TxInputs, tx_unsent
  <2>4. in' \in TxInputs
    BY <2>2, <2>3 DEF TxInputs
  <2> QED BY <2>4 DEF Inputs
<1>3. CASE ShiftBump
  <2>1. in \in BumpInputs
    BY <1>3 DEF Inputs, ShiftBump, RxInputs, TxInputs, BumpInputs
  <2>2. in' \in BumpInputs
    BY <1>3, <2>1, ShiftRange DEF ShiftBump, BumpInputs
  <2> QED BY <2>2 DEF Inputs
<1>4. CASE UNCHANGED in
  BY <1>4 DEF Inputs
<1> QED BY <1>1, <1>2, <1>3, <1>4 DEF Next

\* tcp_trim_rxbuf keeps exactly what fits of every segment that TrimMisses does
\* not name, tcp_valid_rxack accepts exactly the acks of the data in the
\* buffer, and flast_flows_bump takes bumps for stale or fresh as they are: for
\* every width of the numbers and every size of the buffers.
THEOREM Exact ==
  ASSUME HalfSpace
  PROVE  MCSpec => []ArithmeticExact
<1>1. MCInit => Inputs
  <2>1. [kind |-> "bump", seq |-> 0, last |-> 0] \in BumpInputs
    BY TcpCommonAssumption DEF BumpInputs, SeqNo
  <2> QED BY <2>1 DEF MCInit, Init, Inputs
<1>2. Inputs /\ [MCNext]_mcVars => Inputs'
  <2> SUFFICES ASSUME Inputs, [MCNext]_mcVars PROVE Inputs'
    OBVIOUS
  <2>1. [Next]_in
    BY DEF MCNext, OthersRest, Rest, mcVars
  <2> QED BY <2>1, NextInputs
<1>3. ASSUME Inputs
      PROVE  ArithmeticExact
  <2>1. TrimExact
    <3> SUFFICES ASSUME in.kind = "rx", ~TrimMisses(in, in.seq, in.len)
                 PROVE  LET tr == tcp_trim_rxbuf(in, in.seq, in.len)
                        IN  /\ Kept(in) = Fitting(in)
                            /\ ~tr.drop => tr.trim_start + tr.trim_end <= in.len
      BY DEF TrimExact
    <3>1. in \in RxInputs
      BY <1>3 DEF Inputs, RxInputs, TxInputs, BumpInputs
    <3> QED BY <3>1, TrimExactly
  <2>2. RxackExact
    <3>1. in.kind = "tx" => in \in TxInputs
      BY <1>3 DEF Inputs, RxInputs, TxInputs, BumpInputs
    <3> QED BY <3>1, RxackExactly DEF RxackExact
  <2>3. BumpOrderExact
    <3> SUFFICES ASSUME in.kind = "bump"
                 PROVE  LET ahead == U32(in.seq - in.last)  behind == U32(in.last - in.seq)
                            quarter == (SeqMod - 1) \div 4
                        IN  /\ ahead <= quarter => ~bump_stale(in.seq, in.last)
                            /\ behind \in 1 .. quarter => bump_stale(in.seq, in.last)
      BY DEF BumpOrderExact
    <3>1. in.seq \in SeqNo /\ in.last \in SeqNo
      BY <1>3 DEF Inputs, RxInputs, TxInputs, BumpInputs
    <3> QED BY <3>1, BumpsExactly
  <2> QED BY <2>1, <2>2, <2>3 DEF ArithmeticExact
<1> QED BY <1>1, <1>2, <1>3, PTL DEF MCSpec
-----------------------------------------------------------------------------
(* Packet buffers *)


Buffers == Core!TxPool \cup Core!RxPool
Slots == 0..CacheSize - 1
Slot(h, i) == (h + i) % CacheSize

Types ==
  /\ pc \in {"rx", "flush", "qman", "queues", "polling", "kernel", "flush2"}
  /\ txpool \subseteq Core!TxPool /\ rxpool \subseteq Core!RxPool /\ nic \subseteq Buffers
  /\ cache \in [Slots -> {Core!NoBuf} \cup Core!TxPool]
  /\ head \in Slots /\ num \in 0..CacheSize
  /\ batch \in Seq(Buffers)
  /\ work \subseteq Core!Ctxs /\ next_ctx \in Core!Ctxs
  /\ q \in [n : Nat, i : Nat, k : Nat, max : Nat]

\* poll_queues stays within the buffers it was granted, and the batch has room
\* for all of them; the NIC has no more than its ring holds.
Progress ==
  /\ Cardinality(nic) <= Ring
  /\ q.k <= q.max /\ q.max <= num /\ head + q.max <= CacheSize
  /\ Len(batch) + (q.max - q.k) <= Core!TxBufSize
  /\ pc # "polling" => q = Core!NoLoop

\* The buffers of the cache ca from the k-th to the n-th behind the head h.
Stored(ca, h, k, n) == {ca[Slot(h, i)] : i \in k..n - 1}
Different(ca, h, k, n) == \A i, j \in k..n - 1 : ca[Slot(h, i)] = ca[Slot(h, j)] => i = j

\* Cache, batch, pools and NIC have no buffer in common, and every buffer.
Apart(c, b, tk, r, n) ==
  /\ c \cup b \cup tk \cup r \cup n = Buffers
  /\ c \cap (b \cup tk \cup r \cup n) = {} /\ b \cap (tk \cup r \cup n) = {}
  /\ tk \cap (r \cup n) = {} /\ r \cap n = {}

Places ==
  /\ Different(cache, head, q.k, num) /\ Core!IsInjective(batch)
  /\ Stored(cache, head, q.k, num) \subseteq Core!TxPool
  /\ Apart(Stored(cache, head, q.k, num), Core!Range(batch), txpool, rxpool, nic)

IInv == Types /\ Progress /\ Places
-----------------------------------------------------------------------------
(* Sizes *)

LEMMA SameLibrary ==
  /\ \A S : Core!Cardinality(S) = Cardinality(S)
  /\ \A f : Core!IsInjective(f) = IsInjective(f)
BY Zenon DEF Core!Cardinality, Cardinality, Core!IsInjective, IsInjective

LEMMA Sizes ==
  ASSUME Core!DataplaneAssumption
  PROVE  /\ CacheSize \in Nat \ {0} /\ Batch \in Nat \ {0} /\ Ring \in Nat \ {0}
         /\ Contexts \in Nat \ {0}
         /\ KernelMax \in Nat \ {0} /\ TxBufs \in Nat \ {0} /\ RxBufs \in Nat \ {0}
         /\ Core!TxBufSize = 2 * Batch /\ Core!TxBufSize \in Nat
         /\ Core!TxPool \cap Core!RxPool = {} /\ Core!NoBuf \notin Core!TxPool
         /\ IsFiniteSet(Core!TxPool) /\ IsFiniteSet(Core!RxPool)
<1>1. /\ CacheSize \in Nat \ {0} /\ Batch \in Nat \ {0} /\ Ring \in Nat \ {0} /\ Contexts \in Nat \ {0}
      /\ KernelMax \in Nat \ {0} /\ TxBufs \in Nat \ {0} /\ RxBufs \in Nat \ {0}
  BY DEF Core!DataplaneAssumption
<1>2. Core!TxBufSize = 2 * Batch /\ Core!TxBufSize \in Nat
  BY <1>1 DEF Core!TxBufSize
<1>3. Core!TxPool \cap Core!RxPool = {} /\ Core!NoBuf \notin Core!TxPool
  BY <1>1 DEF Core!TxPool, Core!RxPool, Core!NoBuf
<1>4. IsFiniteSet(Core!TxPool) /\ IsFiniteSet(Core!RxPool)
  BY <1>1, FS_Interval DEF Core!TxPool, Core!RxPool
<1> QED BY <1>1, <1>2, <1>3, <1>4

LEMMA Finite ==
  ASSUME Core!DataplaneAssumption, Types
  PROVE  /\ IsFiniteSet(txpool) /\ IsFiniteSet(rxpool) /\ IsFiniteSet(nic)
         /\ Cardinality(txpool) \in Nat /\ Cardinality(rxpool) \in Nat /\ Cardinality(nic) \in Nat
<1>1. IsFiniteSet(Core!TxPool \cup Core!RxPool)
  BY Sizes, FS_Union
<1>2. IsFiniteSet(txpool) /\ IsFiniteSet(rxpool) /\ IsFiniteSet(nic)
  BY <1>1, Sizes, FS_Subset DEF Types, Buffers
<1> QED BY <1>2, FS_CardinalityType

LEMMA LeastIs ==
  ASSUME NEW a \in Int, NEW b \in Int
  PROVE  Core!Least(a, b) \in {a, b} /\ Core!Least(a, b) \in Int /\ Core!Least(a, b) <= a
         /\ Core!Least(a, b) <= b
BY DEF Core!Least

\* An index that went past the end, or before the start, less than twice.
LEMMA Wraps ==
  ASSUME NEW n \in Nat \ {0}, NEW x \in -2 * n..2 * n - 1
  PROVE  x % n = IF x >= n THEN x - n ELSE IF x >= 0 THEN x ELSE IF x >= -n THEN x + n ELSE x + 2 * n
<1>1. CASE x >= n
  <2>1. PICK y \in 0..n - 1 : x = y + n
    BY <1>1
  <2> QED BY <1>1, <2>1, SMT
<1>2. CASE x >= 0 /\ x < n
  BY <1>2, SMT
<1>3. CASE x < 0 /\ x >= -n
  BY <1>3, SMT
<1>4. CASE x < -n
  BY <1>4, SMT
<1> QED BY <1>1, <1>2, <1>3, <1>4

\* Slots are slots, and different ones for less than a whole round.
LEMMA SlotIs ==
  ASSUME Core!DataplaneAssumption, NEW h \in Slots, NEW i \in 0..CacheSize
  PROVE  /\ Slot(h, i) \in Slots
         /\ Slot(h, i) = IF h + i >= CacheSize THEN h + i - CacheSize ELSE h + i
<1>1. CacheSize \in Nat \ {0}
  BY Sizes
<1>2. PICK x \in -2 * CacheSize..2 * CacheSize - 1 : x = h + i
  BY <1>1 DEF Slots
<1>3. x % CacheSize = IF x >= CacheSize THEN x - CacheSize ELSE x
  <2>1. x >= 0
    BY <1>1, <1>2 DEF Slots
  <2>2. x % CacheSize = IF x >= CacheSize THEN x - CacheSize ELSE IF x >= 0 THEN x
                        ELSE IF x >= -CacheSize THEN x + CacheSize ELSE x + 2 * CacheSize
    BY <1>1, Wraps
  <2> QED BY <2>1, <2>2
<1> QED BY <1>1, <1>2, <1>3 DEF Slot, Slots
-----------------------------------------------------------------------------
(* Lists of buffers *)

LEMMA RangeOf ==
  ASSUME NEW S, NEW s \in Seq(S)
  PROVE  /\ Core!Range(s) \subseteq S /\ DOMAIN s = 1..Len(s) /\ Len(s) \in Nat
         /\ Core!Range(s) = {s[i] : i \in 1..Len(s)}
BY DEF Core!Range

\* What a pool hands out.
LEMMA SomeOf ==
  ASSUME NEW S, IsFiniteSet(S), NEW k \in 0..Cardinality(S)
  PROVE  /\ Core!Some(S, k) \in Seq(S) /\ Len(Core!Some(S, k)) = k
         /\ Core!IsInjective(Core!Some(S, k)) /\ Core!Range(Core!Some(S, k)) \subseteq S
<1> DEFINE n == Cardinality(S)
           f == Core!SetToSeq(S)
<1>1. n \in Nat /\ ExistsBijection(1..n, S)
  BY FS_CardinalityType
<1>2. \E g \in [1..n -> S] : Core!IsInjective(g)
  BY <1>1, SameLibrary DEF ExistsBijection, Bijection, Injection
<1>3. f \in [1..n -> S] /\ Core!IsInjective(f)
  BY <1>2, SameLibrary DEF Core!SetToSeq
<1> HIDE DEF f, n
<1>4. f \in Seq(S) /\ Len(f) = n
  BY <1>1, <1>3
<1>5. /\ SubSeq(f, 1, k) \in Seq(S) /\ Len(SubSeq(f, 1, k)) = k
      /\ \A i \in 1..k : SubSeq(f, 1, k)[i] = f[i]
  BY <1>1, <1>4 DEF n
<1>6. Core!IsInjective(SubSeq(f, 1, k))
  BY <1>1, <1>3, <1>4, <1>5 DEF Core!IsInjective, n
<1>7. Core!Some(S, k) = SubSeq(f, 1, k)
  BY DEF Core!Some, f
<1> QED BY <1>5, <1>6, <1>7, RangeOf

LEMMA Appended ==
  ASSUME NEW S, NEW s \in Seq(S), NEW tk \in Seq(S),
         Core!IsInjective(s), Core!IsInjective(tk), Core!Range(s) \cap Core!Range(tk) = {}
  PROVE  /\ s \o tk \in Seq(S) /\ Len(s \o tk) = Len(s) + Len(tk)
         /\ Core!IsInjective(s \o tk) /\ Core!Range(s \o tk) = Core!Range(s) \cup Core!Range(tk)
<1> DEFINE r == s \o tk
<1>1. r \in Seq(S) /\ Len(r) = Len(s) + Len(tk) /\ Len(s) \in Nat /\ Len(tk) \in Nat
  OBVIOUS
<1>2. \A i \in 1..Len(r) : r[i] = IF i <= Len(s) THEN s[i] ELSE tk[i - Len(s)]
  OBVIOUS
<1> HIDE DEF r
<1>3. \A i \in 1..Len(s) : s[i] \in Core!Range(s)
  BY RangeOf
<1>4. \A i \in 1..Len(tk) : tk[i] \in Core!Range(tk)
  BY RangeOf
<1>5. Core!Range(r) = Core!Range(s) \cup Core!Range(tk)
  <2>1. ASSUME NEW x \in Core!Range(r) PROVE x \in Core!Range(s) \cup Core!Range(tk)
    <3>1. PICK i \in 1..Len(r) : x = r[i]
      BY <1>1, RangeOf
    <3> QED BY <3>1, <1>1, <1>2, <1>3, <1>4
  <2>2. ASSUME NEW x \in Core!Range(s) PROVE x \in Core!Range(r)
    <3>1. PICK i \in 1..Len(s) : x = s[i]
      BY RangeOf
    <3>2. i \in 1..Len(r) /\ r[i] = x
      BY <3>1, <1>1, <1>2
    <3> QED BY <3>2, <1>1, RangeOf
  <2>3. ASSUME NEW x \in Core!Range(tk) PROVE x \in Core!Range(r)
    <3>1. PICK i \in 1..Len(tk) : x = tk[i]
      BY RangeOf
    <3>2. PICK j \in 1..Len(r) : j = Len(s) + i
      BY <1>1
    <3>3. r[j] = x
      BY <3>1, <3>2, <1>1, <1>2, SMTT(30)
    <3> QED BY <3>3, <1>1, RangeOf
  <2> QED BY <2>1, <2>2, <2>3
<1>6. Core!IsInjective(r)
  <2> SUFFICES ASSUME NEW i \in 1..Len(r), NEW j \in 1..Len(r), r[i] = r[j]
               PROVE  i = j
    BY <1>1, RangeOf DEF Core!IsInjective
  <2>1. CASE i <= Len(s) /\ j <= Len(s)
    BY <2>1, <1>1, <1>2, RangeOf DEF Core!IsInjective
  <2>2. CASE i > Len(s) /\ j > Len(s)
    <3>1. i - Len(s) \in DOMAIN tk /\ j - Len(s) \in DOMAIN tk /\ tk[i - Len(s)] = tk[j - Len(s)]
      BY <2>2, <1>1, <1>2
    <3>2. i - Len(s) = j - Len(s)
      BY <3>1 DEF Core!IsInjective
    <3> QED BY <3>2, <1>1
  <2>3. CASE i <= Len(s) /\ j > Len(s)
    BY <2>3, <1>1, <1>2, <1>3, <1>4
  <2>4. CASE i > Len(s) /\ j <= Len(s)
    BY <2>4, <1>1, <1>2, <1>3, <1>4
  <2> QED BY <1>1, <2>1, <2>2, <2>3, <2>4
<1> QED BY <1>1, <1>5, <1>6 DEF r

\* What is sent and what stays.
LEMMA Cut ==
  ASSUME NEW S, NEW b \in Seq(S), Core!IsInjective(b), NEW s \in 0..Len(b)
  PROVE  /\ SubSeq(b, s + 1, Len(b)) \in Seq(S) /\ Len(SubSeq(b, s + 1, Len(b))) = Len(b) - s
         /\ Core!IsInjective(SubSeq(b, s + 1, Len(b)))
         /\ Core!Range(b) = Core!Range(SubSeq(b, 1, s)) \cup Core!Range(SubSeq(b, s + 1, Len(b)))
         /\ Core!Range(SubSeq(b, 1, s)) \cap Core!Range(SubSeq(b, s + 1, Len(b))) = {}
<1> DEFINE u == SubSeq(b, 1, s)
           v == SubSeq(b, s + 1, Len(b))
<1>1. /\ u \in Seq(S) /\ Len(u) = s /\ v \in Seq(S) /\ Len(v) = Len(b) - s
      /\ Len(b) \in Nat /\ s \in Nat
  OBVIOUS
<1>2. \A i \in 1..s : u[i] = b[i]
  OBVIOUS
<1>3. \A i \in 1..Len(b) - s : v[i] = b[s + i]
  OBVIOUS
<1> HIDE DEF u, v
<1>4. \A i, j \in 1..Len(b) : b[i] = b[j] => i = j
  BY DEF Core!IsInjective
<1>5. Core!IsInjective(v)
  <2>0. DOMAIN v = 1..Len(v)
    BY <1>1
  <2> SUFFICES ASSUME NEW i \in 1..Len(v), NEW j \in 1..Len(v), v[i] = v[j]
               PROVE  i = j
    BY <2>0 DEF Core!IsInjective
  <2>1. s + i \in 1..Len(b) /\ s + j \in 1..Len(b) /\ b[s + i] = b[s + j]
    BY <1>1, <1>3
  <2>2. s + i = s + j
    BY <2>1, <1>4
  <2> QED BY <2>2, <1>1
<1>6. Core!Range(u) \subseteq Core!Range(b) /\ Core!Range(v) \subseteq Core!Range(b)
  <2>1. ASSUME NEW x \in Core!Range(u) PROVE x \in Core!Range(b)
    <3>1. PICK i \in 1..s : x = b[i]
      BY <1>1, <1>2, RangeOf
    <3>2. i \in 1..Len(b)
      BY <1>1
    <3> QED BY <3>1, <3>2, RangeOf
  <2>2. ASSUME NEW x \in Core!Range(v) PROVE x \in Core!Range(b)
    <3>1. PICK i \in 1..Len(b) - s : x = b[s + i]
      BY <1>1, <1>3, RangeOf
    <3>2. s + i \in 1..Len(b)
      BY <1>1
    <3> QED BY <3>1, <3>2, RangeOf
  <2> QED BY <2>1, <2>2
<1>7. Core!Range(b) \subseteq Core!Range(u) \cup Core!Range(v)
  <2> SUFFICES ASSUME NEW x \in Core!Range(b) PROVE x \in Core!Range(u) \cup Core!Range(v)
    OBVIOUS
  <2>1. PICK i \in 1..Len(b) : x = b[i]
    BY RangeOf
  <2>2. CASE i <= s
    <3>1. i \in 1..s /\ u[i] = x
      BY <2>1, <2>2, <1>1, <1>2
    <3> QED BY <3>1, <1>1, RangeOf
  <2>3. CASE i > s
    <3>1. PICK j \in 1..Len(b) - s : i = s + j
      BY <2>3, <1>1
    <3>2. v[j] = x
      BY <3>1, <2>1, <1>3
    <3> QED BY <3>2, <1>1, RangeOf
  <2> QED BY <2>2, <2>3, <1>1
<1>8. Core!Range(u) \cap Core!Range(v) = {}
  <2> SUFFICES ASSUME NEW x, x \in Core!Range(u), x \in Core!Range(v) PROVE FALSE
    OBVIOUS
  <2>1. PICK i \in 1..s : x = b[i]
    BY <1>1, <1>2, RangeOf
  <2>2. PICK j \in 1..Len(b) - s : x = b[s + j]
    BY <1>1, <1>3, RangeOf
  <2>3. i \in 1..Len(b) /\ s + j \in 1..Len(b) /\ i # s + j
    BY <1>1
  <2> QED BY <2>1, <2>2, <2>3, <1>4
<1> QED BY <1>1, <1>5, <1>6, <1>7, <1>8 DEF u, v
-----------------------------------------------------------------------------
(* The cache *)

\* How far a slot is behind the end of the window.
LEMMA Behind ==
  ASSUME Core!DataplaneAssumption, NEW h \in Slots, NEW n \in 0..CacheSize, NEW j \in Slots
  PROVE  (Slot(h, j) - (h + n)) % CacheSize = IF j >= n THEN j - n ELSE j - n + CacheSize
<1>1. CacheSize \in Nat \ {0}
  BY Sizes
<1>2. Slot(h, j) = IF h + j >= CacheSize THEN h + j - CacheSize ELSE h + j
  BY <1>1, SlotIs DEF Slots
<1>3. PICK x \in -2 * CacheSize..2 * CacheSize - 1 : x = Slot(h, j) - (h + n)
  BY <1>1, <1>2 DEF Slots
<1>4. x % CacheSize = IF x >= CacheSize THEN x - CacheSize ELSE IF x >= 0 THEN x
                      ELSE IF x >= -CacheSize THEN x + CacheSize ELSE x + 2 * CacheSize
  BY <1>1, Wraps
<1>5. x = IF h + j >= CacheSize THEN j - n - CacheSize ELSE j - n
  BY <1>1, <1>2, <1>3 DEF Slots
<1>6. (IF x >= CacheSize THEN x - CacheSize ELSE IF x >= 0 THEN x
       ELSE IF x >= -CacheSize THEN x + CacheSize ELSE x + 2 * CacheSize)
      = IF j >= n THEN j - n ELSE j - n + CacheSize
  BY <1>1, <1>5 DEF Slots
<1> QED BY <1>3, <1>4, <1>6

\* cb is ca with the buffers s behind the window.
PutBehind(cb, ca, h, n, s) ==
  /\ Different(ca, h, 0, n) /\ Stored(ca, h, 0, n) \cap Core!Range(s) = {}
  /\ \A i \in 0..n - 1 : cb[Slot(h, i)] = ca[Slot(h, i)]
  /\ \A i \in n..n + Len(s) - 1 : cb[Slot(h, i)] = s[i - n + 1]

LEMMA Filled ==
  ASSUME NEW S, NEW s \in Seq(S), Core!IsInjective(s), NEW n \in Nat, NEW h, NEW ca, NEW cb,
         PutBehind(cb, ca, h, n, s), NEW k, k = n + Len(s)
  PROVE  Different(cb, h, 0, k) /\ Stored(cb, h, 0, k) = Stored(ca, h, 0, n) \cup Core!Range(s)
<1>0. /\ Different(ca, h, 0, n) /\ Stored(ca, h, 0, n) \cap Core!Range(s) = {}
      /\ \A i \in 0..n - 1 : cb[Slot(h, i)] = ca[Slot(h, i)]
      /\ \A i \in n..n + Len(s) - 1 : cb[Slot(h, i)] = s[i - n + 1]
  BY DEF PutBehind
<1>1. Len(s) \in Nat /\ DOMAIN s = 1..Len(s)
  BY RangeOf
<1> DEFINE m == Len(s)
           B(i) == cb[Slot(h, i)]
           A(i) == ca[Slot(h, i)]
<1>2. m \in Nat /\ DOMAIN s = 1..m
  BY <1>1
<1>3. \A i \in 0..n - 1 : B(i) = A(i) /\ A(i) \in Stored(ca, h, 0, n)
  BY <1>0 DEF Stored
<1>4. \A i \in n..n + m - 1 : B(i) = s[i - n + 1] /\ i - n + 1 \in 1..m
  BY <1>0, <1>2
<1>5. \A i \in 1..m : s[i] \in Core!Range(s)
  BY <1>2 DEF Core!Range
<1>6. \A i, j \in 0..n - 1 : A(i) = A(j) => i = j
  BY <1>0 DEF Different
<1>7. \A i, j \in 1..m : s[i] = s[j] => i = j
  BY <1>2 DEF Core!IsInjective
<1>8. \A i, j \in 0..n + m - 1 : B(i) = B(j) => i = j
  <2> HIDE DEF m, A, B
  <2> SUFFICES ASSUME NEW i \in 0..n + m - 1, NEW j \in 0..n + m - 1, B(i) = B(j)
               PROVE  i = j
    OBVIOUS
  <2>1. CASE i < n /\ j < n
    BY <2>1, <1>2, <1>3, <1>6
  <2>2. CASE i >= n /\ j >= n
    <3>1. i - n + 1 = j - n + 1
      BY <2>2, <1>2, <1>4, <1>7
    <3> QED BY <3>1, <1>2
  <2>3. CASE i < n /\ j >= n
    BY <2>3, <1>0, <1>2, <1>3, <1>4, <1>5
  <2>4. CASE i >= n /\ j < n
    BY <2>4, <1>0, <1>2, <1>3, <1>4, <1>5
  <2> QED BY <1>2, <2>1, <2>2, <2>3, <2>4
<1>9. Stored(cb, h, 0, n + m) = {B(i) : i \in 0..n + m - 1}
  BY DEF Stored
<1>10. {B(i) : i \in 0..n + m - 1} = Stored(ca, h, 0, n) \cup Core!Range(s)
  <2> HIDE DEF m, A, B
  <2>1. ASSUME NEW i \in 0..n + m - 1 PROVE B(i) \in Stored(ca, h, 0, n) \cup Core!Range(s)
    <3>1. CASE i < n
      BY <3>1, <1>2, <1>3
    <3>2. CASE i >= n
      BY <3>2, <1>2, <1>4, <1>5
    <3> QED BY <1>2, <3>1, <3>2
  <2>2. ASSUME NEW x \in Stored(ca, h, 0, n) PROVE x \in {B(i) : i \in 0..n + m - 1}
    <3>1. PICK i \in 0..n - 1 : x = A(i)
      BY DEF Stored, A
    <3>2. i \in 0..n + m - 1 /\ x = B(i)
      BY <3>1, <1>2, <1>3
    <3> QED BY <3>2
  <2>3. ASSUME NEW x \in Core!Range(s) PROVE x \in {B(i) : i \in 0..n + m - 1}
    <3>1. PICK i \in 1..m : x = s[i]
      BY <1>2 DEF Core!Range
    <3>2. PICK j \in 0..n + m - 1 : j = n + i - 1 /\ j >= n
      BY <1>2
    <3>3. j - n + 1 = i /\ j \in n..n + m - 1
      BY <3>2, <1>2
    <3>4. B(j) = x
      BY <3>1, <3>3, <1>4
    <3> QED BY <3>4
  <2> QED BY <2>1, <2>2, <2>3
<1>11. Different(cb, h, 0, n + m)
  BY <1>8 DEF Different
<1> QED BY <1>9, <1>10, <1>11

\* The head moves on by k.
LEMMA Shifted ==
  ASSUME Core!DataplaneAssumption, NEW ca, NEW h \in Slots, NEW n \in 0..CacheSize, NEW k \in 0..n,
         Different(ca, h, k, n)
  PROVE  /\ (h + k) % CacheSize \in Slots
         /\ Stored(ca, (h + k) % CacheSize, 0, n - k) = Stored(ca, h, k, n)
         /\ Different(ca, (h + k) % CacheSize, 0, n - k)
<1> DEFINE A(i) == ca[Slot(h, i)]
<1>1. CacheSize \in Nat \ {0} /\ n \in Nat /\ k \in Nat /\ n - k \in Nat
  BY Sizes
<1>2. PICK g \in Slots : g = (h + k) % CacheSize
  <2>1. Slot(h, k) \in Slots
    BY <1>1, SlotIs
  <2> QED BY <2>1 DEF Slot
<1>3. \A i \in 0..n - k - 1 : ca[Slot(g, i)] = A(k + i) /\ k + i \in k..n - 1
  <2> SUFFICES ASSUME NEW i \in 0..n - k - 1 PROVE Slot(g, i) = Slot(h, k + i) /\ k + i \in k..n - 1
    OBVIOUS
  <2>1. PICK j \in 0..CacheSize : j = k + i
    BY <1>1
  <2>2. Slot(h, j) = IF h + j >= CacheSize THEN h + j - CacheSize ELSE h + j
    BY SlotIs
  <2>3. g = IF h + k >= CacheSize THEN h + k - CacheSize ELSE h + k
    <3>1. Slot(h, k) = IF h + k >= CacheSize THEN h + k - CacheSize ELSE h + k
      BY <1>1, SlotIs
    <3> QED BY <3>1, <1>2 DEF Slot
  <2>4. Slot(g, i) = IF g + i >= CacheSize THEN g + i - CacheSize ELSE g + i
    BY <1>1, SlotIs
  <2>5. Slot(g, i) = Slot(h, j)
    BY <1>1, <2>1, <2>2, <2>3, <2>4 DEF Slots
  <2> QED BY <2>1, <2>5, <1>1
<1>4. \A i, j \in k..n - 1 : A(i) = A(j) => i = j
  BY DEF Different
<1>5. Stored(ca, h, k, n) = {A(i) : i \in k..n - 1}
  BY DEF Stored
<1> HIDE DEF A
<1>6. Stored(ca, g, 0, n - k) = {A(i) : i \in k..n - 1}
  <2>1. \A i \in k..n - 1 : i - k \in 0..n - k - 1 /\ k + (i - k) = i
    BY <1>1
  <2>2. {A(i) : i \in k..n - 1} = {ca[Slot(g, i)] : i \in 0..n - k - 1}
    BY <1>3, <2>1
  <2> QED BY <2>2 DEF Stored
<1>7. Different(ca, g, 0, n - k)
  <2> SUFFICES ASSUME NEW i \in 0..n - k - 1, NEW j \in 0..n - k - 1, ca[Slot(g, i)] = ca[Slot(g, j)]
               PROVE  i = j
    BY DEF Different
  <2>1. A(k + i) = A(k + j) /\ k + i \in k..n - 1 /\ k + j \in k..n - 1
    BY <1>1, <1>3
  <2>2. k + i = k + j
    BY <2>1, <1>4
  <2> QED BY <2>2, <1>1
<1> QED BY <1>2, <1>5, <1>6, <1>7

\* The k buffers from the head on are sent.
LEMMA Drawn ==
  ASSUME Core!DataplaneAssumption, NEW S, NEW ca, NEW h \in Slots, NEW n \in 0..CacheSize,
         NEW k \in 0..n,
         h + k <= CacheSize, Different(ca, h, 0, n), Stored(ca, h, 0, n) \subseteq S
  PROVE  LET s == [j \in 1..k |-> ca[h + j - 1]]
         IN /\ s \in Seq(S) /\ Len(s) = k /\ Core!IsInjective(s)
            /\ Core!Range(s) \cap Stored(ca, h, k, n) = {}
            /\ Core!Range(s) \cup Stored(ca, h, k, n) = Stored(ca, h, 0, n)
            /\ Different(ca, h, k, n)
<1> DEFINE s == [j \in 1..k |-> ca[h + j - 1]]
           A(i) == ca[Slot(h, i)]
<1>1. CacheSize \in Nat \ {0} /\ n \in Nat /\ k \in Nat
  BY Sizes
<1>2. \A j \in 1..k : s[j] = A(j - 1) /\ j - 1 \in 0..n - 1
  <2> SUFFICES ASSUME NEW j \in 1..k PROVE s[j] = A(j - 1) /\ j - 1 \in 0..n - 1
    OBVIOUS
  <2>1. PICK i \in 0..CacheSize : i = j - 1
    BY <1>1
  <2>2. Slot(h, i) = h + i
    BY <1>1, <2>1, SlotIs DEF Slots
  <2> QED BY <1>1, <2>1, <2>2 DEF Slots
<1>3. \A i, j \in 0..n - 1 : A(i) = A(j) => i = j
  BY DEF Different
<1>4. \A i \in 0..n - 1 : A(i) \in Stored(ca, h, 0, n)
  BY DEF Stored
<1>5. s \in Seq(S) /\ Len(s) = k /\ DOMAIN s = 1..k
  <2>1. \A j \in 1..k : s[j] \in S
    BY <1>2, <1>4
  <2> QED BY <2>1, <1>1
<1>6. Stored(ca, h, k, n) = {A(i) : i \in k..n - 1} /\ Stored(ca, h, 0, n) = {A(i) : i \in 0..n - 1}
  BY DEF Stored
<1>7. Different(ca, h, k, n)
  BY <1>1 DEF Different
<1>8. Core!Range(s) = {A(i) : i \in 0..k - 1}
  <2>1. Core!Range(s) = {s[j] : j \in 1..k}
    BY <1>5 DEF Core!Range
  <2> HIDE DEF A, s
  <2>2. \A i \in 0..k - 1 : i + 1 \in 1..k /\ (i + 1) - 1 = i
    BY <1>1
  <2>3. \A j \in 1..k : j - 1 \in 0..k - 1
    BY <1>1
  <2> QED BY <2>1, <2>2, <2>3, <1>2
<1> HIDE DEF A, s
<1>9. Core!IsInjective(s)
  <2> SUFFICES ASSUME NEW i \in 1..k, NEW j \in 1..k, s[i] = s[j] PROVE i = j
    BY <1>5 DEF Core!IsInjective
  <2>1. i - 1 = j - 1
    BY <1>2, <1>3
  <2> QED BY <2>1
<1>10. {A(i) : i \in 0..k - 1} \cap {A(i) : i \in k..n - 1} = {}
  <2>1. \A i \in 0..k - 1, j \in k..n - 1 : i \in 0..n - 1 /\ j \in 0..n - 1 /\ i # j
    BY <1>1
  <2> QED BY <2>1, <1>3
<1>11. {A(i) : i \in 0..k - 1} \cup {A(i) : i \in k..n - 1} = {A(i) : i \in 0..n - 1}
  <2>1. 0..k - 1 \cup k..n - 1 = 0..n - 1
    BY <1>1
  <2> QED BY <2>1
<1> QED BY <1>5, <1>6, <1>7, <1>8, <1>9, <1>10, <1>11 DEF s

\* The next buffer of a loop is sent.
LEMMA OneLess ==
  ASSUME NEW ca, NEW h, NEW n \in Nat, NEW k \in 0..n - 1, Different(ca, h, k, n)
  PROVE  /\ Stored(ca, h, k, n) = {ca[Slot(h, k)]} \cup Stored(ca, h, k + 1, n)
         /\ ca[Slot(h, k)] \notin Stored(ca, h, k + 1, n)
         /\ Different(ca, h, k + 1, n)
<1>1. /\ k..n - 1 = {k} \cup k + 1..n - 1 /\ k \notin k + 1..n - 1
      /\ \A i \in k + 1..n - 1 : i \in k..n - 1
  OBVIOUS
<1>2. Different(ca, h, k + 1, n)
  BY <1>1 DEF Different
<1>3. ca[Slot(h, k)] \notin Stored(ca, h, k + 1, n)
  BY <1>1 DEF Different, Stored
<1>4. Stored(ca, h, k, n) = {ca[Slot(h, k)]} \cup Stored(ca, h, k + 1, n)
  <2>1. {ca[Slot(h, i)] : i \in {k} \cup k + 1..n - 1} = {ca[Slot(h, k)]} \cup {ca[Slot(h, i)] : i \in k + 1..n - 1}
    OBVIOUS
  <2> QED BY <1>1, <2>1 DEF Stored
<1> QED BY <1>2, <1>3, <1>4

\* A part of one place moves to another.
LEMMA Moved ==
  ASSUME NEW c, NEW b, NEW tk, NEW r, NEW n, Apart(c, b, tk, r, n), NEW x
  PROVE  /\ x \subseteq c => Apart(c \ x, b \cup x, tk, r, n)
         /\ x \subseteq tk => Apart(c \cup x, b, tk \ x, r, n)
         /\ x \subseteq r => Apart(c, b \cup x, tk, r \ x, n)
         /\ x \subseteq b => Apart(c, b \ x, tk, r, n \cup x)
         /\ x \subseteq n => Apart(c, b, tk \cup x, r, n \ x) /\ Apart(c, b, tk, r \cup x, n \ x)
<1>1. x \subseteq c => Apart(c \ x, b \cup x, tk, r, n)
  BY DEF Apart
<1>2. x \subseteq tk => Apart(c \cup x, b, tk \ x, r, n)
  BY DEF Apart
<1>3. x \subseteq r => Apart(c, b \cup x, tk, r \ x, n)
  BY DEF Apart
<1>4. x \subseteq b => Apart(c, b \ x, tk, r, n \cup x)
  BY DEF Apart
<1>5. x \subseteq n => Apart(c, b, tk \cup x, r, n \ x) /\ Apart(c, b, tk, r \cup x, n \ x)
  BY DEF Apart
<1> QED BY <1>1, <1>2, <1>3, <1>4, <1>5
-----------------------------------------------------------------------------
(* bufcache_prealloc *)

LEMMA TakenIs ==
  ASSUME Core!DataplaneAssumption, Types, NEW want \in Nat
  PROVE  /\ Core!Taken(want) \in Seq(txpool) /\ Len(Core!Taken(want)) \in 0..CacheSize - num
         /\ Core!IsInjective(Core!Taken(want)) /\ Core!Range(Core!Taken(want)) \subseteq txpool
<1>1. CacheSize \in Nat \ {0} /\ num \in 0..CacheSize
  BY Sizes DEF Types
<1>2. IsFiniteSet(txpool) /\ Cardinality(txpool) \in Nat
  BY Finite
<1>3. CASE num < want
  <2> DEFINE l == Core!Least(CacheSize - num, Cardinality(txpool))
  <2>1. l \in 0..Cardinality(txpool) /\ l <= CacheSize - num
    BY <1>1, <1>2 DEF Core!Least
  <2>2. Core!Taken(want) = Core!Some(txpool, l)
    BY <1>3, SameLibrary DEF Core!Taken
  <2> HIDE DEF l
  <2>3. /\ Core!Some(txpool, l) \in Seq(txpool) /\ Len(Core!Some(txpool, l)) = l
        /\ Core!IsInjective(Core!Some(txpool, l)) /\ Core!Range(Core!Some(txpool, l)) \subseteq txpool
    BY <1>2, <2>1, SomeOf
  <2> QED BY <1>1, <2>1, <2>2, <2>3
<1>4. CASE ~(num < want)
  <2>1. Core!Taken(want) = <<>>
    BY <1>4 DEF Core!Taken
  <2>2. Core!IsInjective(<<>>) /\ Core!Range(<<>>) = {}
    BY DEF Core!IsInjective, Core!Range
  <2> QED BY <1>1, <2>1, <2>2
<1> QED BY <1>3, <1>4

LEMMA RefilledIs ==
  ASSUME Core!DataplaneAssumption, Types, NEW want \in Nat
  PROVE  /\ Core!Refilled(want) \in [Slots -> {Core!NoBuf} \cup Core!TxPool]
         /\ \A j \in 0..num - 1 : Core!Refilled(want)[Slot(head, j)] = cache[Slot(head, j)]
         /\ \A j \in num..num + Len(Core!Taken(want)) - 1 : Core!Refilled(want)[Slot(head, j)] = Core!Taken(want)[j - num + 1]
<1> DEFINE tk == Core!Taken(want)
           D(i) == (i - (head + num)) % CacheSize
<1>1. /\ CacheSize \in Nat \ {0} /\ num \in 0..CacheSize /\ head \in Slots
      /\ cache \in [Slots -> {Core!NoBuf} \cup Core!TxPool] /\ txpool \subseteq Core!TxPool
  BY Sizes DEF Types
<1>2. tk \in Seq(txpool) /\ Len(tk) \in 0..CacheSize - num
  BY TakenIs
<1>3. Core!Refilled(want) = [i \in Slots |-> IF D(i) < Len(tk) THEN tk[D(i) + 1] ELSE cache[i]]
  BY DEF Core!Refilled, Slots
<1> HIDE DEF tk
<1>4. ASSUME NEW i \in Slots PROVE (IF D(i) < Len(tk) THEN tk[D(i) + 1] ELSE cache[i]) \in {Core!NoBuf} \cup Core!TxPool
  <2>1. D(i) \in Nat
    <3>1. PICK x \in Int : x = i - (head + num)
      BY <1>1 DEF Slots
    <3>2. x % CacheSize \in 0..CacheSize - 1
      BY <1>1
    <3> QED BY <3>1, <3>2
  <2> HIDE DEF D
  <2>2. CASE D(i) < Len(tk)
    <3>1. D(i) + 1 \in 1..Len(tk)
      BY <1>2, <2>1, <2>2
    <3>2. tk[D(i) + 1] \in txpool
      BY <3>1, <1>2, ElementOfSeq
    <3> QED BY <2>2, <3>2, <1>1
  <2>3. CASE ~(D(i) < Len(tk))
    BY <2>3, <1>1
  <2> QED BY <2>2, <2>3
<1>5. \A j \in Slots : D(Slot(head, j)) = IF j >= num THEN j - num ELSE j - num + CacheSize
  BY <1>1, Behind
<1>6. ASSUME NEW j \in Slots PROVE Slot(head, j) \in Slots
  <2>1. j \in 0..CacheSize
    BY <1>1 DEF Slots
  <2> QED BY <1>1, <2>1, SlotIs
<1> HIDE DEF D
<1>7. ASSUME NEW j \in 0..num - 1 PROVE Core!Refilled(want)[Slot(head, j)] = cache[Slot(head, j)]
  <2>1. j \in Slots /\ j < num /\ j - num + CacheSize >= Len(tk)
    BY <1>1, <1>2 DEF Slots
  <2>2. D(Slot(head, j)) = j - num + CacheSize
    BY <1>1, <1>5, <2>1 DEF Slots
  <2>3. ~(D(Slot(head, j)) < Len(tk))
    BY <1>1, <1>2, <2>1, <2>2 DEF Slots
  <2> QED BY <1>3, <1>6, <2>1, <2>3
<1>8. ASSUME NEW j \in num..num + Len(tk) - 1 PROVE Core!Refilled(want)[Slot(head, j)] = tk[j - num + 1]
  <2>1. j \in Slots /\ j >= num /\ j - num < Len(tk)
    BY <1>1, <1>2 DEF Slots
  <2>2. D(Slot(head, j)) = j - num
    BY <1>5, <2>1
  <2> QED BY <1>3, <1>6, <2>1, <2>2
<1> QED BY <1>3, <1>4, <1>7, <1>8 DEF tk

LEMMA GrantedIs ==
  ASSUME Core!DataplaneAssumption, Types, NEW want \in Nat
  PROVE  /\ Core!Granted(want) \in Nat /\ Core!Granted(want) <= want
         /\ Core!Granted(want) <= num + Len(Core!Taken(want)) /\ head + Core!Granted(want) <= CacheSize
<1>1. CacheSize \in Nat \ {0} /\ num \in 0..CacheSize /\ head \in 0..CacheSize - 1
  BY Sizes DEF Types, Slots
<1>2. PICK n \in Nat : n = num + Len(Core!Taken(want))
  BY <1>1, TakenIs
<1>3. Core!Granted(want) = Core!Least(want, IF head + n <= CacheSize THEN n ELSE CacheSize - head)
  BY <1>2 DEF Core!Granted
<1> QED BY <1>1, <1>2, <1>3 DEF Core!Least

\* Buffers are allocated and the first k of the cache sent.
LEMMA SendFromKeeps ==
  ASSUME Core!DataplaneAssumption, Types, Places, q.k = 0,
         NEW want \in Nat, NEW k \in 0..Core!Granted(want), Core!SendFrom(want, k)
  PROVE  /\ batch' \in Seq(Buffers) /\ Len(batch') = Len(batch) + k /\ Core!IsInjective(batch')
         /\ cache' \in [Slots -> {Core!NoBuf} \cup Core!TxPool] /\ txpool' \subseteq Core!TxPool
         /\ head' \in Slots /\ num' = num + Len(Core!Taken(want)) - k /\ num' \in 0..CacheSize
         /\ head' = (head + k) % CacheSize
         /\ Different(cache', head', 0, num') /\ Stored(cache', head', 0, num') \subseteq Core!TxPool
         /\ Apart(Stored(cache', head', 0, num'), Core!Range(batch'), txpool', rxpool, nic)
<1> DEFINE tk == Core!Taken(want)
           ca == Core!Refilled(want)
           s == [j \in 1..k |-> ca[head + j - 1]]
           old == Stored(cache, head, 0, num)
           rest == Stored(ca, head, k, num + Len(tk))
<1>1. /\ CacheSize \in Nat \ {0} /\ num \in 0..CacheSize /\ num \in Nat /\ head \in Slots
      /\ batch \in Seq(Buffers) /\ txpool \subseteq Core!TxPool
  BY Sizes DEF Types
<1>2. /\ tk \in Seq(txpool) /\ Len(tk) \in 0..CacheSize - num /\ Core!IsInjective(tk)
      /\ Core!Range(tk) \subseteq txpool
  BY TakenIs
<1>3. /\ Different(cache, head, 0, num) /\ Core!IsInjective(batch) /\ old \subseteq Core!TxPool
      /\ Apart(old, Core!Range(batch), txpool, rxpool, nic)
  BY DEF Places
<1>4. k \in Nat /\ k <= num + Len(tk) /\ head + k <= CacheSize
  <2>1. PICK g : g = Core!Granted(want)
    OBVIOUS
  <2>2. g \in Nat /\ g <= num + Len(tk) /\ head + g <= CacheSize
    BY <2>1, GrantedIs
  <2>3. k \in 0..g /\ head \in Nat /\ Len(tk) \in Nat
    BY <1>1, <1>2, <2>1 DEF Slots
  <2> QED BY <1>1, <2>2, <2>3
<1>5. /\ ca \in [Slots -> {Core!NoBuf} \cup Core!TxPool]
      /\ \A j \in 0..num - 1 : ca[Slot(head, j)] = cache[Slot(head, j)]
      /\ \A j \in num..num + Len(tk) - 1 : ca[Slot(head, j)] = tk[j - num + 1]
  BY RefilledIs
<1>6. /\ batch' = batch \o s /\ cache' = ca /\ txpool' = txpool \ Core!Range(tk)
      /\ head' = (head + k) % CacheSize /\ num' = num + Len(tk) - k
  BY DEF Core!SendFrom
<1> HIDE DEF tk, ca
<1>7. /\ Different(ca, head, 0, num + Len(tk))
      /\ Stored(ca, head, 0, num + Len(tk)) = old \cup Core!Range(tk)
  <2>1. Stored(cache, head, 0, num) \cap Core!Range(tk) = {}
    BY <1>2, <1>3 DEF Apart
  <2> HIDE DEF s, old, rest
  <2>2. /\ Different(ca, head, 0, num + Len(tk))
        /\ Stored(ca, head, 0, num + Len(tk)) = Stored(cache, head, 0, num) \cup Core!Range(tk)
    <3>1. PutBehind(ca, cache, head, num, tk)
      BY <1>3, <1>5, <2>1 DEF PutBehind
    <3>k. PICK n \in Nat : n = num
      BY <1>1
    <3>m. PICK m : m = num + Len(tk)
      OBVIOUS
    <3>2. Different(ca, head, 0, m)
          /\ Stored(ca, head, 0, m) = Stored(cache, head, 0, n) \cup Core!Range(tk)
      BY <1>2, <3>1, <3>k, <3>m, Filled
    <3> QED BY <3>2, <3>k, <3>m
  <2> QED BY <2>2 DEF old
<1>8. PICK n \in 0..CacheSize : n = num + Len(tk)
  BY <1>1, <1>2
<1>9. old \cup Core!Range(tk) \subseteq Core!TxPool
  BY <1>1, <1>2, <1>3
<1>10. /\ s \in Seq(Core!TxPool) /\ Len(s) = k /\ Core!IsInjective(s)
       /\ Core!Range(s) \cap Stored(ca, head, k, n) = {}
       /\ Core!Range(s) \cup Stored(ca, head, k, n) = Stored(ca, head, 0, n)
       /\ Different(ca, head, k, n)
  <2>1. k \in 0..n /\ Different(ca, head, 0, n) /\ Stored(ca, head, 0, n) \subseteq Core!TxPool
    BY <1>4, <1>7, <1>8, <1>9
  <2> QED BY <2>1, <1>1, <1>4, Drawn
<1>11. /\ (head + k) % CacheSize \in Slots
       /\ Stored(ca, (head + k) % CacheSize, 0, n - k) = Stored(ca, head, k, n)
       /\ Different(ca, (head + k) % CacheSize, 0, n - k)
  <2>1. k \in 0..n
    BY <1>4, <1>8
  <2> QED BY <2>1, <1>1, <1>10, Shifted
<1> HIDE DEF s, old
<1>12. Apart(rest, Core!Range(batch) \cup Core!Range(s), txpool \ Core!Range(tk), rxpool, nic)
  <2>1. Apart(old \cup Core!Range(tk), Core!Range(batch), txpool \ Core!Range(tk), rxpool, nic)
    BY <1>2, <1>3, Moved
  <2>2. Core!Range(s) \subseteq old \cup Core!Range(tk)
        /\ rest = (old \cup Core!Range(tk)) \ Core!Range(s)
    BY <1>7, <1>8, <1>10
  <2>3. Core!Range(s) \subseteq old \cup Core!Range(tk) =>
          Apart((old \cup Core!Range(tk)) \ Core!Range(s), Core!Range(batch) \cup Core!Range(s), txpool \ Core!Range(tk), rxpool, nic)
    BY <2>1, Moved
  <2> QED BY <2>2, <2>3
<1>13. /\ batch \o s \in Seq(Buffers) /\ Len(batch \o s) = Len(batch) + Len(s)
       /\ Core!IsInjective(batch \o s) /\ Core!Range(batch \o s) = Core!Range(batch) \cup Core!Range(s)
  <2>1. Core!TxPool \subseteq Buffers
    BY DEF Buffers
  <2>2. s \in Seq(Buffers)
    BY <1>10, <2>1
  <2>3. Core!Range(batch) \cap Core!Range(s) = {}
    BY <1>2, <1>3, <1>7, <1>8, <1>10 DEF Apart
  <2> QED BY <1>1, <1>3, <1>10, <2>2, <2>3, Appended
<1>14. num' = n - k /\ num' \in 0..CacheSize
  BY <1>1, <1>4, <1>6, <1>8
<1>15. /\ Different(cache', head', 0, num') /\ Stored(cache', head', 0, num') = rest
       /\ rest \subseteq Core!TxPool
  BY <1>6, <1>7, <1>8, <1>9, <1>10, <1>11, <1>14
<1>16. Apart(Stored(cache', head', 0, num'), Core!Range(batch'), txpool', rxpool, nic)
  BY <1>6, <1>12, <1>13, <1>15
<1> QED BY <1>1, <1>5, <1>6, <1>10, <1>11, <1>13, <1>14, <1>15, <1>16 DEF tk, ca
-----------------------------------------------------------------------------
(* One lemma per step of the loop *)

LEMMA RoomIs ==
  ASSUME Core!DataplaneAssumption, IInv
  PROVE  Core!Room \in Nat /\ Len(batch) + Core!Room <= Core!TxBufSize
<1>1. Batch \in Nat \ {0} /\ Core!TxBufSize \in Nat /\ Len(batch) \in Nat /\ q.max \in Nat /\ q.k \in Nat
  BY Sizes DEF IInv, Types
<1>2. Len(batch) <= Core!TxBufSize
  BY <1>1 DEF IInv, Progress
<1> QED BY <1>1, <1>2 DEF Core!Room, Core!Least

\* The polls that run outside poll_queues' loop.
LEMMA NotPolling ==
  ASSUME IInv, pc # "polling"
  PROVE  q = Core!NoLoop /\ q.k = 0 /\ q.max = 0 /\ q.n = 0 /\ q.i = 0
BY DEF IInv, Progress, Core!NoLoop

LEMMA PollRxKeeps ==
  ASSUME Core!DataplaneAssumption, IInv, Core!PollRx
  PROVE  IInv'
<1>1. PICK a \in 0..Core!Least(Core!Room, Cardinality(rxpool)) :
        batch' = batch \o Core!Some(rxpool, a) /\ rxpool' = rxpool \ Core!Range(Core!Some(rxpool, a))
  BY SameLibrary DEF Core!PollRx
<1>2. /\ pc = "rx" /\ pc' = "flush"
      /\ UNCHANGED <<txpool, cache, head, num, nic, work, next_ctx, q>>
  BY DEF Core!PollRx
<1>3. Core!Room \in Nat /\ Len(batch) + Core!Room <= Core!TxBufSize /\ Core!TxBufSize \in Nat
  BY RoomIs, Sizes
<1>4. IsFiniteSet(rxpool) /\ Cardinality(rxpool) \in Nat
  BY Finite DEF IInv
<1>5. a \in 0..Cardinality(rxpool) /\ a \in Nat /\ a <= Core!Room
  BY <1>3, <1>4 DEF Core!Least
<1> DEFINE s == Core!Some(rxpool, a)
<1>6. s \in Seq(rxpool) /\ Len(s) = a /\ Core!IsInjective(s) /\ Core!Range(s) \subseteq rxpool
  BY <1>4, <1>5, SomeOf
<1> HIDE DEF s
<1>7. /\ batch \in Seq(Buffers) /\ Len(batch) \in Nat /\ Core!IsInjective(batch)
      /\ rxpool \subseteq Buffers
      /\ Apart(Stored(cache, head, q.k, num), Core!Range(batch), txpool, rxpool, nic)
  BY DEF IInv, Types, Places, Buffers
<1>8. /\ batch \o s \in Seq(Buffers) /\ Len(batch \o s) = Len(batch) + Len(s)
      /\ Core!IsInjective(batch \o s) /\ Core!Range(batch \o s) = Core!Range(batch) \cup Core!Range(s)
  <2>1. s \in Seq(Buffers) /\ Core!Range(batch) \cap Core!Range(s) = {}
    BY <1>6, <1>7 DEF Apart
  <2> QED BY <2>1, <1>6, <1>7, Appended
<1>9. Apart(Stored(cache, head, q.k, num), Core!Range(batch) \cup Core!Range(s), txpool, rxpool \ Core!Range(s), nic)
  BY <1>6, <1>7, Moved
<1>10. batch' = batch \o s /\ rxpool' = rxpool \ Core!Range(s)
  BY <1>1 DEF s
<1>11. Types'
  BY <1>2, <1>8, <1>10 DEF IInv, Types
<1>12. Progress'
  <2>1. q = Core!NoLoop /\ q.k = 0 /\ q.max = 0
    BY <1>2, NotPolling
  <2>2. Len(batch') + (0 - 0) <= Core!TxBufSize
    BY <1>3, <1>5, <1>6, <1>7, <1>8, <1>10
  <2> QED BY <2>1, <2>2, <1>2 DEF IInv, Progress
<1>13. Places'
  BY <1>2, <1>8, <1>9, <1>10 DEF IInv, Places
<1> QED BY <1>11, <1>12, <1>13 DEF IInv

LEMMA RangeCard ==
  ASSUME NEW S, NEW u \in Seq(S)
  PROVE  IsFiniteSet(Core!Range(u)) /\ Cardinality(Core!Range(u)) \in Nat
         /\ Cardinality(Core!Range(u)) <= Len(u)
<1>1. Len(u) \in Nat /\ DOMAIN u = 1..Len(u) /\ u \in [1..Len(u) -> Core!Range(u)]
  BY RangeOf DEF Core!Range
<1>2. u \in Surjection(1..Len(u), Core!Range(u))
  BY <1>1 DEF Surjection, Core!Range
<1>3. IsFiniteSet(1..Len(u)) /\ Cardinality(1..Len(u)) = Len(u)
  BY <1>1, FS_Interval
<1>4. IsFiniteSet(Core!Range(u)) /\ Cardinality(Core!Range(u)) <= Len(u)
  BY <1>2, <1>3, FS_Surjection
<1> QED BY <1>4, FS_CardinalityType

LEMMA TxFlushKeeps ==
  ASSUME Core!DataplaneAssumption, IInv, Core!TxFlush
  PROVE  IInv'
<1> DEFINE s == Core!Least(Len(batch), Ring - Cardinality(nic))
           u == SubSeq(batch, 1, s)
           v == SubSeq(batch, s + 1, Len(batch))
<1>1. /\ pc \in {"flush", "flush2"} /\ pc' \in {"qman", "rx"}
      /\ nic' = nic \cup Core!Range(u) /\ batch' = v
      /\ UNCHANGED <<txpool, rxpool, cache, head, num, work, next_ctx, q>>
  BY SameLibrary DEF Core!TxFlush, Core!Unsent
<1>2. /\ batch \in Seq(Buffers) /\ Len(batch) \in Nat /\ Core!IsInjective(batch) /\ Ring \in Nat
      /\ Cardinality(nic) \in Nat /\ IsFiniteSet(nic) /\ Cardinality(nic) <= Ring
      /\ Core!TxBufSize \in Nat
      /\ Apart(Stored(cache, head, q.k, num), Core!Range(batch), txpool, rxpool, nic)
  BY Sizes, Finite, SMTT(30) DEF IInv, Types, Places, Progress
<1>3. s \in 0..Len(batch) /\ s <= Ring - Cardinality(nic)
  BY <1>2 DEF Core!Least
<1> HIDE DEF s
<1>4. /\ v \in Seq(Buffers) /\ Len(v) = Len(batch) - s /\ Core!IsInjective(v)
      /\ Core!Range(batch) = Core!Range(u) \cup Core!Range(v) /\ Core!Range(u) \cap Core!Range(v) = {}
  BY <1>2, <1>3, Cut
<1>5. u \in Seq(Buffers) /\ Len(u) = s
  BY <1>2, <1>3
<1> HIDE DEF u, v
<1>6. Apart(Stored(cache, head, q.k, num), Core!Range(v), txpool, rxpool, nic \cup Core!Range(u))
  <2>1. Core!Range(u) \subseteq Core!Range(batch) /\ Core!Range(v) = Core!Range(batch) \ Core!Range(u)
    BY <1>4
  <2>2. Core!Range(u) \subseteq Core!Range(batch) =>
          Apart(Stored(cache, head, q.k, num), Core!Range(batch) \ Core!Range(u), txpool, rxpool, nic \cup Core!Range(u))
    BY <1>2, Moved
  <2> QED BY <2>1, <2>2
<1>7. Cardinality(nic \cup Core!Range(u)) <= Ring
  <2>1. IsFiniteSet(Core!Range(u)) /\ Cardinality(Core!Range(u)) \in Nat
        /\ Cardinality(Core!Range(u)) <= s
    BY <1>5, RangeCard
  <2>2. IsFiniteSet(nic \cap Core!Range(u))
    BY <1>2, FS_Subset
  <2>3. Cardinality(nic \cap Core!Range(u)) \in Nat
    BY <2>2, FS_CardinalityType
  <2>4. Cardinality(nic \cup Core!Range(u)) = Cardinality(nic) + Cardinality(Core!Range(u)) - Cardinality(nic \cap Core!Range(u))
    BY <1>2, <2>1, FS_Union
  <2> QED BY <1>2, <1>3, <2>1, <2>3, <2>4
<1>8. Types'
  <2>1. nic' \subseteq Buffers
    BY <1>1, <1>5, RangeOf DEF IInv, Types
  <2> QED BY <2>1, <1>1, <1>4 DEF IInv, Types
<1>9. Progress'
  <2>1. q = Core!NoLoop /\ q.k = 0 /\ q.max = 0
    BY <1>1, NotPolling
  <2>2. Len(batch) <= Core!TxBufSize
    BY <1>2, <2>1 DEF IInv, Progress
  <2>3. Len(batch') + (0 - 0) <= Core!TxBufSize
    BY <1>1, <1>2, <1>3, <1>4, <2>2
  <2> QED BY <2>1, <2>3, <1>1, <1>7 DEF IInv, Progress
<1>10. Places'
  BY <1>1, <1>4, <1>6 DEF IInv, Places
<1> QED BY <1>8, <1>9, <1>10 DEF IInv

LEMMA NicDoneKeeps ==
  ASSUME Core!DataplaneAssumption, IInv, NEW b \in nic, Core!NicDone(b)
  PROVE  IInv'
<1>1. /\ nic' = nic \ {b}
      /\ txpool' = txpool \cup ({b} \cap Core!TxPool) /\ rxpool' = rxpool \cup ({b} \cap Core!RxPool)
      /\ UNCHANGED <<pc, cache, head, num, batch, work, next_ctx, q>>
  BY DEF Core!NicDone
<1>2. Apart(Stored(cache, head, q.k, num), Core!Range(batch), txpool', rxpool', nic')
  <2>1. Apart(Stored(cache, head, q.k, num), Core!Range(batch), txpool, rxpool, nic) /\ b \in Buffers
    BY DEF IInv, Places, Types
  <2>2. CASE b \in Core!TxPool
    <3>1. txpool' = txpool \cup {b} /\ rxpool' = rxpool
      BY <1>1, <2>2, Sizes
    <3>2. {b} \subseteq nic =>
            Apart(Stored(cache, head, q.k, num), Core!Range(batch), txpool \cup {b}, rxpool, nic \ {b})
      BY <2>1, Moved
    <3> QED BY <1>1, <3>1, <3>2
  <2>3. CASE b \in Core!RxPool
    <3>1. txpool' = txpool /\ rxpool' = rxpool \cup {b}
      BY <1>1, <2>3, Sizes
    <3>2. {b} \subseteq nic =>
            Apart(Stored(cache, head, q.k, num), Core!Range(batch), txpool, rxpool \cup {b}, nic \ {b})
      BY <2>1, Moved
    <3> QED BY <1>1, <3>1, <3>2
  <2> QED BY <2>1, <2>2, <2>3 DEF Buffers
<1>3. Cardinality(nic') <= Ring
  <2>1. IsFiniteSet(nic) /\ Cardinality(nic) \in Nat /\ Ring \in Nat /\ Cardinality(nic) <= Ring
    BY Finite, Sizes DEF IInv, Progress
  <2>2. IsFiniteSet(nic') /\ Cardinality(nic') <= Cardinality(nic)
    BY <2>1, <1>1, FS_Subset
  <2>3. Cardinality(nic') \in Nat
    BY <2>2, FS_CardinalityType
  <2> QED BY <2>1, <2>2, <2>3
<1>4. Types'
  BY <1>1 DEF IInv, Types
<1>5. Progress'
  BY <1>1, <1>3 DEF IInv, Progress
<1>6. Places'
  BY <1>1, <1>2 DEF IInv, Places
<1> QED BY <1>4, <1>5, <1>6 DEF IInv

\* poll_qman and poll_kernel.
LEMMA SendKeeps ==
  ASSUME Core!DataplaneAssumption, IInv, pc # "polling", NEW want \in 0..Core!Room,
         NEW k \in 0..Core!Granted(want),
         Core!SendFrom(want, k), pc' \in {"queues", "flush2"}, UNCHANGED <<rxpool, nic, work, next_ctx, q>>
  PROVE  IInv'
<1>1. q = Core!NoLoop /\ q.k = 0 /\ q.max = 0
  BY NotPolling
<1>2. Core!Room \in Nat /\ Len(batch) + Core!Room <= Core!TxBufSize /\ Core!TxBufSize \in Nat
      /\ CacheSize \in Nat \ {0} /\ want \in Nat
  BY RoomIs, Sizes
<1>3. /\ batch' \in Seq(Buffers) /\ Len(batch') = Len(batch) + k /\ Core!IsInjective(batch')
      /\ cache' \in [Slots -> {Core!NoBuf} \cup Core!TxPool] /\ txpool' \subseteq Core!TxPool
      /\ head' \in Slots /\ num' \in 0..CacheSize
      /\ Different(cache', head', 0, num') /\ Stored(cache', head', 0, num') \subseteq Core!TxPool
      /\ Apart(Stored(cache', head', 0, num'), Core!Range(batch'), txpool', rxpool, nic)
  BY <1>1, <1>2, SendFromKeeps DEF IInv
<1>4. k \in Nat /\ k <= Core!Room /\ Len(batch) \in Nat
  <2>1. Core!Granted(want) \in Nat /\ Core!Granted(want) <= want /\ Len(batch) \in Nat
    BY <1>2, GrantedIs DEF IInv, Types
  <2> QED BY <1>2, <2>1
<1>5. Types'
  BY <1>3 DEF IInv, Types
<1>6. Progress'
  <2>1. Len(batch') + (0 - 0) <= Core!TxBufSize
    BY <1>2, <1>3, <1>4
  <2>2. 0 <= num' /\ head' + 0 <= CacheSize
    <3>1. PICK h \in Slots, n \in 0..CacheSize : h = head' /\ n = num'
      BY <1>3
    <3>2. 0 <= n /\ h + 0 <= CacheSize
      BY <1>2 DEF Slots
    <3> QED BY <3>1, <3>2
  <2> QED BY <1>1, <2>1, <2>2 DEF IInv, Progress
<1>7. Places'
  BY <1>1, <1>3 DEF IInv, Places
<1> QED BY <1>5, <1>6, <1>7 DEF IInv

LEMMA QueuesStartKeeps ==
  ASSUME Core!DataplaneAssumption, IInv, Core!QueuesStart
  PROVE  IInv'
<1> DEFINE g == Core!Granted(Core!Room)
<1>1. /\ pc = "queues" /\ pc' = "polling" /\ q' = [Core!NoLoop EXCEPT !.max = g]
      /\ Core!SendFrom(Core!Room, 0) /\ UNCHANGED <<rxpool, nic, work, next_ctx>>
  BY DEF Core!QueuesStart
<1>2. q = Core!NoLoop /\ q.k = 0 /\ q.max = 0
  BY <1>1, NotPolling
<1>3. Core!Room \in Nat /\ Len(batch) + Core!Room <= Core!TxBufSize /\ Core!TxBufSize \in Nat
      /\ CacheSize \in Nat \ {0}
  BY RoomIs, Sizes
<1>4. /\ g \in Nat /\ g <= Core!Room /\ g <= num + Len(Core!Taken(Core!Room)) /\ head + g <= CacheSize
  BY <1>3, GrantedIs DEF IInv
<1> HIDE DEF g
<1>5. /\ batch' \in Seq(Buffers) /\ Len(batch') = Len(batch) + 0 /\ Core!IsInjective(batch')
      /\ cache' \in [Slots -> {Core!NoBuf} \cup Core!TxPool] /\ txpool' \subseteq Core!TxPool
      /\ head' \in Slots /\ num' = num + Len(Core!Taken(Core!Room)) - 0 /\ num' \in 0..CacheSize
      /\ head' = (head + 0) % CacheSize
      /\ Different(cache', head', 0, num') /\ Stored(cache', head', 0, num') \subseteq Core!TxPool
      /\ Apart(Stored(cache', head', 0, num'), Core!Range(batch'), txpool', rxpool, nic)
  <2>1. 0 \in 0..Core!Granted(Core!Room)
    BY <1>4 DEF g
  <2> QED BY <1>1, <1>2, <1>3, <2>1, SendFromKeeps DEF IInv
<1>6. q'.n = 0 /\ q'.i = 0 /\ q'.k = 0 /\ q'.max = g /\ q' \in [n : Nat, i : Nat, k : Nat, max : Nat]
  BY <1>1, <1>4 DEF Core!NoLoop
<1>7. head' = head
  <2>1. Slot(head, 0) = head
    BY <1>3, SlotIs DEF IInv, Types, Slots
  <2> QED BY <1>5, <2>1 DEF Slot
<1>8. Types'
  BY <1>1, <1>5, <1>6 DEF IInv, Types
<1>9. Progress'
  <2>1. Len(batch) \in Nat /\ num \in Nat /\ Len(Core!Taken(Core!Room)) \in Nat
    <3>1. Len(Core!Taken(Core!Room)) \in 0..CacheSize - num
      BY <1>3, TakenIs DEF IInv
    <3> QED BY <3>1, <1>3 DEF IInv, Types
  <2>2. Len(batch') + (g - 0) <= Core!TxBufSize /\ 0 <= g /\ g <= num' /\ head' + g <= CacheSize
    BY <2>1, <1>3, <1>4, <1>5, <1>7
  <2>3. Cardinality(nic') <= Ring
    BY <1>1 DEF IInv, Progress
  <2> QED BY <1>1, <1>6, <2>2, <2>3 DEF Progress
<1>10. Places'
  BY <1>1, <1>5, <1>6 DEF IInv, Places
<1> QED BY <1>8, <1>9, <1>10 DEF IInv

LEMMA QueuesEntryKeeps ==
  ASSUME Core!DataplaneAssumption, IInv, Core!QueuesEntry
  PROVE  IInv'
<1>1. /\ pc = "polling" /\ q.k < q.max /\ work' \subseteq work
      /\ UNCHANGED <<pc, txpool, rxpool, cache, head, num, nic, next_ctx>>
  BY DEF Core!QueuesEntry, Core!InLoop, Core!Inner
<1>2. /\ q \in [n : Nat, i : Nat, k : Nat, max : Nat] /\ num \in 0..CacheSize /\ head \in Slots
      /\ cache \in [Slots -> {Core!NoBuf} \cup Core!TxPool] /\ CacheSize \in Nat \ {0}
      /\ Core!TxBufSize \in Nat
      /\ batch \in Seq(Buffers) /\ Len(batch) \in Nat
      /\ q.max <= num /\ head + q.max <= CacheSize /\ Len(batch) + (q.max - q.k) <= Core!TxBufSize
  BY Sizes DEF IInv, Types, Progress
<1>3. CASE q' = [q EXCEPT !.i = @ + 1] /\ batch' = batch
  <2>0. q \in [n : Nat, i : Nat, k : Nat, max : Nat]
    BY <1>2
  <2>a. PICK ii \in Nat : ii = q.i
    BY <2>0
  <2>1. q'.k = q.k /\ q'.max = q.max /\ q' \in [n : Nat, i : Nat, k : Nat, max : Nat]
    <3>1. q' = [q EXCEPT !.i = ii + 1] /\ ii + 1 \in Nat
      BY <1>3, <2>a
    <3> QED BY <2>0, <3>1
  <2>2. Types'
    <3>1. work' \subseteq Core!Ctxs
      BY <1>1 DEF IInv, Types
    <3> QED BY <1>1, <1>3, <2>1, <3>1 DEF IInv, Types
  <2>3. Progress'
    BY <1>1, <1>3, <2>1 DEF IInv, Progress
  <2>4. Places'
    BY <1>1, <1>3, <2>1 DEF IInv, Places
  <2> QED BY <2>2, <2>3, <2>4 DEF IInv
<1>4. CASE q' = [q EXCEPT !.i = @ + 1, !.k = @ + 1] /\ batch' = Append(batch, cache[head + q.k])
  <2>0. PICK kk \in Nat, ii \in Nat : kk = q.k /\ ii = q.i
    BY <1>2
  <2>1. q'.k = q.k + 1 /\ q'.max = q.max /\ q' \in [n : Nat, i : Nat, k : Nat, max : Nat]
    <3>1. q' = [q EXCEPT !.i = ii + 1, !.k = kk + 1] /\ ii + 1 \in Nat /\ kk + 1 \in Nat
      BY <1>4, <2>0
    <3>2. q \in [n : Nat, i : Nat, k : Nat, max : Nat]
      BY <1>2
    <3> QED BY <2>0, <3>1, <3>2
  <2>2. PICK k \in Nat : k = q.k
    BY <1>2
  <2>3. PICK m \in Nat : m = q.max
    BY <1>2
  <2>4. k < m /\ m <= num /\ head + m <= CacheSize /\ Len(batch) + (m - k) <= Core!TxBufSize
        /\ num \in Nat
    BY <1>1, <1>2, <2>2, <2>3
  <2>5. PICK b : b = cache[Slot(head, k)]
    OBVIOUS
  <2>6. Slot(head, k) = head + k
    <3>1. k \in 0..CacheSize /\ head + k < CacheSize
      BY <1>2, <2>4 DEF Slots
    <3> QED BY <3>1, <1>2, SlotIs DEF Slots
  <2>7. /\ Different(cache, head, k, num) /\ Core!IsInjective(batch)
        /\ Stored(cache, head, k, num) \subseteq Core!TxPool
        /\ Apart(Stored(cache, head, k, num), Core!Range(batch), txpool, rxpool, nic)
    BY <2>2 DEF IInv, Places
  <2>8. /\ Stored(cache, head, k, num) = {b} \cup Stored(cache, head, k + 1, num)
        /\ b \notin Stored(cache, head, k + 1, num) /\ Different(cache, head, k + 1, num)
    <3>1. k \in 0..num - 1
      BY <2>4
    <3> QED BY <3>1, <2>4, <2>5, <2>7, OneLess
  <2>9. Apart(Stored(cache, head, k + 1, num), Core!Range(batch) \cup {b}, txpool, rxpool, nic)
    <3>1. {b} \subseteq Stored(cache, head, k, num)
          /\ Stored(cache, head, k + 1, num) = Stored(cache, head, k, num) \ {b}
      BY <2>8
    <3>2. {b} \subseteq Stored(cache, head, k, num) =>
            Apart(Stored(cache, head, k, num) \ {b}, Core!Range(batch) \cup {b}, txpool, rxpool, nic)
      BY <2>7, Moved
    <3> QED BY <3>1, <3>2
  <2>10. /\ Append(batch, b) = batch \o <<b>> /\ <<b>> \in Seq(Buffers) /\ Len(<<b>>) = 1
         /\ Core!IsInjective(<<b>>) /\ Core!Range(<<b>>) = {b}
    <3>1. b \in Buffers
      BY <2>7, <2>8 DEF Buffers
    <3>2. DOMAIN <<b>> = 1..1 /\ <<b>>[1] = b
      OBVIOUS
    <3> QED BY <3>1, <3>2, <1>2, SMTT(30) DEF Core!IsInjective, Core!Range
  <2>11. /\ batch \o <<b>> \in Seq(Buffers) /\ Len(batch \o <<b>>) = Len(batch) + 1
         /\ Core!IsInjective(batch \o <<b>>) /\ Core!Range(batch \o <<b>>) = Core!Range(batch) \cup {b}
    <3>1. Core!Range(batch) \cap Core!Range(<<b>>) = {}
      BY <2>7, <2>8, <2>10 DEF Apart
    <3>2. PICK tk \in Seq(Buffers) : tk = <<b>>
      BY <2>10
    <3>3. /\ batch \o tk \in Seq(Buffers) /\ Len(batch \o tk) = Len(batch) + Len(tk)
          /\ Core!IsInjective(batch \o tk)
          /\ Core!Range(batch \o tk) = Core!Range(batch) \cup Core!Range(tk)
      <4>1. Core!IsInjective(tk) /\ Core!Range(batch) \cap Core!Range(tk) = {}
            /\ Core!IsInjective(batch) /\ batch \in Seq(Buffers)
        BY <1>2, <2>7, <2>10, <3>1, <3>2
      <4> QED BY <4>1, Appended
    <3> QED BY <2>10, <3>2, <3>3
  <2>12. batch' = batch \o <<b>>
    BY <1>4, <2>2, <2>5, <2>6, <2>10
  <2>13. Types'
    BY <1>1, <2>1, <2>11, <2>12 DEF IInv, Types
  <2>14. Progress'
    <3>1. q'.k = k + 1 /\ q'.max = m
      BY <2>1, <2>2, <2>3
    <3>2. Len(batch') + (m - (k + 1)) <= Core!TxBufSize /\ k + 1 <= m
      BY <1>2, <2>4, <2>11, <2>12
    <3> QED BY <3>1, <3>2, <1>1, <2>4 DEF IInv, Progress
  <2>15. Places'
    <3>1. q'.k = k + 1
      BY <2>1, <2>2
    <3>2. Stored(cache, head, k + 1, num) \subseteq Core!TxPool
      BY <2>7, <2>8
    <3> QED BY <3>1, <3>2, <1>1, <2>8, <2>9, <2>11, <2>12 DEF Places
  <2> QED BY <2>13, <2>14, <2>15 DEF IInv
<1>5. \/ q' = [q EXCEPT !.i = @ + 1] /\ batch' = batch
      \/ q' = [q EXCEPT !.i = @ + 1, !.k = @ + 1] /\ batch' = Append(batch, cache[head + q.k])
  BY DEF Core!QueuesEntry
<1> QED BY <1>3, <1>4, <1>5

LEMMA QueuesNextKeeps ==
  ASSUME Core!DataplaneAssumption, IInv, Core!QueuesNext
  PROVE  IInv'
<1>1. /\ next_ctx' = (next_ctx + 1) % Contexts /\ q' = [q EXCEPT !.n = @ + 1, !.i = 0]
      /\ UNCHANGED <<pc, txpool, rxpool, cache, head, num, batch, nic, work>> /\ pc = "polling"
  BY DEF Core!QueuesNext, Core!bufvars, Core!InLoop
<1>2. next_ctx \in Core!Ctxs /\ q \in [n : Nat, i : Nat, k : Nat, max : Nat] /\ Contexts \in Nat \ {0}
  BY Sizes DEF IInv, Types
<1>3. q' \in [n : Nat, i : Nat, k : Nat, max : Nat] /\ q'.k = q.k /\ q'.max = q.max
  <2>1. PICK nn \in Nat : nn = q.n
    BY <1>2
  <2>2. q' = [q EXCEPT !.n = nn + 1, !.i = 0] /\ nn + 1 \in Nat
    BY <1>1, <2>1
  <2> QED BY <1>2, <2>2
<1>4. next_ctx' \in Core!Ctxs
  BY <1>1, <1>2 DEF Core!Ctxs
<1>5. Types' /\ Progress' /\ Places'
  BY <1>1, <1>3, <1>4 DEF IInv, Types, Progress, Places
<1> QED BY <1>5 DEF IInv

LEMMA QueuesEndKeeps ==
  ASSUME Core!DataplaneAssumption, IInv, Core!QueuesEnd
  PROVE  IInv'
<1>1. /\ pc' = "kernel" /\ q' = Core!NoLoop /\ head' = (head + q.k) % CacheSize /\ num' = num - q.k
      /\ UNCHANGED <<txpool, rxpool, cache, batch, nic, work, next_ctx>>
  BY DEF Core!QueuesEnd
<1>2. /\ q \in [n : Nat, i : Nat, k : Nat, max : Nat] /\ num \in 0..CacheSize /\ head \in Slots
      /\ CacheSize \in Nat \ {0} /\ Core!TxBufSize \in Nat /\ Len(batch) \in Nat
      /\ q.k <= q.max /\ q.max <= num /\ Len(batch) + (q.max - q.k) <= Core!TxBufSize
      /\ Cardinality(nic) <= Ring
  BY Sizes DEF IInv, Types, Progress
<1>3. PICK k \in 0..num : k = q.k
  BY <1>2
<1>4. /\ Different(cache, head, k, num) /\ Stored(cache, head, k, num) \subseteq Core!TxPool
      /\ Apart(Stored(cache, head, k, num), Core!Range(batch), txpool, rxpool, nic)
      /\ Core!IsInjective(batch)
  BY <1>3 DEF IInv, Places
<1>5. /\ (head + k) % CacheSize \in Slots
      /\ Stored(cache, (head + k) % CacheSize, 0, num - k) = Stored(cache, head, k, num)
      /\ Different(cache, (head + k) % CacheSize, 0, num - k)
  BY <1>2, <1>3, <1>4, Shifted
<1>6. head' = (head + k) % CacheSize /\ num' = num - k /\ num' \in 0..CacheSize
  BY <1>1, <1>2, <1>3
<1>7. q' = Core!NoLoop /\ q'.k = 0 /\ q'.max = 0
      /\ Core!NoLoop \in [n : Nat, i : Nat, k : Nat, max : Nat]
  BY <1>1 DEF Core!NoLoop
<1>8. Types'
  BY <1>1, <1>5, <1>6, <1>7 DEF IInv, Types
<1>9. Progress'
  <2>1. Len(batch) + (0 - 0) <= Core!TxBufSize
    BY <1>2
  <2>2. 0 <= num' /\ head' + 0 <= CacheSize
    BY <1>2, <1>5, <1>6 DEF Slots
  <2> QED BY <1>1, <1>2, <1>7, <2>1, <2>2 DEF Progress
<1>10. Places'
  BY <1>1, <1>4, <1>5, <1>6, <1>7 DEF Places
<1> QED BY <1>8, <1>9, <1>10 DEF IInv

LEMMA AppPostKeeps ==
  ASSUME IInv, NEW c \in Core!Ctxs, Core!AppPost(c)
  PROVE  IInv'
BY DEF Core!AppPost, Core!bufvars, IInv, Types, Progress, Places
-----------------------------------------------------------------------------
(* The invariant *)

LEMMA InitInv ==
  ASSUME Core!DataplaneAssumption, Core!Init
  PROVE  IInv
<1>1. /\ CacheSize \in Nat \ {0} /\ Contexts \in Nat \ {0} /\ Ring \in Nat \ {0}
      /\ Core!TxBufSize \in Nat
      /\ Core!TxPool \cap Core!RxPool = {}
  BY Sizes
<1>2. Types
  <2>1. 0 \in Slots /\ 0 \in 0..CacheSize /\ 0 \in Core!Ctxs
    BY <1>1 DEF Slots, Core!Ctxs
  <2>2. Core!NoLoop \in [n : Nat, i : Nat, k : Nat, max : Nat] /\ <<>> \in Seq(Buffers)
    BY DEF Core!NoLoop
  <2>3. cache \in [Slots -> {Core!NoBuf} \cup Core!TxPool]
    BY DEF Core!Init, Slots
  <2> QED BY <2>1, <2>2, <2>3 DEF Core!Init, Types
<1>3. Progress
  <2>1. Cardinality({}) = 0
    BY FS_EmptySet
  <2>2. q = Core!NoLoop /\ q.k = 0 /\ q.max = 0 /\ Len(batch) = 0 /\ head = 0 /\ num = 0 /\ nic = {}
    BY DEF Core!Init, Core!NoLoop
  <2>3. 0 + (0 - 0) <= Core!TxBufSize /\ 0 + 0 <= CacheSize /\ Cardinality(nic) <= Ring
    BY <1>1, <2>1, <2>2
  <2> QED BY <2>2, <2>3 DEF Progress
<1>4. Places
  <2>1. q.k = 0 /\ num = 0 /\ batch = <<>> /\ Core!Range(batch) = {} /\ nic = {} /\ txpool = Core!TxPool
        /\ rxpool = Core!RxPool
    BY DEF Core!Init, Core!NoLoop, Core!Range
  <2>2. 0..num - 1 = {}
    BY <2>1
  <2>3. Stored(cache, head, q.k, num) = {} /\ Different(cache, head, q.k, num)
    BY <2>1, <2>2 DEF Stored, Different
  <2> QED BY <1>1, <2>1, <2>3 DEF Places, Apart, Core!IsInjective, Buffers
<1> QED BY <1>2, <1>3, <1>4 DEF IInv

LEMMA NextInv ==
  ASSUME Core!DataplaneAssumption, IInv, Core!Next \/ UNCHANGED dataplaneVars
  PROVE  IInv'
<1>1. CASE UNCHANGED dataplaneVars
  BY <1>1 DEF dataplaneVars, IInv, Types, Progress, Places
<1>2. CASE Core!PollQman
  <2>1. /\ pc = "qman" /\ pc' = "queues"
        /\ \E k \in 0..Core!Granted(Core!Room) : Core!SendFrom(Core!Room, k)
        /\ UNCHANGED <<rxpool, nic, work, next_ctx, q>>
    BY <1>2 DEF Core!PollQman
  <2>2. Core!Room \in 0..Core!Room
    BY RoomIs
  <2> QED BY <2>1, <2>2, SendKeeps
<1>3. CASE Core!PollKernel
  <2>1. /\ pc = "kernel" /\ pc' = "flush2"
        /\ \E k \in 0..Core!Granted(Core!Least(Core!Room, KernelMax)) : Core!SendFrom(Core!Least(Core!Room, KernelMax), k)
        /\ UNCHANGED <<rxpool, nic, work, next_ctx, q>>
    BY <1>3 DEF Core!PollKernel
  <2>2. Core!Least(Core!Room, KernelMax) \in 0..Core!Room
    BY RoomIs, Sizes DEF Core!Least
  <2> QED BY <2>1, <2>2, SendKeeps
<1>4. CASE Core!PollRx \/ Core!TxFlush \/ Core!QueuesStart \/ Core!QueuesEntry \/ Core!QueuesNext
      \/ Core!QueuesEnd
  BY <1>4, PollRxKeeps, TxFlushKeeps, QueuesStartKeeps, QueuesEntryKeeps, QueuesNextKeeps, QueuesEndKeeps
<1>5. CASE \E b \in nic : Core!NicDone(b)
  BY <1>5, NicDoneKeeps
<1>6. CASE \E c \in Core!Ctxs : Core!AppPost(c)
  BY <1>6, AppPostKeeps
<1> QED BY <1>1, <1>2, <1>3, <1>4, <1>5, <1>6 DEF Core!Next, Core!Loop

\* A place that has a buffer once counts for one, another one for nothing.
LEMMA AtMostOnce ==
  ASSUME NEW D, NEW P, \A i, j \in D : i \in P /\ j \in P => i = j, P \subseteq D
  PROVE  Cardinality(P) = IF P = {} THEN 0 ELSE 1
<1>1. CASE P = {}
  BY <1>1, FS_EmptySet
<1>2. CASE P # {}
  <2>1. PICK i : P = {i}
    BY <1>2
  <2> QED BY <2>1, FS_Singleton
<1> QED BY <1>1, <1>2

LEMMA InvOwned ==
  ASSUME Core!DataplaneAssumption, IInv
  PROVE  Core!OwnedOnce
<1> DEFINE w == Stored(cache, head, q.k, num)
<1>1. /\ Different(cache, head, q.k, num) /\ Core!IsInjective(batch)
      /\ Apart(w, Core!Range(batch), txpool, rxpool, nic)
      /\ q.k \in Nat /\ num \in Nat /\ CacheSize \in Nat /\ batch \in Seq(Buffers)
  BY Sizes DEF IInv, Places, Types
<1> SUFFICES ASSUME NEW b \in Core!TxPool \cup Core!RxPool
             PROVE  LET cached == {i \in q.k..num - 1 : cache[(head + i) % CacheSize] = b}
                        batched == {i \in 1..Len(batch) : batch[i] = b}
                    IN Cardinality(cached) + Cardinality(batched)
                         + Cardinality({b} \cap txpool) + Cardinality({b} \cap rxpool) + Cardinality({b} \cap nic) = 1
  BY SameLibrary DEF Core!OwnedOnce
<1> DEFINE cached == {i \in q.k..num - 1 : cache[(head + i) % CacheSize] = b}
           batched == {i \in 1..Len(batch) : batch[i] = b}
<1>2. Cardinality(cached) = IF b \in w THEN 1 ELSE 0
  <2>1. \A i, j \in q.k..num - 1 : i \in cached /\ j \in cached => i = j
    BY <1>1 DEF Different, Slot
  <2>2. Cardinality(cached) = IF cached = {} THEN 0 ELSE 1
    BY <2>1, AtMostOnce
  <2>3. cached = {} <=> b \notin w
    BY DEF Stored, Slot
  <2> QED BY <2>2, <2>3
<1>3. Cardinality(batched) = IF b \in Core!Range(batch) THEN 1 ELSE 0
  <2>0. DOMAIN batch = 1..Len(batch)
    BY <1>1
  <2>1. \A i, j \in 1..Len(batch) : i \in batched /\ j \in batched => i = j
    BY <1>1, <2>0 DEF Core!IsInjective
  <2>2. Cardinality(batched) = IF batched = {} THEN 0 ELSE 1
    BY <2>1, AtMostOnce
  <2>3. batched = {} <=> b \notin Core!Range(batch)
    BY <2>0 DEF Core!Range
  <2> QED BY <2>2, <2>3
<1>4. \A S : Cardinality({b} \cap S) = IF b \in S THEN 1 ELSE 0
  <2> SUFFICES ASSUME NEW S PROVE Cardinality({b} \cap S) = IF b \in S THEN 1 ELSE 0
    OBVIOUS
  <2>1. CASE b \in S
    <3>1. {b} \cap S = {b}
      BY <2>1
    <3> QED BY <2>1, <3>1, FS_Singleton
  <2>2. CASE b \notin S
    <3>1. {b} \cap S = {}
      BY <2>2
    <3> QED BY <2>2, <3>1, FS_EmptySet
  <2> QED BY <2>1, <2>2
<1>5. /\ b \in w \/ b \in Core!Range(batch) \/ b \in txpool \/ b \in rxpool \/ b \in nic
      /\ ~(b \in w /\ (b \in Core!Range(batch) \/ b \in txpool \/ b \in rxpool \/ b \in nic))
      /\ ~(b \in Core!Range(batch) /\ (b \in txpool \/ b \in rxpool \/ b \in nic))
      /\ ~(b \in txpool /\ (b \in rxpool \/ b \in nic)) /\ ~(b \in rxpool /\ b \in nic)
  BY <1>1 DEF Apart, Buffers
<1> HIDE DEF w, cached, batched
<1>6. /\ Cardinality({b} \cap txpool) = IF b \in txpool THEN 1 ELSE 0
      /\ Cardinality({b} \cap rxpool) = IF b \in rxpool THEN 1 ELSE 0
      /\ Cardinality({b} \cap nic) = IF b \in nic THEN 1 ELSE 0
  BY <1>4
<1>7. Cardinality(cached) + Cardinality(batched)
        + Cardinality({b} \cap txpool) + Cardinality({b} \cap rxpool) + Cardinality({b} \cap nic) = 1
  BY <1>2, <1>3, <1>5, <1>6
<1> QED BY <1>7 DEF cached, batched

LEMMA InvSound ==
  ASSUME Core!DataplaneAssumption, IInv
  PROVE  Core!TypeOK /\ Core!OwnedOnce /\ Core!NeverFull
<1>1. Core!NeverFull
  <2>1. /\ q.k \in Nat /\ q.max \in Nat /\ num \in Nat /\ Len(batch) \in Nat /\ Core!TxBufSize \in Nat
        /\ q.k <= q.max /\ q.max <= num /\ Len(batch) + (q.max - q.k) <= Core!TxBufSize
    BY Sizes DEF IInv, Types, Progress
  <2> QED BY <2>1 DEF Core!NeverFull
<1>2. Core!TypeOK
  BY DEF IInv, Types, Core!TypeOK, Slots, Buffers
<1> QED BY <1>1, <1>2, InvOwned

LEMMA InitBuffers == MCInit => (part = "dataplane" => IInv)
BY Assumptions, InitInv DEF MCInit, Assumptions

LEMMA NextBuffers ==
  (part = "dataplane" => IInv) /\ [MCNext]_mcVars => (part = "dataplane" => IInv)'
<1> SUFFICES ASSUME part = "dataplane" => IInv, [MCNext]_mcVars, part' = "dataplane"
             PROVE  IInv'
  OBVIOUS
<1>1. part' = part
  BY DEF MCNext, OthersRest, Rest, mcVars
<1>2. Core!Next \/ UNCHANGED dataplaneVars
  BY <1>1 DEF MCNext, Rest, mcVars
<1> QED BY <1>1, <1>2, Assumptions, NextInv DEF Assumptions

\* fastemu.c: whatever the polls take and send, and however slow the NIC is,
\* no packet buffer is ever in two places or in none, so that no core writes
\* into a packet that is on its way to the wire and none is lost, and tx_send
\* and bufcache_alloc find what they assert.
THEOREM OneOwner == MCSpec => []BuffersOwned
<1>1. (part = "dataplane" => IInv) => BuffersOwned
  BY Assumptions, InvSound DEF Assumptions, BuffersOwned
<1> QED BY <1>1, InitBuffers, NextBuffers, PTL DEF MCSpec
-----------------------------------------------------------------------------
(* The receive window.                                                     *)
(*                                                                         *)
(* Three sides count the same buffer: the fast path what is free, the      *)
(* library what it was told has come, the application what it was given.   *)
(* What is on its way between them is in two queues; the invariant says    *)
(* where the queues end: the notifications reach from the library's head   *)
(* to the fast path's next byte, and every queued bump frees bytes that    *)
(* are in neither count, later ones more, so that lost and late ones agree.*)

LEMMA LessThan ==
  \E R : IsWellFoundedOn(R, Nat) /\ \A x, y \in Nat : x < y => <<x, y>> \in R
<1> DEFINE R == OpToRel(<, Nat)
<1>1. IsWellFoundedOn(R, Nat)
  BY NatLessThanWellFounded
<1>2. \A x, y \in Nat : x < y => <<x, y>> \in R
  BY DEF OpToRel
<1>. QED  BY <1>1, <1>2

LEMMA SmallestNat ==
  ASSUME NEW T, T \subseteq Nat, T # {}
  PROVE  \E x \in T : \A y \in T : x <= y
<1>1. PICK R : IsWellFoundedOn(R, Nat) /\ \A x, y \in Nat : x < y => <<x, y>> \in R
  BY LessThan
<1>2. IsWellFoundedOn(R, Nat)
  BY <1>1
<1>3. PICK x \in T : \A y \in T : ~(<<y, x>> \in R)
  BY <1>2, WFMin
<1>4. ASSUME NEW y \in T PROVE x <= y
  <2>1. x \in Nat /\ y \in Nat
    OBVIOUS
  <2>2. ~(y < x)
    BY <1>1, <1>3, <2>1
  <2>. QED  BY <2>1, <2>2
<1>. QED  BY <1>4


\* Positions of the receive buffer.
WinPos == 0..WinLen - 1

WinTypes ==
  /\ rx_next_pos \in WinPos /\ win_head \in WinPos /\ win_tail \in WinPos /\ win_nictail \in WinPos
  /\ rx_avail \in 0..WinLen /\ wnd \in 0..WinLen /\ unread \in 0..WinLen /\ pending \in BOOLEAN
  /\ win_arx \in Seq(1..WinLen) /\ win_atx \in Seq(WinPos)

\* The bytes that the fast path counts as free are not those the application
\* has, and the peer's window is not beyond them.
WinFits == wnd <= rx_avail /\ rx_avail + unread <= WinLen

\* The bytes of the first i notifications of q are c[i], none of them empty.
Sums(bq, c) ==
  /\ c[0] = 0
  /\ \A i \in 1..Len(bq) : c[i] = c[i - 1] + bq[i]
  /\ \A i, j \in 0..Len(bq) : i <= j => c[j] - c[i] >= j - i

\* The notifications reach from the library's head to the next byte.
Notified(bq, hd, np, un) ==
  \E c \in [0..Len(bq) -> 0..WinLen] :
    Sums(bq, c) /\ c[Len(bq)] <= un /\ Window!Fwd(hd, c[Len(bq)]) = np

\* A bump frees f[i] bytes from the end of what is free, and of those that
\* are in neither count; later ones more.
Bumps(bq, f, end, freed) ==
  /\ \A i \in 1..Len(bq) : bq[i] = Window!Fwd(end, f[i]) /\ f[i] <= freed
  /\ \A i, j \in 1..Len(bq) : i <= j => f[i] <= f[j]
Chained(bq, end, freed) == \E f \in [1..Len(bq) -> 0..WinLen] : Bumps(bq, f, end, freed)

WinInv ==
  /\ WinTypes /\ WinFits
  /\ Notified(win_arx, win_head, rx_next_pos, unread)
  /\ Window!Fwd(win_tail, unread) = rx_next_pos
  /\ Chained(win_atx, Window!Fwd(rx_next_pos, rx_avail), WinLen - rx_avail - unread)
-----------------------------------------------------------------------------
(* Positions *)

LEMMA FwdIs ==
  ASSUME Window!RecvWindowAssumption, NEW p \in WinPos, NEW n \in 0..WinLen
  PROVE  Window!Fwd(p, n) \in WinPos /\ Window!Fwd(p, n) \in {p + n, p + n - WinLen}
BY DEF Window!RecvWindowAssumption, WinPos, Window!Fwd

LEMMA FwdSum ==
  ASSUME Window!RecvWindowAssumption, NEW p \in WinPos, NEW n \in 0..WinLen, NEW m \in 0..WinLen,
         NEW k \in 0..WinLen, k = n + m
  PROVE  Window!Fwd(Window!Fwd(p, n), m) = Window!Fwd(p, k)
BY DEF Window!RecvWindowAssumption, WinPos, Window!Fwd

\* Two ways to one position that differ by less than the buffer are one.
LEMMA FwdCancel ==
  ASSUME Window!RecvWindowAssumption, NEW p \in WinPos, NEW bq \in WinPos, NEW n \in 0..WinLen,
         Window!Fwd(p, n) = Window!Fwd(bq, n)
  PROVE  p = bq
BY DEF Window!RecvWindowAssumption, WinPos, Window!Fwd

LEMMA LargestNat ==
  ASSUME NEW n \in Nat, NEW S, S \subseteq 0..n, 0 \in S
  PROVE  \E x \in S : \A y \in S : x >= y
<1> DEFINE T == {n - y : y \in S}
<1>1. T \subseteq Nat /\ T # {}
  BY DEF T
<1>2. PICK x \in T : \A y \in T : x <= y
  <2> HIDE DEF T
  <2> QED BY <1>1, SmallestNat
<1>3. PICK a \in S : x = n - a
  OBVIOUS
<1>4. ASSUME NEW y \in S PROVE a >= y
  <2>1. n - y \in T /\ a \in Nat /\ y \in Nat
    OBVIOUS
  <2>2. x <= n - y
    BY <1>2, <2>1
  <2> QED BY <1>3, <2>1, <2>2
<1> QED BY <1>4
-----------------------------------------------------------------------------
LEMMA InitWindow ==
  ASSUME Window!RecvWindowAssumption, Window!Init
  PROVE  WinInv
<1>1. WinLen \in Nat /\ WinLen >= 4 /\ 0 \in WinPos /\ 0 \in 0..WinLen /\ WinLen \in 0..WinLen
  BY DEF Window!RecvWindowAssumption, WinPos
<1>2. WinTypes /\ WinFits
  <2>1. win_arx \in Seq(1..WinLen) /\ win_atx \in Seq(WinPos)
    BY DEF Window!Init
  <2>2. WinLen <= WinLen /\ WinLen + 0 <= WinLen /\ FALSE \in BOOLEAN
    BY <1>1
  <2> QED BY <1>1, <2>1, <2>2 DEF WinTypes, WinFits, Window!Init
<1>3. Window!Fwd(0, 0) = 0 /\ Window!Fwd(win_tail, unread) = rx_next_pos
  BY <1>1 DEF Window!Fwd, Window!Init
<1>4. Notified(win_arx, win_head, rx_next_pos, unread)
  <2> PICK c \in [0..0 -> 0..WinLen] : c = [i \in 0..0 |-> 0]
    BY <1>1
  <2>1. win_arx = <<>> /\ Len(win_arx) = 0 /\ c[0] = 0 /\ win_head = 0 /\ rx_next_pos = 0 /\ unread = 0
    BY DEF Window!Init
  <2>2. Sums(win_arx, c)
    BY <2>1 DEF Sums
  <2>3. c[Len(win_arx)] <= unread /\ Window!Fwd(win_head, c[Len(win_arx)]) = rx_next_pos
        /\ c \in [0..Len(win_arx) -> 0..WinLen]
    BY <1>3, <2>1
  <2> QED BY <2>2, <2>3 DEF Notified
<1>5. Chained(win_atx, Window!Fwd(rx_next_pos, rx_avail), WinLen - rx_avail - unread)
  <2> PICK f \in [1..0 -> 0..WinLen] : f = [i \in 1..0 |-> 0]
    BY <1>1
  <2>1. win_atx = <<>> /\ Len(win_atx) = 0
    BY DEF Window!Init
  <2> PICK end, freed : end = Window!Fwd(rx_next_pos, rx_avail) /\ freed = WinLen - rx_avail - unread
    OBVIOUS
  <2>2. Bumps(win_atx, f, end, freed)
    BY <2>1 DEF Bumps
  <2> QED BY <2>1, <2>2 DEF Chained
<1> QED BY <1>2, <1>3, <1>4, <1>5 DEF WinInv

LEMMA ReceiveKeeps ==
  ASSUME Window!RecvWindowAssumption, WinInv, NEW n \in 1..WinMss, Window!Receive(n)
  PROVE  WinInv'
<1>1. /\ rx_next_pos \in WinPos /\ win_head \in WinPos /\ win_tail \in WinPos /\ rx_avail \in 0..WinLen
      /\ wnd \in 0..WinLen /\ unread \in 0..WinLen /\ win_arx \in Seq(1..WinLen) /\ Len(win_arx) \in Nat
      /\ n <= rx_avail /\ unread + n <= WinUnread /\ WinUnread \in 1..WinLen /\ WinLen \in Nat
      /\ n \in Nat /\ n > 0
      /\ rx_avail + unread <= WinLen
  BY DEF WinInv, WinTypes, WinFits, Window!Receive, Window!RecvWindowAssumption
<1>2. /\ rx_next_pos' = Window!Fwd(rx_next_pos, n) /\ rx_avail' = rx_avail - n /\ wnd' = rx_avail - n
      /\ win_arx' = Append(win_arx, n) /\ unread' = unread + n
      /\ UNCHANGED <<win_atx, win_head, win_tail, win_nictail, pending>>
  BY DEF Window!Receive
<1>3. n \in 1..WinLen /\ n \in 0..WinLen /\ rx_avail - n \in 0..WinLen /\ unread + n \in 0..WinLen
  BY <1>1
<1>4. Window!Fwd(rx_next_pos, n) \in WinPos
  BY <1>1, <1>3, FwdIs
<1>5. WinTypes' /\ WinFits'
  <2>1. Append(win_arx, n) \in Seq(1..WinLen)
    BY <1>1, <1>3
  <2> QED BY <1>1, <1>2, <1>3, <1>4, <2>1 DEF WinTypes, WinFits, WinInv
<1>6. Window!Fwd(win_tail, unread + n) = Window!Fwd(rx_next_pos, n)
  BY <1>1, <1>3, FwdSum DEF WinInv
<1>7. Notified(Append(win_arx, n), win_head, Window!Fwd(rx_next_pos, n), unread + n)
  <2>1. PICK c \in [0..Len(win_arx) -> 0..WinLen] :
          Sums(win_arx, c) /\ c[Len(win_arx)] <= unread
          /\ Window!Fwd(win_head, c[Len(win_arx)]) = rx_next_pos
    BY DEF WinInv, Notified
  <2> PICK l, s, bq : l = Len(win_arx) /\ s = c[l] + n /\ bq = Append(win_arx, n)
    OBVIOUS
  <2>2. l \in Nat /\ c[l] \in 0..WinLen /\ s \in 0..WinLen /\ s <= unread + n /\ Len(bq) = l + 1
        /\ bq[l + 1] = n
        /\ \A i \in 1..l : bq[i] = win_arx[i]
    BY <1>1, <2>1
  <2> DEFINE d == [i \in 0..l + 1 |-> IF i = l + 1 THEN s ELSE c[i]]
  <2>3. d \in [0..l + 1 -> 0..WinLen] /\ d[l + 1] = s
        /\ (\A i \in 0..l : d[i] = c[i]) /\ l + 1 \in 0..l + 1
    BY <2>2
  <2> HIDE DEF d
  <2>4. Sums(bq, d)
    <3>1. d[0] = 0
      BY <2>1, <2>2, <2>3 DEF Sums
    <3>2. ASSUME NEW i \in 1..l + 1 PROVE d[i] = d[i - 1] + bq[i]
      <4>1. CASE i = l + 1
        BY <2>2, <2>3, <4>1
      <4>2. CASE i # l + 1
        <5>1. i \in 1..l /\ i \in 0..l /\ i - 1 \in 0..l
          BY <2>2, <4>2
        <5> QED BY <2>1, <2>2, <2>3, <5>1 DEF Sums
      <4> QED BY <4>1, <4>2
    <3>3. ASSUME NEW i \in 0..l + 1, NEW j \in 0..l + 1, i <= j PROVE d[j] - d[i] >= j - i
      <4>1. CASE j = l + 1 /\ i # l + 1
        <5>1. i \in 0..l /\ l \in 0..l /\ i <= l
          BY <2>2, <4>1
        <5>2. c[l] - c[i] >= l - i /\ c[i] \in Int
          <6>1. \A a, b \in 0..l : a <= b => c[b] - c[a] >= b - a
            BY <2>1 DEF Sums
          <6>2. c[l] - c[i] >= l - i
            BY <5>1, <6>1
          <6>3. c[i] \in 0..WinLen
            BY <2>1, <5>1
          <6> QED BY <1>1, <6>2, <6>3
        <5> QED BY <1>1, <2>2, <2>3, <4>1, <5>1, <5>2, SMTT(30)
      <4>2. CASE j # l + 1
        <5>1. i \in 0..l /\ j \in 0..l
          BY <2>2, <3>3, <4>2
        <5> QED BY <2>1, <2>3, <3>3, <5>1 DEF Sums
      <4>3. CASE i = l + 1
        <5>1. j = l + 1
          BY <2>2, <3>3, <4>3
        <5> QED BY <2>2, <2>3, <4>3, <5>1
      <4> QED BY <4>1, <4>2, <4>3
    <3> QED BY <2>2, <3>1, <3>2, <3>3 DEF Sums
  <2>5. Window!Fwd(win_head, s) = Window!Fwd(rx_next_pos, n)
    BY <1>1, <1>3, <2>1, <2>2, FwdSum
  <2> QED BY <2>2, <2>3, <2>4, <2>5 DEF Notified
<1>8. Chained(win_atx, Window!Fwd(Window!Fwd(rx_next_pos, n), rx_avail - n), WinLen - (rx_avail - n) - (unread + n))
  <2>1. Window!Fwd(Window!Fwd(rx_next_pos, n), rx_avail - n) = Window!Fwd(rx_next_pos, rx_avail)
    <3> PICK m \in 0..WinLen : m = rx_avail - n
      BY <1>3
    <3>1. rx_avail = n + m
      BY <1>1
    <3> QED BY <1>1, <1>3, <3>1, FwdSum
  <2>2. WinLen - (rx_avail - n) - (unread + n) = WinLen - rx_avail - unread
    BY <1>1
  <2> QED BY <2>1, <2>2 DEF WinInv
<1> QED BY <1>2, <1>5, <1>6, <1>7, <1>8 DEF WinInv

LEMMA FlowBumpKeeps ==
  ASSUME Window!RecvWindowAssumption, WinInv, Window!FlowBump
  PROVE  WinInv'
<1>1. /\ rx_next_pos \in WinPos /\ win_head \in WinPos /\ win_tail \in WinPos /\ rx_avail \in 0..WinLen
      /\ wnd \in 0..WinLen /\ unread \in 0..WinLen /\ win_atx \in Seq(WinPos) /\ Len(win_atx) \in Nat
      /\ WinLen \in Nat /\ WinLen >= 4 /\ rx_avail + unread <= WinLen /\ wnd <= rx_avail
      /\ WinLossy \in BOOLEAN
  BY DEF WinInv, WinTypes, WinFits, Window!RecvWindowAssumption
<1> DEFINE end == Window!Fwd(rx_next_pos, rx_avail)
           freed == WinLen - rx_avail - unread
           g == Window!Freed(Head(win_atx))
<1>2. PICK f \in [1..Len(win_atx) -> 0..WinLen] : Bumps(win_atx, f, end, freed)
  BY DEF WinInv, Chained
<1>3. end \in WinPos /\ freed \in 0..WinLen
  BY <1>1, FwdIs
<1>4. /\ win_atx # <<>> /\ win_atx' = Tail(win_atx) /\ rx_avail' = rx_avail + g
      /\ (wnd' = rx_avail + g \/ wnd' = wnd)
      /\ UNCHANGED <<rx_next_pos, win_arx, win_head, win_tail, win_nictail, pending, unread>>
  BY DEF Window!FlowBump, Window!Update
<1>5. Head(win_atx) = win_atx[1] /\ 1 \in 1..Len(win_atx) /\ win_atx[1] = Window!Fwd(end, f[1])
      /\ f[1] <= freed /\ f[1] \in 0..WinLen
      /\ win_atx[1] \in WinPos
  BY <1>1, <1>2, <1>4 DEF Bumps
<1>6. g = IF f[1] = WinLen THEN 0 ELSE f[1]
  <2>1. g = IF win_atx[1] >= end THEN win_atx[1] - end ELSE WinLen - end + win_atx[1]
    BY <1>5 DEF Window!Freed
  <2> PICK e, h : e = end /\ h = f[1]
    OBVIOUS
  <2>2. win_atx[1] = IF e + h >= WinLen THEN e + h - WinLen ELSE e + h
    BY <1>5 DEF Window!Fwd
  <2> HIDE DEF g, end
  <2> QED BY <1>1, <1>3, <1>5, <2>1, <2>2 DEF WinPos
<1> HIDE DEF g, end, freed
<1>7. g \in 0..WinLen /\ g <= f[1] /\ g <= freed
  BY <1>1, <1>3, <1>5, <1>6
<1>8. rx_avail + g \in 0..WinLen /\ WinLen - (rx_avail + g) - unread = freed - g
      /\ rx_avail + g + unread <= WinLen
  BY <1>1, <1>7 DEF freed
<1>9. WinTypes' /\ WinFits'
  <2>1. Tail(win_atx) \in Seq(WinPos)
    BY <1>1, <1>4
  <2>2. wnd' \in 0..WinLen /\ wnd' <= rx_avail + g
    BY <1>1, <1>4, <1>7, <1>8
  <2> QED BY <1>4, <1>8, <2>1, <2>2 DEF WinTypes, WinFits, WinInv
<1>10. Window!Fwd(rx_next_pos, rx_avail + g) = Window!Fwd(end, g)
  BY <1>1, <1>7, <1>8, FwdSum DEF end
<1>11. Chained(Tail(win_atx), Window!Fwd(end, g), freed - g)
  <2> PICK bq, m : bq = Tail(win_atx) /\ m = Len(win_atx) - 1
    OBVIOUS
  <2>1. m \in Nat /\ Len(bq) = m /\ \A i \in 1..m : bq[i] = win_atx[i + 1] /\ i + 1 \in 1..Len(win_atx)
    BY <1>1, <1>4
  <2>2. \A i \in 1..m : f[i + 1] \in 0..WinLen /\ f[1] <= f[i + 1] /\ f[i + 1] <= freed
    BY <1>2, <1>5, <2>1 DEF Bumps
  <2> DEFINE d == [i \in 1..m |-> f[i + 1] - g]
  <2>3. d \in [1..m -> 0..WinLen] /\ \A i \in 1..m : d[i] = f[i + 1] - g
    <3>1. ASSUME NEW i \in 1..m PROVE f[i + 1] - g \in 0..WinLen
      <4> PICK a, b : a = f[i + 1] /\ b = f[1]
        OBVIOUS
      <4>1. a \in 0..WinLen /\ b \in 0..WinLen /\ g \in 0..WinLen /\ g <= b /\ b <= a
        BY <1>5, <1>7, <2>2
      <4> QED BY <1>1, <4>1
    <3> QED BY <3>1
  <2> HIDE DEF d
  <2>4. ASSUME NEW i \in 1..m PROVE bq[i] = Window!Fwd(Window!Fwd(end, g), d[i]) /\ d[i] <= freed - g
    <3>1. bq[i] = Window!Fwd(end, f[i + 1])
      BY <1>2, <2>1 DEF Bumps
    <3> PICK k, n : k = f[i + 1] /\ n = d[i]
      OBVIOUS
    <3>2. k \in 0..WinLen /\ n \in 0..WinLen /\ k = g + n
      <4>1. k \in 0..WinLen /\ n \in 0..WinLen /\ g \in 0..WinLen /\ n = k - g
        BY <1>7, <2>2, <2>3
      <4> QED BY <1>1, <4>1
    <3>3. Window!Fwd(Window!Fwd(end, g), n) = Window!Fwd(end, k)
      BY <1>3, <1>7, <3>2, FwdSum
    <3> QED BY <1>3, <1>7, <2>2, <2>3, <3>1, <3>3
  <2>5. ASSUME NEW i \in 1..m, NEW j \in 1..m, i <= j PROVE d[i] <= d[j]
    <3>1. f[i + 1] <= f[j + 1] /\ f[i + 1] \in Int /\ f[j + 1] \in Int
      <4>1. i + 1 \in 1..Len(win_atx) /\ j + 1 \in 1..Len(win_atx) /\ i + 1 <= j + 1
        BY <2>1, <2>5
      <4> QED BY <1>2, <2>2, <4>1 DEF Bumps
    <3> QED BY <1>7, <2>3, <3>1
  <2> QED BY <2>1, <2>3, <2>4, <2>5 DEF Chained, Bumps
<1> QED BY <1>4, <1>8, <1>9, <1>10, <1>11 DEF WinInv

\* What the head is after some notifications; no event is used for none.
LEMMA AfterIs ==
  ASSUME Window!RecvWindowAssumption, win_arx \in Seq(1..WinLen), win_head \in WinPos,
         NEW l, l = Len(win_arx), NEW c \in [0..l -> 0..WinLen], Sums(win_arx, c)
  PROVE  Window!After[0].events = 0 /\ \A i \in 0..l : Window!After[i].head = Window!Fwd(win_head, c[i])
<1>1. l \in Nat /\ WinLen \in Nat /\ (\A i \in 1..l : win_arx[i] \in 1..WinLen) /\ 0 \in 0..l
  BY DEF Window!RecvWindowAssumption
<1>2. c[0] = 0 /\ \A i \in 1..l : i \in 0..l /\ i - 1 \in 0..l /\ c[i] = c[i - 1] + win_arx[i]
  BY <1>1 DEF Sums
<1> DEFINE Turns(i) == {j \in 1..i : Window!Fwd(win_head, c[j - 1]) + win_arx[j] > WinLen}
           e == [i \in 0..l |-> Cardinality(Turns(i))]
<1>3. \A i \in 0..l : e[i] = Cardinality(Turns(i))
  OBVIOUS
<1>4. e[0] = 0
  <2>1. Turns(0) = {}
    OBVIOUS
  <2> HIDE DEF Turns, e
  <2> QED BY <1>1, <1>3, <2>1, FS_EmptySet
<1>5. ASSUME NEW i \in 1..l
      PROVE  /\ e[i - 1] \in Nat
             /\ e[i] = e[i - 1] + IF Window!Fwd(win_head, c[i - 1]) + win_arx[i] > WinLen THEN 1 ELSE 0
  <2>1. i - 1 \in 0..l /\ i \in 0..l /\ i \in Nat /\ i - 1 \in Nat
    BY <1>1
  <2>2. IsFiniteSet(Turns(i - 1))
    <3>1. IsFiniteSet(1..i - 1)
      BY <2>1, FS_Interval
    <3> QED BY <3>1, FS_Subset
  <2>3. i \notin Turns(i - 1)
    BY <2>1
  <2>4. Turns(i) = IF Window!Fwd(win_head, c[i - 1]) + win_arx[i] > WinLen THEN Turns(i - 1) \cup {i} ELSE Turns(i - 1)
    <3>1. \A j : j \in 1..i <=> j \in 1..i - 1 \/ j = i
      BY <2>1
    <3> QED BY <3>1
  <2> HIDE DEF Turns, e
  <2>5. Cardinality(Turns(i - 1)) \in Nat
    BY <2>2, FS_CardinalityType
  <2>6. Cardinality(Turns(i - 1) \cup {i}) = Cardinality(Turns(i - 1)) + 1
    BY <2>2, <2>3, FS_AddElement
  <2>7. e[i - 1] = Cardinality(Turns(i - 1)) /\ e[i] = Cardinality(Turns(i))
    BY <1>3, <2>1
  <2> QED BY <2>4, <2>5, <2>6, <2>7
<1> HIDE DEF e
<1> DEFINE Rec(w) == w = [i \in 0..Len(win_arx) |-> IF i = 0 THEN [head |-> win_head, events |-> 0]
                            ELSE LET b == w[i - 1]
                                     turns == b.head + win_arx[i] > WinLen
                                 IN [head |-> Window!Fwd(b.head, win_arx[i]),
                                     events |-> b.events + IF turns THEN 2 ELSE 1]]
           v == [i \in 0..l |-> [head |-> Window!Fwd(win_head, c[i]), events |-> i + e[i]]]
<1>6. Rec(v)
  <2>1. \A i \in 0..l : v[i] = [head |-> Window!Fwd(win_head, c[i]), events |-> i + e[i]]
    OBVIOUS
  <2>2. v[0] = [head |-> win_head, events |-> 0]
    <3>1. Window!Fwd(win_head, 0) = win_head
      BY <1>1 DEF Window!Fwd, WinPos
    <3> QED BY <1>1, <1>2, <1>4, <2>1, <3>1
  <2>3. ASSUME NEW i \in 0..l, i # 0
        PROVE  v[i] = [head |-> Window!Fwd(v[i - 1].head, win_arx[i]),
                       events |-> v[i - 1].events + IF v[i - 1].head + win_arx[i] > WinLen THEN 2 ELSE 1]
    <3>1. i \in 1..l /\ i - 1 \in 0..l /\ i \in Nat
      BY <1>1, <2>3
    <3>2. v[i - 1].head = Window!Fwd(win_head, c[i - 1]) /\ v[i - 1].events = i - 1 + e[i - 1]
      BY <2>1, <3>1
    <3>3. Window!Fwd(win_head, c[i]) = Window!Fwd(Window!Fwd(win_head, c[i - 1]), win_arx[i])
      <4> PICK a, b, d : a = c[i - 1] /\ b = win_arx[i] /\ d = c[i]
        OBVIOUS
      <4>1. a \in 0..WinLen /\ b \in 0..WinLen /\ d \in 0..WinLen /\ d = a + b
        <5>1. c[i] = c[i - 1] + win_arx[i] /\ win_arx[i] \in 1..WinLen /\ i \in 0..l
          BY <1>1, <1>2, <3>1
        <5>2. b \in 1..WinLen /\ d = a + b /\ a \in 0..WinLen /\ d \in 0..WinLen
          BY <3>1, <5>1
        <5> QED BY <1>1, <5>2
      <4>2. Window!Fwd(Window!Fwd(win_head, a), b) = Window!Fwd(win_head, d)
        BY <4>1, FwdSum
      <4> QED BY <4>2
    <3> PICK x, y : x = e[i - 1] /\ y = e[i]
      OBVIOUS
    <3> PICK wr : wr = (Window!Fwd(win_head, c[i - 1]) + win_arx[i] > WinLen)
      OBVIOUS
    <3>4. x \in Nat /\ y = x + IF wr THEN 1 ELSE 0
      BY <1>5, <3>1
    <3>5. i + y = (i - 1 + x) + IF wr THEN 2 ELSE 1
      BY <3>1, <3>4
    <3> HIDE DEF v
    <3> QED BY <2>1, <3>2, <3>3, <3>5
  <2> HIDE DEF v
  <2>4. v = [i \in 0..l |-> v[i]]
    BY DEF v
  <2> QED BY <2>2, <2>3, <2>4
<1>7. Rec(Window!After)
  <2>1. Window!After = CHOOSE w : Rec(w)
    BY DEF Window!After
  <2> HIDE DEF Rec, v
  <2> QED BY <1>6, <2>1
<1>8. \A i \in 0..l : Window!After[i] = v[i]
  <2> DEFINE T == {i \in 0..l : Window!After[i] # v[i]}
  <2> SUFFICES ASSUME T # {} PROVE FALSE
    OBVIOUS
  <2>1. PICK i \in T : \A j \in T : i <= j
    <3>1. T \subseteq Nat
      OBVIOUS
    <3> HIDE DEF T
    <3> QED BY <3>1, SmallestNat
  <2> DEFINE W == Window!After
  <2>2. \A k \in 0..l : W[k] = IF k = 0 THEN [head |-> win_head, events |-> 0]
          ELSE [head |-> Window!Fwd(W[k - 1].head, win_arx[k]),
                events |-> W[k - 1].events + IF W[k - 1].head + win_arx[k] > WinLen THEN 2 ELSE 1]
    <3> HIDE DEF W, v
    <3>1. Rec(W)
      BY <1>7 DEF W
    <3> QED BY <3>1
  <2>3. \A k \in 0..l : v[k] = IF k = 0 THEN [head |-> win_head, events |-> 0]
          ELSE [head |-> Window!Fwd(v[k - 1].head, win_arx[k]),
                events |-> v[k - 1].events + IF v[k - 1].head + win_arx[k] > WinLen THEN 2 ELSE 1]
    <3> HIDE DEF v
    <3> QED BY <1>6
  <2>4. i \in 0..l /\ W[i] # v[i]
    OBVIOUS
  <2>5. i # 0 => W[i - 1] = v[i - 1]
    <3>1. i # 0 => i - 1 \in 0..l /\ ~(i <= i - 1)
      BY <2>4, <1>1
    <3> QED BY <2>1, <3>1
  <2> HIDE DEF W, v, T, Rec
  <2> QED BY <2>2, <2>3, <2>4, <2>5
<1>9. v[0].events = 0 /\ \A i \in 0..l : v[i].head = Window!Fwd(win_head, c[i])
  BY <1>1, <1>4
<1> HIDE DEF v
<1> QED BY <1>1, <1>8, <1>9

\* The notifications after the first n reach as far from where those end.
LEMMA NotifiedRest ==
  ASSUME Window!RecvWindowAssumption, NEW bq \in Seq(1..WinLen), NEW l, l = Len(bq), NEW hd \in WinPos,
         NEW un \in 0..WinLen,
         NEW c \in [0..l -> 0..WinLen], Sums(bq, c), c[l] <= un, NEW n \in 0..l
  PROVE  Notified(SubSeq(bq, n + 1, l), Window!Fwd(hd, c[n]), Window!Fwd(hd, c[l]), un)
<1>1. l \in Nat /\ WinLen \in Nat /\ n \in Nat
  BY DEF Window!RecvWindowAssumption
<1> PICK r, m : r = SubSeq(bq, n + 1, l) /\ m = l - n
  OBVIOUS
<1>2. m \in Nat /\ Len(r) = m /\ (\A i \in 1..m : r[i] = bq[n + i] /\ n + i \in 1..l) /\ l = n + m
  BY <1>1
<1>3. \A i, j \in 0..l : i <= j => c[j] - c[i] >= j - i
  BY DEF Sums
<1> DEFINE d == [i \in 0..m |-> c[n + i] - c[n]]
<1>4. \A i \in 0..m : n + i \in 0..l /\ n <= n + i /\ c[n + i] \in 0..WinLen /\ c[n] \in 0..WinLen
  <2>1. ASSUME NEW i \in 0..m PROVE n + i \in 0..l /\ n <= n + i
    BY <1>1, <1>2
  <2> QED BY <2>1
<1>5. d \in [0..m -> 0..WinLen] /\ \A i \in 0..m : d[i] = c[n + i] - c[n]
  <2>1. ASSUME NEW i \in 0..m PROVE c[n + i] - c[n] \in 0..WinLen
    <3> PICK j, a, b : j = n + i /\ a = c[j] /\ b = c[n]
      OBVIOUS
    <3>1. j \in 0..l /\ n <= j /\ a \in 0..WinLen /\ b \in 0..WinLen
      BY <1>4
    <3>2. a - b >= j - n
      BY <1>3, <3>1
    <3> QED BY <1>1, <3>1, <3>2
  <2> QED BY <2>1
<1> HIDE DEF d
<1>6. Sums(r, d)
  <2>1. d[0] = 0
    <3>1. 0 \in 0..m /\ n + 0 = n
      BY <1>1, <1>2
    <3> QED BY <1>4, <1>5, <3>1
  <2>2. ASSUME NEW i \in 1..m PROVE d[i] = d[i - 1] + r[i]
    <3>1. i \in 0..m /\ i - 1 \in 0..m /\ n + (i - 1) = n + i - 1 /\ n + i \in 1..l
      BY <1>1, <1>2
    <3>2. c[n + i] = c[n + i - 1] + bq[n + i]
      BY <3>1 DEF Sums
    <3>3. d[i] = c[n + i] - c[n] /\ d[i - 1] = c[n + i - 1] - c[n] /\ r[i] = bq[n + i]
      BY <1>2, <1>5, <3>1
    <3>4. c[n + i - 1] \in 0..WinLen /\ c[n] \in 0..WinLen /\ bq[n + i] \in 1..WinLen
      <4>1. \A k \in 1..l : bq[k] \in 1..WinLen
        BY <1>1
      <4> QED BY <1>4, <3>1, <4>1
    <3> PICK x, y, z : x = c[n + i - 1] /\ y = bq[n + i] /\ z = c[n]
      OBVIOUS
    <3> QED BY <1>1, <3>2, <3>3, <3>4, SMTT(30)
  <2>3. ASSUME NEW i \in 0..m, NEW j \in 0..m, i <= j PROVE d[j] - d[i] >= j - i
    <3> PICK a, b : a = n + i /\ b = n + j
      OBVIOUS
    <3>0. i \in Nat /\ j \in Nat /\ i <= m /\ j <= m /\ i <= j /\ l \in Nat /\ n \in Nat /\ m \in Nat
          /\ l = n + m
      BY <1>1, <1>2, <2>3
    <3>1. a \in 0..l /\ b \in 0..l /\ a <= b /\ b - a = j - i
      BY <3>0
    <3>2. c[b] - c[a] >= b - a
      BY <1>3, <3>1
    <3>3. d[i] = c[a] - c[n] /\ d[j] = c[b] - c[n] /\ c[a] \in 0..WinLen /\ c[b] \in 0..WinLen
          /\ c[n] \in 0..WinLen
      BY <1>4, <1>5
    <3> PICK x, y, z : x = c[a] /\ y = c[b] /\ z = c[n]
      OBVIOUS
    <3> QED BY <1>1, <3>1, <3>2, <3>3
  <2> QED BY <1>2, <2>1, <2>2, <2>3 DEF Sums
<1>7. d[m] = c[l] - c[n] /\ m \in 0..m /\ c[l] \in 0..WinLen /\ c[n] \in 0..WinLen /\ d[m] \in 0..WinLen
  <2>0. l \in Nat /\ n \in Nat /\ m \in Nat /\ l = n + m
    BY <1>1, <1>2
  <2>1. m \in 0..m /\ l \in 0..l /\ n \in 0..l /\ n + m = l
    BY <2>0
  <2>2. c[l] \in 0..WinLen /\ c[n] \in 0..WinLen
    BY <2>1
  <2> QED BY <1>5, <2>1, <2>2
<1> PICK x, y, z : x = c[l] /\ y = c[n] /\ z = d[m]
  OBVIOUS
<1>8. z <= un /\ Window!Fwd(Window!Fwd(hd, y), z) = Window!Fwd(hd, x)
  <2>1. x = y + z /\ x \in 0..WinLen /\ y \in 0..WinLen /\ z \in 0..WinLen /\ x <= un
    BY <1>1, <1>7
  <2> QED BY <1>1, <2>1, FwdSum
<1> QED BY <1>2, <1>5, <1>6, <1>8 DEF Notified

\* A bump that frees all there is to be freed may follow any others.
LEMMA ChainedAppend ==
  ASSUME Window!RecvWindowAssumption, NEW bq \in Seq(WinPos), NEW end \in WinPos,
         NEW freed \in 0..WinLen,
         Chained(bq, end, freed), NEW p \in WinPos, p = Window!Fwd(end, freed)
  PROVE  Chained(Append(bq, p), end, freed)
<1>1. PICK f \in [1..Len(bq) -> 0..WinLen] : Bumps(bq, f, end, freed)
  BY DEF Chained
<1> PICK r, l : r = Append(bq, p) /\ l = Len(bq)
  OBVIOUS
<1>2. l \in Nat /\ Len(r) = l + 1 /\ r[l + 1] = p /\ \A i \in 1..l : r[i] = bq[i]
  OBVIOUS
<1> DEFINE d == [i \in 1..l + 1 |-> IF i = l + 1 THEN freed ELSE f[i]]
<1>3. d \in [1..l + 1 -> 0..WinLen] /\ d[l + 1] = freed
      /\ \A i \in 1..l : d[i] = f[i] /\ f[i] \in 0..WinLen
  <2>1. \A i \in 1..l : f[i] \in 0..WinLen /\ i # l + 1
    BY <1>1, <1>2
  <2>2. \A i \in 1..l + 1 : i \in 1..l \/ i = l + 1
    BY <1>2
  <2>3. l + 1 \in 1..l + 1 /\ \A i \in 1..l : i \in 1..l + 1
    BY <1>2
  <2> QED BY <2>1, <2>2, <2>3
<1> HIDE DEF d
<1>4. \A i \in 1..l + 1 : i = l + 1 \/ i \in 1..l
  BY <1>2
<1>5. \A i \in 1..l : bq[i] = Window!Fwd(end, f[i]) /\ f[i] <= freed
  BY <1>1 DEF Bumps
<1>6. \A i \in 1..l + 1 : r[i] = Window!Fwd(end, d[i]) /\ d[i] <= freed
  BY <1>2, <1>3, <1>4, <1>5
<1>7. ASSUME NEW i \in 1..l + 1, NEW j \in 1..l + 1, i <= j PROVE d[i] <= d[j]
  <2>1. CASE j = l + 1
    BY <1>3, <1>6, <2>1
  <2>2. CASE j # l + 1
    <3>1. i \in 1..l /\ j \in 1..l
      BY <1>2, <1>7, <2>2
    <3> QED BY <1>1, <1>3, <1>7, <3>1 DEF Bumps
  <2> QED BY <2>1, <2>2
<1> QED BY <1>2, <1>3, <1>6, <1>7 DEF Chained, Bumps

LEMMA PollKeeps ==
  ASSUME Window!RecvWindowAssumption, WinInv, Window!Poll
  PROVE  WinInv'
<1>1. /\ rx_next_pos \in WinPos /\ win_head \in WinPos /\ win_tail \in WinPos /\ rx_avail \in 0..WinLen
      /\ unread \in 0..WinLen /\ win_arx \in Seq(1..WinLen) /\ Len(win_arx) \in Nat
      /\ win_atx \in Seq(WinPos)
      /\ WinLen \in Nat /\ WinLen >= 4 /\ rx_avail + unread <= WinLen /\ WinRoom \in Nat
  BY DEF WinInv, WinTypes, WinFits, Window!RecvWindowAssumption
<1>2. PICK c \in [0..Len(win_arx) -> 0..WinLen] :
        Sums(win_arx, c) /\ c[Len(win_arx)] <= unread
        /\ Window!Fwd(win_head, c[Len(win_arx)]) = rx_next_pos
  BY DEF WinInv, Notified
<1> PICK l : l = Len(win_arx)
  OBVIOUS
<1>3. Window!After[0].events = 0 /\ \A i \in 0..l : Window!After[i].head = Window!Fwd(win_head, c[i])
  BY <1>1, <1>2, AfterIs
<1> DEFINE S == {i \in 0..Len(win_arx) : Window!After[i].events <= WinRoom}
<1>4. PICK n \in S : n = Window!Max(S)
  <2>1. S \subseteq 0..l /\ 0 \in S
    BY <1>1, <1>3
  <2> HIDE DEF S
  <2>2. \E x \in S : \A y \in S : x >= y
    BY <1>1, <2>1, LargestNat
  <2>3. Window!Max(S) = CHOOSE x \in S : \A y \in S : x >= y
    BY DEF Window!Max
  <2> QED BY <2>2, <2>3
<1>5. n \in 0..l /\ c[n] \in 0..WinLen
  BY <1>2
<1> DEFINE bump == pending /\ Len(win_atx) < WinQueue
<1>6. /\ win_arx' = SubSeq(win_arx, n + 1, l) /\ win_head' = Window!Fwd(win_head, c[n])
      /\ win_atx' = (IF bump THEN Append(win_atx, win_tail) ELSE win_atx)
      /\ win_nictail' = (IF bump THEN win_tail ELSE win_nictail) /\ pending' = (pending /\ ~bump)
      /\ UNCHANGED <<rx_next_pos, rx_avail, wnd, win_tail, unread>>
  <2>1. win_head' = Window!After[n].head
    BY <1>4 DEF Window!Poll
  <2> QED BY <1>3, <1>4, <1>5, <2>1 DEF Window!Poll
<1> HIDE DEF bump, S
<1>7. Notified(SubSeq(win_arx, n + 1, l), Window!Fwd(win_head, c[n]), rx_next_pos, unread)
  BY <1>1, <1>2, <1>5, NotifiedRest
<1>8. Window!Fwd(win_head, c[n]) \in WinPos /\ SubSeq(win_arx, n + 1, l) \in Seq(1..WinLen)
  <2>1. SubSeq(win_arx, n + 1, l) \in Seq(1..WinLen)
    BY <1>1, <1>5
  <2> QED BY <1>1, <1>5, <2>1, FwdIs
<1> PICK end, freed : end = Window!Fwd(rx_next_pos, rx_avail) /\ freed = WinLen - rx_avail - unread
  OBVIOUS
<1>9. end \in WinPos /\ freed \in 0..WinLen /\ Chained(win_atx, end, freed)
  BY <1>1, FwdIs DEF WinInv
<1>10. win_tail = Window!Fwd(end, freed)
  <2>1. Window!Fwd(win_tail, unread) = rx_next_pos
    BY DEF WinInv
  <2> PICK k \in 0..WinLen : k = unread + rx_avail
    BY <1>1
  <2>2. end = Window!Fwd(win_tail, k)
    BY <1>1, <2>1, FwdSum
  <2>3. WinLen \in 0..WinLen /\ WinLen = k + freed
    BY <1>1
  <2>4. Window!Fwd(Window!Fwd(win_tail, k), freed) = Window!Fwd(win_tail, WinLen)
    BY <1>1, <1>9, <2>3, FwdSum
  <2>5. Window!Fwd(win_tail, WinLen) = win_tail
    BY <1>1 DEF Window!Fwd, WinPos
  <2> QED BY <2>2, <2>4, <2>5
<1>11. Chained(Append(win_atx, win_tail), end, freed)
  BY <1>1, <1>9, <1>10, ChainedAppend
<1>12. WinTypes' /\ WinFits'
  <2>1. Append(win_atx, win_tail) \in Seq(WinPos)
    BY <1>1
  <2>2. pending' \in BOOLEAN
    BY <1>6
  <2> QED BY <1>6, <1>8, <2>1, <2>2 DEF WinTypes, WinFits, WinInv
<1>13. Chained(win_atx', end, freed)
  BY <1>6, <1>9, <1>11
<1> QED BY <1>6, <1>7, <1>12, <1>13 DEF WinInv

LEMMA TakeAway ==
  ASSUME NEW a \in Nat, NEW b \in Nat, NEW k \in Nat, NEW m \in Nat, NEW x \in Nat, NEW n \in Nat,
         a + b <= k, b = m + x, n <= m
  PROVE  b - n \in Nat /\ x <= b - n /\ b - n <= k /\ a + (b - n) <= k /\ n <= k
OBVIOUS

LEMMA WindowDoneKeeps ==
  ASSUME Window!RecvWindowAssumption, WinInv, NEW n \in 1..WinLen, Window!RxDone(n)
  PROVE  WinInv'
<1>1. /\ rx_next_pos \in WinPos /\ win_head \in WinPos /\ win_tail \in WinPos /\ rx_avail \in 0..WinLen
      /\ unread \in 0..WinLen /\ win_arx \in Seq(1..WinLen) /\ Len(win_arx) \in Nat /\ wnd <= rx_avail
      /\ WinLen \in Nat /\ WinLen >= 4 /\ rx_avail + unread <= WinLen /\ n \in Nat
  BY DEF WinInv, WinTypes, WinFits, Window!RecvWindowAssumption
<1>2. PICK c \in [0..Len(win_arx) -> 0..WinLen] :
        Sums(win_arx, c) /\ c[Len(win_arx)] <= unread
        /\ Window!Fwd(win_head, c[Len(win_arx)]) = rx_next_pos
  BY DEF WinInv, Notified
<1>3. PICK x \in 0..WinLen, m \in 0..WinLen : x = c[Len(win_arx)] /\ unread = m + x
  <2>1. c[Len(win_arx)] \in 0..WinLen /\ c[Len(win_arx)] <= unread
    BY <1>1, <1>2
  <2>2. unread - c[Len(win_arx)] \in 0..WinLen /\ unread = (unread - c[Len(win_arx)]) + c[Len(win_arx)]
    BY <1>1, <2>1
  <2> QED BY <2>1, <2>2
<1>4. win_head = Window!Fwd(win_tail, m)
  <2>1. Window!Fwd(Window!Fwd(win_tail, m), x) = Window!Fwd(win_tail, unread)
    BY <1>1, <1>3, FwdSum
  <2>0. Window!Fwd(win_tail, unread) = rx_next_pos
    BY DEF WinInv
  <2>2. Window!Fwd(Window!Fwd(win_tail, m), x) = Window!Fwd(win_head, x)
    BY <1>2, <1>3, <2>0, <2>1
  <2>3. Window!Fwd(win_tail, m) \in WinPos
    BY <1>1, <1>3, FwdIs
  <2> QED BY <1>1, <1>3, <2>2, <2>3, FwdCancel
<1>5. n <= m
  <2>1. Window!Received <= m
    <3> PICK a, b : a = win_tail /\ b = win_head
      OBVIOUS
    <3>0. b = IF a + m >= WinLen THEN a + m - WinLen ELSE a + m
      BY <1>4 DEF Window!Fwd
    <3>1. a \in Nat /\ a < WinLen /\ m \in Nat /\ m <= WinLen /\ WinLen \in Nat
          /\ b = IF a + m >= WinLen THEN a + m - WinLen ELSE a + m
      <4>1. a \in 0..WinLen - 1 /\ m \in 0..WinLen /\ WinLen \in Nat
        BY <1>1, <1>3 DEF WinPos
      <4>2. a \in Nat /\ a < WinLen /\ m \in Nat /\ m <= WinLen
        BY <4>1
      <4> QED BY <3>0, <4>1, <4>2
    <3>2. Window!Received = IF a <= b THEN b - a ELSE WinLen - a + b
      BY DEF Window!Received
    <3>3. CASE a + m >= WinLen
      BY <3>1, <3>2, <3>3
    <3>4. CASE ~(a + m >= WinLen)
      BY <3>1, <3>2, <3>4
    <3> QED BY <3>3, <3>4
  <2>2. n <= Window!Received /\ Window!Received \in Int
    BY <1>1 DEF Window!RxDone, Window!Received, WinPos
  <2> QED BY <1>1, <1>3, <2>1, <2>2
<1>6. /\ win_tail' = Window!Fwd(win_tail, n) /\ unread' = unread - n /\ pending' \in BOOLEAN
      /\ UNCHANGED <<rx_next_pos, rx_avail, wnd, win_arx, win_atx, win_head, win_nictail>>
  BY DEF Window!RxDone
<1>7. n \in 0..WinLen /\ unread - n \in 0..WinLen /\ x <= unread - n /\ rx_avail + (unread - n) <= WinLen
  <2>1. rx_avail \in Nat /\ unread \in Nat /\ rx_avail + unread <= WinLen /\ unread = m + x
        /\ m \in Nat /\ x \in Nat /\ n \in Nat /\ n <= m /\ WinLen \in Nat
    BY <1>1, <1>3, <1>5
  <2> QED BY <2>1, TakeAway
<1>8. Window!Fwd(win_tail, n) \in WinPos
  BY <1>1, <1>7, FwdIs
<1>9. WinTypes' /\ WinFits'
  BY <1>1, <1>6, <1>7, <1>8 DEF WinTypes, WinFits, WinInv
<1>10. Notified(win_arx, win_head, rx_next_pos, unread - n)
  BY <1>2, <1>3, <1>7 DEF Notified
<1>11. Window!Fwd(Window!Fwd(win_tail, n), unread - n) = rx_next_pos
  <2> PICK k \in 0..WinLen : k = unread - n
    BY <1>7
  <2>1. unread = n + k
    BY <1>1
  <2>2. Window!Fwd(Window!Fwd(win_tail, n), k) = Window!Fwd(win_tail, unread)
    BY <1>1, <1>7, <2>1, FwdSum
  <2> QED BY <2>2 DEF WinInv
<1> PICK end, freed, more : end = Window!Fwd(rx_next_pos, rx_avail) /\ freed = WinLen - rx_avail - unread
                            /\ more = WinLen - rx_avail - (unread - n)
  OBVIOUS
<1>12. Chained(win_atx, end, more)
  <2>1. PICK f \in [1..Len(win_atx) -> 0..WinLen] : Bumps(win_atx, f, end, freed)
    BY DEF WinInv, Chained
  <2>2. \A i \in 1..Len(win_atx) : f[i] <= more
    <3>1. freed \in Int /\ more \in Int /\ freed <= more
      <4> PICK a, b : a = rx_avail /\ b = unread
        OBVIOUS
      <4> QED BY <1>1
    <3>2. \A i \in 1..Len(win_atx) : f[i] \in 0..WinLen /\ f[i] <= freed
      BY <2>1 DEF Bumps
    <3> QED BY <1>1, <3>1, <3>2
  <2>3. Bumps(win_atx, f, end, more)
    BY <2>1, <2>2 DEF Bumps
  <2> QED BY <2>3 DEF Chained
<1> QED BY <1>6, <1>9, <1>10, <1>11, <1>12 DEF WinInv

LEMMA NextWindow ==
  ASSUME Window!RecvWindowAssumption, WinInv, Window!Next
  PROVE  WinInv'
BY ReceiveKeeps, FlowBumpKeeps, PollKeeps, WindowDoneKeeps DEF Window!Next

LEMMA RestWindow ==
  ASSUME WinInv, UNCHANGED Window!vars
  PROVE  WinInv'
BY DEF WinInv, WinTypes, WinFits, Window!vars

LEMMA WindowSound ==
  ASSUME Window!RecvWindowAssumption, WinInv
  PROVE  Window!TypeOK /\ Window!NothingOverwritten
BY DEF WinInv, WinTypes, WinFits, WinPos, Window!TypeOK, Window!NothingOverwritten
-----------------------------------------------------------------------------
(* The buffer of objects.                                                  *)
(*                                                                         *)
(* The invariant has two parts.  Buffer: the objects follow each other     *)
(* from the tail on, what has arrived ends at the fast path's position,    *)
(* and the head is beyond all that threads have or gave back.  Queued: the *)
(* notifications of each context are a chain of steps, each of which leaves*)
(* less of an object to come; every object that is not complete is in one  *)
(* chain, without a break, and no thread has it yet.                       *)

\* The most that is in a buffer that is never completely full.
ObjMost == ObjLen - 1
MostFits == ObjMost \in 0..ObjLen /\ ObjMost < ObjLen

ObjSize == 0..ObjLen

PosMap == [ObjContexts -> [Nat -> ObjRecv!Pos]]
RemMap == [ObjContexts -> [Nat -> ObjSize]]

ObjHeader == [len : 0..ObjLen, done : BOOLEAN]
Object == [pos : ObjRecv!Pos, len : 1..ObjLen, done : BOOLEAN]
ObjNote == [pos : ObjRecv!Pos, bump : 1..ObjLen]
ObjQueues == [ObjContexts -> Seq(ObjNote)]

ObjTypes ==
  /\ pos \in ObjRecv!Pos /\ rxb_head \in ObjRecv!Pos /\ rxb_tail \in ObjRecv!Pos
  /\ rxb_nictail \in ObjRecv!Pos
  /\ obj_avail \in 0..ObjLen /\ objrem \in 0..ObjLen /\ db \in ObjContexts /\ ooo = 0
  /\ rx_held \subseteq ObjRecv!Pos
  /\ rx_hdr \in [ObjRecv!Pos -> ObjHeader] /\ notes \in [ObjContexts -> Seq(ObjNote)]
  /\ live \in Seq(Object)
  /\ obj_len_rem \in [ObjContexts -> 0..ObjLen] /\ obj_pos \in [ObjContexts -> ObjRecv!Pos]

\* The objects of ob follow each other from tl on: the first i have sm[i] bytes.
Ends(ob, sm, tl) ==
  /\ sm[0] = 0
  /\ \A i \in 1..Len(ob) : sm[i] = sm[i - 1] + ob[i].len /\ ob[i].pos = ObjRecv!Off(tl, sm[i - 1])
  /\ \A i, j \in 0..Len(ob) : i < j => sm[i] + (j - i) <= sm[j]

\* rc of these bytes have arrived, some of the last object, rem have not.
Arrived(ob, sm, rc, rem) ==
  /\ sm[Len(ob)] = rc + rem
  /\ IF Len(ob) = 0 THEN rem = 0 ELSE sm[Len(ob) - 1] < rc

\* A position at which there is an object that no thread has or had.
Open(ob, hl, p) == p \notin hl /\ \E i \in 1..Len(ob) : ob[i].pos = p /\ ~ob[i].done

\* The head, hh from the tail, is beyond every object that a thread has or
\* had; headers in the buffer are right, and the first object is not given back.
Given(ob, sm, hh, hl, hds) ==
  /\ \A i \in 1..Len(ob) : hds[ob[i].pos].len = ob[i].len /\ hds[ob[i].pos].done = ob[i].done
  /\ \A i \in 1..Len(ob) : ob[i].done \/ ob[i].pos \in hl => sm[i] <= hh
  /\ Len(ob) > 0 => ~ob[1].done
  /\ \A p \in hl : \E i \in 1..Len(ob) : ob[i].pos = p /\ ~ob[i].done

\* The receive buffer: what is filled starts where the fast path knows it to.
FilledFrom(ps, tl, nt, rc, av) ==
  /\ ps = ObjRecv!Off(tl, rc) /\ rc + av <= ObjLen /\ ObjLen - av <= ObjMost
  /\ tl = ObjRecv!Off(nt, ObjLen - av - rc)

Buffer(ob, hl, hds, ps, av, rem, hd, tl, nt) ==
  \E rc \in 0..ObjMost, hh \in 0..ObjMost, sm \in [0..Len(ob) -> Nat] :
    /\ Ends(ob, sm, tl) /\ Arrived(ob, sm, rc, rem) /\ Given(ob, sm, hh, hl, hds)
    /\ FilledFrom(ps, tl, nt, rc, av) /\ hh <= rc /\ hd = ObjRecv!Off(tl, hh)

\* Of a queue nq of notifications the first j leave rm[j] of the object at
\* p[j] to be received.
Chain(nq, p, rm, hds) ==
  \A j \in 1..Len(nq) :
    IF rm[j - 1] = 0 THEN p[j] = nq[j].pos /\ rm[j] + nq[j].bump = hds[p[j]].len
    ELSE p[j] = p[j - 1] /\ rm[j] + nq[j].bump = rm[j - 1]

\* The steps of a chain that are about an object not received yet.
ObjSteps(nq, rm) == {j \in 0..Len(nq) : j > 0 \/ rm[0] > 0}

\* Each object is in one chain, without a break; none of them is in a
\* thread's hands, and the last one does not end before it has arrived.
Chains(nts, P, R, ob, hl, hds, rem, d) ==
  /\ \A c \in ObjContexts : Chain(nts[c], P[c], R[c], hds)
  /\ \A c \in ObjContexts : \A j \in ObjSteps(nts[c], R[c]) :
       Open(ob, hl, P[c][j]) /\ (rem > 0 /\ P[c][j] = ob[Len(ob)].pos => R[c][j] > 0)
  /\ \A c, b \in ObjContexts : \A j \in ObjSteps(nts[c], R[c]), i \in ObjSteps(nts[b], R[b]) :
       P[c][j] = P[b][i] => c = b /\ \A k \in Nat : j <= k /\ k < i => R[c][k] > 0
  /\ \A c \in ObjContexts : R[c][Len(nts[c])] = IF c = d THEN rem ELSE 0
  /\ rem > 0 => P[d][Len(nts[d])] = ob[Len(ob)].pos

Queued(nts, ops, olr, ob, hl, hds, rem, d) ==
  \E P \in PosMap, R \in RemMap :
    /\ Chains(nts, P, R, ob, hl, hds, rem, d)
    /\ \A c \in ObjContexts : P[c][0] = ops[c] /\ R[c][0] = olr[c]

\* An object in several segments goes to the context of the one before it.
ObjTogether == objrem = 0 /\ objrem' > 0 => db' = db

ObjInv ==
  /\ ObjTypes
  /\ Buffer(live, rx_held, rx_hdr, pos, obj_avail, objrem, rxb_head, rxb_tail, rxb_nictail)
  /\ Queued(notes, obj_pos, obj_len_rem, live, rx_held, rx_hdr, objrem, db)
-----------------------------------------------------------------------------
(* Positions *)

LEMMA OffIs ==
  ASSUME ObjRecv!ObjRecvAssumption, NEW p \in ObjRecv!Pos, NEW n \in 0..ObjLen
  PROVE  ObjRecv!Off(p, n) \in ObjRecv!Pos
BY DEF ObjRecv!ObjRecvAssumption, ObjRecv!Pos, ObjRecv!Off

LEMMA OffSum ==
  ASSUME ObjRecv!ObjRecvAssumption, NEW p \in ObjRecv!Pos, NEW n \in 0..ObjLen, NEW m \in 0..ObjLen,
         NEW k \in 0..ObjLen, k = n + m
  PROVE  ObjRecv!Off(ObjRecv!Off(p, n), m) = ObjRecv!Off(p, k)
BY DEF ObjRecv!ObjRecvAssumption, ObjRecv!Pos, ObjRecv!Off

\* Distances below the buffer's length are told apart by where they lead.
LEMMA OffDiffers ==
  ASSUME ObjRecv!ObjRecvAssumption, NEW p \in ObjRecv!Pos, NEW n \in 0..ObjLen, NEW m \in 0..ObjLen,
         n < ObjLen, m < ObjLen, ObjRecv!Off(p, n) = ObjRecv!Off(p, m)
  PROVE  n = m
BY DEF ObjRecv!ObjRecvAssumption, ObjRecv!Pos, ObjRecv!Off

\* Two distances and a sum; the end of an object is in the interval from the
\* head to the tail if it is not nearer than the head.
LEMMA Beyond ==
  ASSUME ObjRecv!ObjRecvAssumption, NEW p \in ObjRecv!Pos, NEW n \in 0..ObjLen, NEW m \in 0..ObjLen,
         n < ObjLen, m < ObjLen, m > 0
  PROVE  ObjRecv!InInterval(ObjRecv!Off(p, n), p, ObjRecv!Off(p, m)) <=> n <= m
<1>1. ObjLen \in Nat /\ p \in Nat /\ p < ObjLen /\ n \in Nat /\ m \in Nat
  BY DEF ObjRecv!ObjRecvAssumption, ObjRecv!Pos
<1>2. CASE p + n >= ObjLen /\ p + m >= ObjLen
  BY <1>1, <1>2 DEF ObjRecv!Off, ObjRecv!InInterval
<1>3. CASE p + n >= ObjLen /\ ~(p + m >= ObjLen)
  BY <1>1, <1>3 DEF ObjRecv!Off, ObjRecv!InInterval
<1>4. CASE ~(p + n >= ObjLen) /\ p + m >= ObjLen
  BY <1>1, <1>4 DEF ObjRecv!Off, ObjRecv!InInterval
<1>5. CASE ~(p + n >= ObjLen) /\ ~(p + m >= ObjLen)
  BY <1>1, <1>5 DEF ObjRecv!Off, ObjRecv!InInterval
<1> QED BY <1>2, <1>3, <1>4, <1>5
-----------------------------------------------------------------------------
(* Objects in the buffer *)

LEMMA Increasing ==
  ASSUME NEW ob \in Seq(Object), NEW sm \in [0..Len(ob) -> Nat], NEW tl, Ends(ob, sm, tl)
  PROVE  \A i, j \in 0..Len(ob) : i < j => sm[i] < sm[j]
<1>1. \A i, j \in 0..Len(ob) : i < j => sm[i] + (j - i) <= sm[j]
  BY DEF Ends
<1>2. ASSUME NEW i \in 0..Len(ob), NEW j \in 0..Len(ob), i < j PROVE sm[i] < sm[j]
  <2>1. sm[i] + (j - i) <= sm[j]
    BY <1>1, <1>2
  <2>2. sm[i] \in Nat /\ sm[j] \in Nat /\ i \in Nat /\ j \in Nat
    OBVIOUS
  <2> QED BY <1>2, <2>1, <2>2
<1> QED BY <1>2

\* What follows at once: each object starts in what has arrived, and is
\* received unless it is the last.
LEMMA Starts ==
  ASSUME ObjRecv!ObjRecvAssumption, NEW ob \in Seq(Object), NEW sm \in [0..Len(ob) -> Nat],
         NEW tl \in ObjRecv!Pos,
         NEW rc \in 0..ObjMost, NEW rem \in 0..ObjLen, Ends(ob, sm, tl), Arrived(ob, sm, rc, rem),
         NEW i \in 1..Len(ob)
  PROVE  /\ sm[i - 1] \in Nat /\ sm[i] \in Nat /\ sm[i - 1] < rc /\ sm[i - 1] < sm[i]
         /\ ob[i].len \in 1..ObjLen /\ sm[i] = sm[i - 1] + ob[i].len
         /\ ob[i].pos = ObjRecv!Off(tl, sm[i - 1])
         /\ i < Len(ob) \/ rem = 0 => sm[i] <= rc
<1>1. Len(ob) \in Nat /\ i - 1 \in 0..Len(ob) /\ i \in 0..Len(ob) /\ Len(ob) - 1 \in 0..Len(ob)
      /\ Len(ob) # 0
      /\ ObjMost \in Nat /\ Len(ob) \in 0..Len(ob) /\ i - 1 < i
  BY DEF ObjRecv!ObjRecvAssumption
<1>a. \A x, y \in 0..Len(ob) : x < y => sm[x] < sm[y]
  BY <1>1, Increasing
<1>2. ob[i] \in Object
  OBVIOUS
<1> PICK l : l = Len(ob) - 1
  OBVIOUS
<1>3. /\ sm[i - 1] \in Nat /\ sm[i] \in Nat /\ sm[l] \in Nat /\ sm[Len(ob)] \in Nat
      /\ sm[l] < rc /\ sm[Len(ob)] = rc + rem /\ sm[i - 1] < sm[i]
  BY <1>1, <1>a DEF Arrived
<1>b. l \in 0..Len(ob) /\ (i - 1 = l \/ i - 1 < l) /\ (i < Len(ob) => i = l \/ i < l)
  BY <1>1
<1>4. i - 1 = l \/ sm[i - 1] < sm[l]
  BY <1>1, <1>a, <1>b
<1>5. i < Len(ob) => i = l \/ sm[i] < sm[l]
  BY <1>1, <1>a, <1>b
<1>6. sm[i - 1] < rc
  BY <1>1, <1>3, <1>4
<1>7. i < Len(ob) \/ rem = 0 => sm[i] <= rc
  BY <1>1, <1>3, <1>5
<1> QED BY <1>2, <1>3, <1>6, <1>7 DEF Ends, Object

\* Two objects are at two positions.
LEMMA PlacesDiffer ==
  ASSUME ObjRecv!ObjRecvAssumption, MostFits, NEW ob \in Seq(Object),
         NEW sm \in [0..Len(ob) -> Nat], NEW tl \in ObjRecv!Pos,
         NEW rc \in 0..ObjMost, NEW rem \in 0..ObjLen, Ends(ob, sm, tl), Arrived(ob, sm, rc, rem),
         NEW i \in 1..Len(ob), NEW j \in 1..Len(ob), ob[i].pos = ob[j].pos
  PROVE  i = j
<1>1. ObjLen \in Nat /\ ObjMost \in Nat /\ ObjMost < ObjLen /\ rc \in Nat /\ rc <= ObjMost
  BY DEF ObjRecv!ObjRecvAssumption, MostFits
<1>2. sm[i - 1] \in Nat /\ sm[i - 1] < rc /\ ob[i].pos = ObjRecv!Off(tl, sm[i - 1])
  BY Starts
<1>3. sm[j - 1] \in Nat /\ sm[j - 1] < rc /\ ob[j].pos = ObjRecv!Off(tl, sm[j - 1])
  BY Starts
<1>a. PICK a \in Nat : a = sm[i - 1]
  BY <1>2
<1>b. PICK b \in Nat : b = sm[j - 1]
  BY <1>3
<1>c. a < rc /\ b < rc /\ ObjRecv!Off(tl, a) = ObjRecv!Off(tl, b)
  BY <1>2, <1>3, <1>a, <1>b
<1>4. a \in 0..ObjLen /\ b \in 0..ObjLen /\ a < ObjLen /\ b < ObjLen
      /\ ObjRecv!Off(tl, a) = ObjRecv!Off(tl, b)
  BY <1>1, <1>c
<1>5. a = b
  BY <1>4, OffDiffers
<1>6. i - 1 \in 0..Len(ob) /\ j - 1 \in 0..Len(ob) /\ i \in Nat /\ j \in Nat
  OBVIOUS
<1>7. ~(i - 1 < j - 1) /\ ~(j - 1 < i - 1)
  <2>1. \A x, y \in 0..Len(ob) : x < y => sm[x] < sm[y]
    BY Increasing
  <2>2. sm[i - 1] = sm[j - 1] /\ sm[i - 1] \in Nat
    BY <1>2, <1>5, <1>a, <1>b
  <2>3. ~(sm[i - 1] < sm[j - 1]) /\ ~(sm[j - 1] < sm[i - 1])
    BY <2>2
  <2> QED BY <1>6, <2>1, <2>3
<1> QED BY <1>6, <1>7

\* No object is where the next byte goes, while one is begun there.
LEMMA NextPlace ==
  ASSUME ObjRecv!ObjRecvAssumption, MostFits, NEW ob \in Seq(Object),
         NEW sm \in [0..Len(ob) -> Nat], NEW tl \in ObjRecv!Pos,
         NEW rc \in 0..ObjMost, NEW rem \in 0..ObjLen, Ends(ob, sm, tl), Arrived(ob, sm, rc, rem),
         NEW i \in 1..Len(ob)
  PROVE  ob[i].pos # ObjRecv!Off(tl, rc)
<1>1. ObjLen \in Nat /\ ObjMost \in Nat /\ ObjMost < ObjLen /\ rc \in Nat /\ rc <= ObjMost
  BY DEF ObjRecv!ObjRecvAssumption, MostFits
<1>2. sm[i - 1] \in Nat /\ sm[i - 1] < rc /\ ob[i].pos = ObjRecv!Off(tl, sm[i - 1])
  BY Starts
<1> PICK a : a = sm[i - 1]
  OBVIOUS
<1>3. a \in 0..ObjLen /\ rc \in 0..ObjLen /\ a < ObjLen /\ rc < ObjLen /\ a # rc
  BY <1>1, <1>2
<1>4. ObjRecv!Off(tl, a) # ObjRecv!Off(tl, rc)
  BY <1>3, OffDiffers
<1> QED BY <1>2, <1>4

\* A new object, of which n bytes come.
LEMMA BufferNew ==
  ASSUME ObjRecv!ObjRecvAssumption, MostFits, NEW ob \in Seq(Object), NEW hl,
         NEW hds \in [ObjRecv!Pos -> ObjHeader],
         NEW ps \in ObjRecv!Pos, NEW av \in 0..ObjLen, NEW hd, NEW tl \in ObjRecv!Pos,
         NEW nt \in ObjRecv!Pos,
         Buffer(ob, hl, hds, ps, av, 0, hd, tl, nt), NEW len \in 1..ObjLen, NEW n \in 1..len, n <= av,
         ObjLen - av + n <= ObjMost, NEW x, x = [pos |-> ps, len |-> len, done |-> FALSE],
         NEW hds2, hds2 = [hds EXCEPT ![ps] = [len |-> len, done |-> FALSE]], NEW rem, rem = len - n
  PROVE  Buffer(Append(ob, x), hl, hds2, ObjRecv!Off(ps, n), av - n, rem, hd, tl, nt)
<1>1. PICK rc \in 0..ObjMost, hh \in 0..ObjMost, sm \in [0..Len(ob) -> Nat] :
    /\ Ends(ob, sm, tl) /\ Arrived(ob, sm, rc, 0) /\ Given(ob, sm, hh, hl, hds)
    /\ FilledFrom(ps, tl, nt, rc, av) /\ hh <= rc /\ hd = ObjRecv!Off(tl, hh)
  BY DEF Buffer
<1>2. /\ ObjLen \in Nat /\ ObjMost \in Nat /\ ObjMost < ObjLen /\ rc \in Nat /\ rc <= ObjMost
      /\ len \in Nat
      /\ n \in Nat /\ n > 0 /\ n <= len /\ len <= ObjLen /\ av \in Nat /\ Len(ob) \in Nat
      /\ 0 \in 0..ObjLen /\ n \in 0..ObjLen
  BY DEF ObjRecv!ObjRecvAssumption, MostFits
<1> PICK k, nb : k = Len(ob) /\ nb = Append(ob, x)
  OBVIOUS
<1>3. Len(nb) = k + 1 /\ nb[k + 1] = x /\ (\A i \in 1..k : nb[i] = ob[i]) /\ k \in Nat
  OBVIOUS
<1>4. sm[k] = rc /\ rem \in 0..ObjLen
  BY <1>1, <1>2 DEF Arrived
<1>5. ps = ObjRecv!Off(tl, rc) /\ rc + av <= ObjLen /\ tl = ObjRecv!Off(nt, ObjLen - av - rc)
  BY <1>1 DEF FilledFrom
<1>6. \A i \in 1..k : ob[i].pos # ps
  BY <1>1, <1>2, <1>5, NextPlace
<1>7. rc + n \in 0..ObjMost /\ ObjRecv!Off(ps, n) = ObjRecv!Off(tl, rc + n)
  <2>1. rc + n <= ObjMost
    BY <1>2, <1>5
  <2> PICK m \in 0..ObjLen : m = rc + n
    BY <1>2, <2>1
  <2>2. ObjRecv!Off(ObjRecv!Off(tl, rc), n) = ObjRecv!Off(tl, m)
    BY <1>2, OffSum
  <2> QED BY <1>2, <1>5, <2>1, <2>2
<1> DEFINE ns == [i \in 0..k + 1 |-> IF i = k + 1 THEN rc + len ELSE sm[i]]
<1>8. /\ ns \in [0..k + 1 -> Nat] /\ ns[k + 1] = rc + len /\ (\A i \in 0..k : ns[i] = sm[i])
      /\ ns[k] = rc /\ ns[0] = sm[0]
  <2>1. \A i \in 0..k + 1 : i \in 0..k \/ i = k + 1
    BY <1>3
  <2>2. k \in 0..k /\ 0 \in 0..k /\ k + 1 \in 0..k + 1 /\ \A i \in 0..k : i \in 0..k + 1 /\ i # k + 1
    BY <1>3
  <2>3. \A i \in 0..k : sm[i] \in Nat
    BY <1>3
  <2> QED BY <1>2, <1>4, <2>1, <2>2, <2>3
<1> HIDE DEF ns
<1>9. Ends(nb, ns, tl)
  <2>1. ns[0] = 0
    BY <1>1, <1>8 DEF Ends
  <2>2. ASSUME NEW i \in 1..k + 1 PROVE ns[i] = ns[i - 1] + nb[i].len
               /\ nb[i].pos = ObjRecv!Off(tl, ns[i - 1])
    <3>1. CASE i = k + 1
      <4>1. i - 1 = k /\ x.len = len /\ x.pos = ps
        BY <1>3, <3>1
      <4> QED BY <1>3, <1>5, <1>8, <3>1, <4>1
    <3>2. CASE i # k + 1
      <4>1. i \in 1..k /\ i \in 0..k /\ i - 1 \in 0..k
        BY <1>3, <3>2
      <4> QED BY <1>1, <1>3, <1>8, <4>1 DEF Ends
    <3> QED BY <3>1, <3>2
  <2>3. ASSUME NEW i \in 0..k + 1, NEW j \in 0..k + 1, i < j PROVE ns[i] + (j - i) <= ns[j]
    <3>a. \A a, b \in 0..k : a < b => sm[a] + (b - a) <= sm[b]
      BY <1>1 DEF Ends
    <3>1. CASE j = k + 1
      <4>0. i \in 0..k /\ k \in 0..k /\ (i = k \/ i < k)
        BY <1>3, <2>3, <3>1
      <4>a. \A v \in 0..k : sm[v] \in Nat
        BY <1>3
      <4>b. \A v \in 0..k : v \in Nat
        BY <1>3
      <4>1. i \in Nat /\ sm[i] \in Nat
        BY <4>0, <4>a, <4>b
      <4>2. sm[i] + (k - i) <= rc
        BY <1>2, <1>3, <1>4, <3>a, <4>0, <4>1
      <4>3. ns[i] = sm[i] /\ ns[j] = rc + len /\ len > 0
        BY <1>8, <3>1, <4>0
      <4> PICK y : y = sm[i]
        OBVIOUS
      <4> QED BY <1>2, <1>3, <3>1, <4>1, <4>2, <4>3, SMTT(30)
    <3>2. CASE j # k + 1
      <4>1. i \in 0..k /\ j \in 0..k
        BY <1>3, <2>3, <3>2
      <4> QED BY <1>8, <2>3, <3>a, <4>1
    <3> QED BY <3>1, <3>2
  <2> QED BY <1>3, <2>1, <2>2, <2>3 DEF Ends
<1>10. Arrived(nb, ns, rc + n, rem)
  <2>1. rc + len = rc + n + rem /\ k + 1 - 1 = k /\ k + 1 # 0 /\ rc < rc + n
    BY <1>2, <1>3
  <2> QED BY <1>3, <1>8, <2>1 DEF Arrived
<1>11. Given(nb, ns, hh, hl, hds2)
  <2>1. \A i \in 1..k : ob[i].pos \in ObjRecv!Pos /\ i \in 0..k
    <3>1. \A i \in 1..k : ob[i] \in Object
      OBVIOUS
    <3> QED BY <1>3, <3>1 DEF Object
  <2>2. \A i \in 1..k : hds2[nb[i].pos] = hds[ob[i].pos]
    BY <1>3, <1>6, <2>1
  <2>3. hds2[ps] = [len |-> len, done |-> FALSE]
    OBVIOUS
  <2>4. ps \notin hl
    BY <1>1, <1>6 DEF Given
  <2>5. \A i \in 1..k + 1 : i \in 1..k \/ i = k + 1
    BY <1>3
  <2>6. \A i \in 1..k + 1 : hds2[nb[i].pos].len = nb[i].len /\ hds2[nb[i].pos].done = nb[i].done
    <3>1. \A i \in 1..k : hds[ob[i].pos].len = ob[i].len /\ hds[ob[i].pos].done = ob[i].done
      BY <1>1 DEF Given
    <3>2. x.pos = ps /\ x.len = len /\ x.done = FALSE
      OBVIOUS
    <3>3. hds2[x.pos].len = x.len /\ hds2[x.pos].done = x.done
      BY <2>3, <3>2
    <3>4. ASSUME NEW i \in 1..k + 1 PROVE hds2[nb[i].pos].len = nb[i].len
                 /\ hds2[nb[i].pos].done = nb[i].done
      <4>1. CASE i \in 1..k
        <5>1. nb[i] = ob[i] /\ hds2[nb[i].pos] = hds[ob[i].pos]
          BY <1>3, <2>2, <4>1
        <5>2. hds[ob[i].pos].len = ob[i].len /\ hds[ob[i].pos].done = ob[i].done
          BY <3>1, <4>1
        <5> QED BY <5>1, <5>2
      <4>2. CASE i = k + 1
        BY <1>3, <3>3, <4>2
      <4> QED BY <2>5, <4>1, <4>2
    <3> QED BY <3>4
  <2>7. \A i \in 1..k + 1 : nb[i].done \/ nb[i].pos \in hl => ns[i] <= hh
    BY <1>1, <1>3, <1>8, <2>1, <2>4, <2>5 DEF Given
  <2>8. ~nb[1].done
    <3>1. k = 0 \/ 1 \in 1..k
      BY <1>3
    <3> QED BY <1>1, <1>3, <3>1 DEF Given
  <2>9. \A p \in hl : \E i \in 1..k + 1 : nb[i].pos = p /\ ~nb[i].done
    <3>1. \A i \in 1..k : i \in 1..k + 1
      BY <1>3
    <3> QED BY <1>1, <1>3, <3>1 DEF Given
  <2> QED BY <1>3, <2>6, <2>7, <2>8, <2>9 DEF Given
<1>12. FilledFrom(ObjRecv!Off(ps, n), tl, nt, rc + n, av - n)
  <2>1. rc + n + (av - n) = rc + av /\ ObjLen - (av - n) - (rc + n) = ObjLen - av - rc
        /\ ObjLen - (av - n) <= ObjMost
    BY <1>2
  <2> QED BY <1>5, <1>7, <2>1 DEF FilledFrom
<1>13. hh <= rc + n
  BY <1>1, <1>2
<1> QED BY <1>1, <1>3, <1>7, <1>8, <1>9, <1>10, <1>11, <1>12, <1>13 DEF Buffer

\* More of the last one.
LEMMA BufferMore ==
  ASSUME ObjRecv!ObjRecvAssumption, MostFits, NEW ob \in Seq(Object), NEW hl,
         NEW hds \in [ObjRecv!Pos -> ObjHeader],
         NEW ps \in ObjRecv!Pos, NEW av \in 0..ObjLen, NEW hd, NEW tl \in ObjRecv!Pos,
         NEW nt \in ObjRecv!Pos, NEW rem \in 1..ObjLen,
         Buffer(ob, hl, hds, ps, av, rem, hd, tl, nt), NEW n \in 1..rem, n <= av,
         ObjLen - av + n <= ObjMost, NEW rest, rest = rem - n
  PROVE  Buffer(ob, hl, hds, ObjRecv!Off(ps, n), av - n, rest, hd, tl, nt)
<1>1. PICK rc \in 0..ObjMost, hh \in 0..ObjMost, sm \in [0..Len(ob) -> Nat] :
    /\ Ends(ob, sm, tl) /\ Arrived(ob, sm, rc, rem) /\ Given(ob, sm, hh, hl, hds)
    /\ FilledFrom(ps, tl, nt, rc, av) /\ hh <= rc /\ hd = ObjRecv!Off(tl, hh)
  BY DEF Buffer
<1>2. /\ ObjLen \in Nat /\ ObjMost \in Nat /\ ObjMost < ObjLen /\ rc \in Nat /\ rc <= ObjMost
      /\ rem \in Nat
      /\ n \in Nat /\ n > 0 /\ n <= rem /\ rem <= ObjLen /\ av \in Nat /\ Len(ob) \in Nat
      /\ n \in 0..ObjLen
  BY DEF ObjRecv!ObjRecvAssumption, MostFits
<1>3. ps = ObjRecv!Off(tl, rc) /\ rc + av <= ObjLen /\ tl = ObjRecv!Off(nt, ObjLen - av - rc)
  BY <1>1 DEF FilledFrom
<1>4. rc + n \in 0..ObjMost /\ ObjRecv!Off(ps, n) = ObjRecv!Off(tl, rc + n)
  <2>1. rc + n <= ObjMost
    BY <1>2, <1>3
  <2> PICK m \in 0..ObjLen : m = rc + n
    BY <1>2, <2>1
  <2>2. ObjRecv!Off(ObjRecv!Off(tl, rc), n) = ObjRecv!Off(tl, m)
    BY <1>2, OffSum
  <2> QED BY <1>2, <1>3, <2>1, <2>2
<1>5. Arrived(ob, sm, rc + n, rest)
  <2>1. Len(ob) # 0 /\ sm[Len(ob) - 1] < rc /\ sm[Len(ob)] = rc + rem
    BY <1>1, <1>2 DEF Arrived
  <2>2. Len(ob) - 1 \in 0..Len(ob)
    BY <1>2, <2>1
  <2>3. sm[Len(ob) - 1] \in Nat
    BY <2>2
  <2>4. rc + rem = rc + n + rest /\ sm[Len(ob) - 1] < rc + n
    BY <1>2, <2>1, <2>3
  <2> QED BY <2>1, <2>4 DEF Arrived
<1>6. FilledFrom(ObjRecv!Off(ps, n), tl, nt, rc + n, av - n)
  <2>1. rc + n + (av - n) = rc + av /\ ObjLen - (av - n) - (rc + n) = ObjLen - av - rc
        /\ ObjLen - (av - n) <= ObjMost
    BY <1>2
  <2> QED BY <1>3, <1>4, <2>1 DEF FilledFrom
<1>7. hh <= rc + n
  BY <1>1, <1>2
<1> QED BY <1>1, <1>4, <1>5, <1>6, <1>7 DEF Buffer

\* A complete object that nobody had is given to a thread, and the head is
\* moved if the end of the object is beyond it.
LEMMA BufferGive ==
  ASSUME ObjRecv!ObjRecvAssumption, MostFits, NEW ob \in Seq(Object), NEW hl,
         NEW hds \in [ObjRecv!Pos -> ObjHeader],
         NEW ps \in ObjRecv!Pos, NEW av \in 0..ObjLen, NEW hd, NEW tl \in ObjRecv!Pos,
         NEW nt \in ObjRecv!Pos, NEW rem \in 0..ObjLen,
         Buffer(ob, hl, hds, ps, av, rem, hd, tl, nt), NEW p, Open(ob, hl, p),
         rem > 0 => p # ob[Len(ob)].pos, NEW en, en = ObjRecv!Off(p, hds[p].len)
  PROVE  Buffer(ob, hl \cup {p}, hds, ps, av, rem, IF ObjRecv!InInterval(hd, tl, en) THEN en ELSE hd, tl, nt)
<1>1. PICK rc \in 0..ObjMost, hh \in 0..ObjMost, sm \in [0..Len(ob) -> Nat] :
    /\ Ends(ob, sm, tl) /\ Arrived(ob, sm, rc, rem) /\ Given(ob, sm, hh, hl, hds)
    /\ FilledFrom(ps, tl, nt, rc, av) /\ hh <= rc /\ hd = ObjRecv!Off(tl, hh)
  BY DEF Buffer
<1>2. /\ ObjLen \in Nat /\ ObjMost \in Nat /\ ObjMost < ObjLen /\ rc \in Nat /\ rc <= ObjMost
      /\ hh \in Nat /\ Len(ob) \in Nat
  BY DEF ObjRecv!ObjRecvAssumption, MostFits
<1>3. PICK o \in 1..Len(ob) : ob[o].pos = p /\ ~ob[o].done
  BY DEF Open
<1>s. /\ sm[o - 1] \in Nat /\ sm[o] \in Nat /\ sm[o - 1] < rc /\ sm[o - 1] < sm[o]
      /\ ob[o].len \in 1..ObjLen /\ sm[o] = sm[o - 1] + ob[o].len
      /\ ob[o].pos = ObjRecv!Off(tl, sm[o - 1])
      /\ o < Len(ob) \/ rem = 0 => sm[o] <= rc
  BY <1>1, Starts, SMTT(30)
<1>a. PICK a \in Nat : a = sm[o - 1]
  BY <1>s
<1>b. PICK b \in Nat : b = sm[o]
  BY <1>s
<1>l. PICK ln \in 1..ObjLen : ln = ob[o].len
  BY <1>s
<1>4. a \in Nat /\ b \in Nat /\ a < rc /\ a < b /\ ln \in 1..ObjLen /\ b = a + ln
      /\ p = ObjRecv!Off(tl, a)
      /\ (o < Len(ob) \/ rem = 0 => b <= rc)
  BY <1>3, <1>s, <1>a, <1>b, <1>l
<1>5. b <= rc
  <2>1. rem > 0 => o # Len(ob)
    BY <1>3
  <2> QED BY <1>2, <1>4, <2>1
<1>6. en = ObjRecv!Off(tl, b)
  <2>1. hds[p].len = ln
    BY <1>1, <1>3, <1>l DEF Given
  <2>2. a \in 0..ObjLen /\ b \in 0..ObjLen /\ ln \in 0..ObjLen
    BY <1>2, <1>4, <1>5
  <2> QED BY <1>4, <2>1, <2>2, OffSum
<1>7. ObjRecv!InInterval(hd, tl, en) <=> hh <= b
  <2>1. hh \in 0..ObjLen /\ b \in 0..ObjLen /\ hh < ObjLen /\ b < ObjLen /\ b > 0
    BY <1>2, <1>1, <1>4, <1>5
  <2> QED BY <1>1, <1>6, <2>1, Beyond
<1>8. PICK nh \in 0..ObjMost : nh = IF hh <= b THEN b ELSE hh
  BY <1>2, <1>4, <1>5
<1>9. nh <= rc /\ hh <= nh /\ b <= nh
      /\ (IF ObjRecv!InInterval(hd, tl, en) THEN en ELSE hd) = ObjRecv!Off(tl, nh)
  BY <1>1, <1>2, <1>4, <1>5, <1>6, <1>7, <1>8
<1>10. Given(ob, sm, nh, hl \cup {p}, hds)
  <2>1. ASSUME NEW i \in 1..Len(ob), ob[i].done \/ ob[i].pos \in hl \cup {p} PROVE sm[i] <= nh
    <3>1. sm[i] \in Nat
      BY <1>1, Starts
    <3>2. CASE ob[i].done \/ ob[i].pos \in hl
      <4>1. sm[i] <= hh
        BY <1>1, <3>2 DEF Given
      <4> QED BY <1>2, <1>9, <3>1, <4>1
    <3>3. CASE ob[i].pos = p
      <4>1. i = o
        BY <1>1, <1>3, <3>3, PlacesDiffer
      <4> QED BY <1>9, <1>b, <4>1
    <3> QED BY <2>1, <3>2, <3>3
  <2>2. \A z \in hl \cup {p} : \E i \in 1..Len(ob) : ob[i].pos = z /\ ~ob[i].done
    BY <1>1, <1>3 DEF Given
  <2> QED BY <1>1, <2>1, <2>2 DEF Given
<1> QED BY <1>1, <1>9, <1>10 DEF Buffer

\* The fast path learns the tail.
LEMMA BufferBump ==
  ASSUME ObjRecv!ObjRecvAssumption, MostFits, NEW ob \in Seq(Object), NEW hl,
         NEW hds \in [ObjRecv!Pos -> ObjHeader],
         NEW ps \in ObjRecv!Pos, NEW av \in 0..ObjLen, NEW hd, NEW tl \in ObjRecv!Pos,
         NEW nt \in ObjRecv!Pos, NEW rem \in 0..ObjLen,
         Buffer(ob, hl, hds, ps, av, rem, hd, tl, nt), NEW en, en = ObjRecv!Off(ps, av), NEW nv,
         nv = av + IF tl >= en THEN tl - en ELSE ObjLen - en + tl
  PROVE  nv \in 0..ObjLen /\ Buffer(ob, hl, hds, ps, nv, rem, hd, tl, tl)
<1>1. PICK rc \in 0..ObjMost, hh \in 0..ObjMost, sm \in [0..Len(ob) -> Nat] :
    /\ Ends(ob, sm, tl) /\ Arrived(ob, sm, rc, rem) /\ Given(ob, sm, hh, hl, hds)
    /\ FilledFrom(ps, tl, nt, rc, av) /\ hh <= rc /\ hd = ObjRecv!Off(tl, hh)
  BY DEF Buffer
<1>2. /\ ObjLen \in Nat /\ ObjMost \in Nat /\ ObjMost < ObjLen /\ rc \in Nat /\ rc <= ObjMost
      /\ av \in Nat /\ av <= ObjLen /\ nt \in Nat /\ nt < ObjLen
  BY DEF ObjRecv!ObjRecvAssumption, MostFits, ObjRecv!Pos
<1>g. PICK g \in 0..ObjLen : g = ObjLen - av - rc
  BY <1>1, <1>2 DEF FilledFrom
<1>3. ps = ObjRecv!Off(tl, rc) /\ tl = ObjRecv!Off(nt, g) /\ ObjLen - av <= ObjMost /\ g < ObjLen
      /\ g + rc = ObjLen - av
  BY <1>1, <1>2, <1>g DEF FilledFrom
<1>4. en = nt
  <2> PICK f \in 0..ObjLen : f = ObjLen - av
    BY <1>2
  <2>1. rc \in 0..ObjLen /\ ObjLen \in 0..ObjLen /\ f = g + rc /\ ObjLen = f + av
    BY <1>2, <1>3
  <2>2. ObjRecv!Off(ObjRecv!Off(nt, g), rc) = ObjRecv!Off(nt, f)
    BY <2>1, OffSum
  <2>3. ObjRecv!Off(ObjRecv!Off(nt, f), av) = ObjRecv!Off(nt, ObjLen)
    BY <2>1, OffSum
  <2>4. ObjRecv!Off(nt, ObjLen) = nt
    BY <1>2 DEF ObjRecv!Off
  <2> QED BY <1>3, <2>2, <2>3, <2>4
<1>5. nv = av + g
  <2>1. (IF tl >= nt THEN tl - nt ELSE ObjLen - nt + tl) = g
    BY <1>2, <1>3 DEF ObjRecv!Off
  <2> QED BY <1>4, <2>1
<1>6. nv \in 0..ObjLen /\ nv = ObjLen - rc /\ FilledFrom(ps, tl, tl, rc, nv)
  <2>1. nv \in 0..ObjLen /\ nv = ObjLen - rc /\ rc + nv <= ObjLen /\ ObjLen - nv <= ObjMost
        /\ ObjLen - nv - rc = 0
    <3>1. nv = ObjLen - rc
      BY <1>2, <1>3, <1>5, SMTT(30)
    <3>2. rc \in Nat /\ ObjLen \in Nat /\ rc <= ObjLen /\ rc <= ObjMost
      BY <1>2
    <3> QED BY <3>1, <3>2
  <2>2. ObjRecv!Off(tl, 0) = tl
    BY <1>2 DEF ObjRecv!Off, ObjRecv!Pos
  <2> QED BY <1>3, <2>1, <2>2 DEF FilledFrom
<1> QED BY <1>1, <1>6 DEF Buffer
-----------------------------------------------------------------------------
(* Objects that are given back *)

\* The objects when the one at p is given back, before the first are dropped.
Marked(ob, p) == [i \in DOMAIN ob |-> IF ob[i].pos = p THEN [ob[i] EXCEPT !.done = TRUE] ELSE ob[i]]

\* The objects before f are given back, those from f on are not, or there are none.
FirstLeft(lb, f) ==
  f \in 1..Len(lb) + 1 /\ (f = Len(lb) + 1 \/ ~lb[f].done) /\ \A j \in 1..f - 1 : lb[j].done

\* lb is ob with the o-th object given back.
MarkedAt(ob, lb, o) ==
  /\ lb \in Seq(Object) /\ Len(lb) = Len(ob)
  /\ \A i \in 1..Len(ob) : /\ lb[i].pos = ob[i].pos /\ lb[i].len = ob[i].len
                           /\ lb[i].done <=> (ob[i].done \/ i = o)

\* What holds of the objects from f on, with the threads' objects hl.
Left(ob, lb, f, sm, hh, hl, hds) ==
  /\ \A i \in 1..Len(ob) : lb[i].done \/ lb[i].pos \in hl => sm[i] <= hh
  /\ \A i \in f..Len(ob) : hds[lb[i].pos].len = lb[i].len /\ hds[lb[i].pos].done = lb[i].done
  /\ \A z \in hl : \E i \in 1..Len(ob) : lb[i].pos = z /\ ~lb[i].done

LEMMA MarkedIs ==
  ASSUME NEW ob \in Seq(Object), NEW p, NEW o \in 1..Len(ob), ob[o].pos = p,
         \A i \in 1..Len(ob) : ob[i].pos = p => i = o
  PROVE  MarkedAt(ob, Marked(ob, p), o)
<1> PICK k : k = Len(ob)
  OBVIOUS
<1>1. k \in Nat /\ DOMAIN ob = 1..k /\ \A i \in 1..k : ob[i] \in Object
  OBVIOUS
<1>2. \A i \in 1..k : Marked(ob, p)[i] = IF i = o THEN [ob[i] EXCEPT !.done = TRUE] ELSE ob[i]
  BY <1>1 DEF Marked
<1>3. \A i \in 1..k : Marked(ob, p)[i] \in Object
  <2>1. ASSUME NEW i \in 1..k PROVE Marked(ob, p)[i] \in Object
    <3>1. ob[i] \in Object
      BY <1>1
    <3>2. PICK x \in Object : x = ob[i]
      BY <3>1
    <3>3. [x EXCEPT !.done = TRUE] \in Object
      BY DEF Object
    <3> QED BY <1>2, <3>2, <3>3
  <2> QED BY <2>1
<1>4. \A i \in 1..k : /\ Marked(ob, p)[i].pos = ob[i].pos /\ Marked(ob, p)[i].len = ob[i].len
                      /\ Marked(ob, p)[i].done <=> (ob[i].done \/ i = o)
  BY <1>1, <1>2 DEF Object
<1>5. Marked(ob, p) = [i \in 1..k |-> Marked(ob, p)[i]]
  BY <1>1 DEF Marked
<1> PICK lb : lb = Marked(ob, p)
  OBVIOUS
<1>6. lb \in Seq(Object) /\ Len(lb) = k
  <2>1. lb \in [1..k -> Object]
    BY <1>3, <1>5
  <2> QED BY <1>1, <2>1
<1> QED BY <1>4, <1>6 DEF MarkedAt

LEMMA ReturnedIs ==
  ASSUME live \in Seq(Object), NEW p, NEW lb \in Seq(Object), lb = Marked(live, p)
  PROVE  \E f : FirstLeft(lb, f) /\ ObjRecv!Returned(p) = SubSeq(lb, f, Len(lb))
<1> DEFINE P(i) == (i = Len(lb) + 1 \/ ~lb[i].done) /\ \A j \in 1..i - 1 : lb[j].done
           T == {i \in 1..Len(lb) + 1 : i = Len(lb) + 1 \/ ~lb[i].done}
<1>1. \E f \in 1..Len(lb) + 1 : P(f)
  <2>1. T \subseteq Nat /\ Len(lb) + 1 \in T /\ Len(lb) \in Nat
    OBVIOUS
  <2>2. PICK f \in T : \A i \in T : f <= i
    <3> HIDE DEF T
    <3> QED BY <2>1, SmallestNat
  <2>3. ASSUME NEW j \in 1..f - 1 PROVE lb[j].done
    <3>1. j \in 1..Len(lb) + 1 /\ ~(f <= j) /\ j # Len(lb) + 1
      BY <2>1
    <3>2. j \notin T
      BY <2>2, <3>1
    <3> QED BY <3>1, <3>2
  <2> QED BY <2>2, <2>3
<1> DEFINE f == CHOOSE i \in 1..Len(lb) + 1 : P(i)
<1>2. f \in 1..Len(lb) + 1 /\ P(f)
  <2> HIDE DEF P
  <2> QED BY <1>1
<1>3. ObjRecv!Returned(p) = SubSeq(lb, f, Len(lb))
  BY DEF ObjRecv!Returned, Marked
<1> HIDE DEF f
<1> QED BY <1>2, <1>3 DEF FirstLeft

\* The loop ends after the w-th object: those up to it are given back, the
\* next one is not, or there is none.
LEMMA RunEndIs ==
  ASSUME ObjRecv!ObjRecvAssumption, MostFits, live \in Seq(Object),
         rx_hdr \in [ObjRecv!Pos -> ObjHeader], rxb_tail \in ObjRecv!Pos,
         NEW sm \in [0..Len(live) -> Nat], NEW rc \in 0..ObjMost, NEW rem \in 0..ObjLen,
         NEW hh \in 0..ObjMost,
         Ends(live, sm, rxb_tail), Arrived(live, sm, rc, rem), Given(live, sm, hh, rx_held, rx_hdr),
         hh <= rc, rxb_head = ObjRecv!Off(rxb_tail, hh), NEW w \in 1..Len(live), sm[w] <= hh,
         \A i \in 2..w : live[i].done, w < Len(live) => ~live[w + 1].done
  PROVE  ObjRecv!RunEnd[ObjLen] = ObjRecv!Off(rxb_tail, sm[w])
<1>1. /\ ObjLen \in Nat /\ ObjMost \in Nat /\ ObjMost < ObjLen /\ rc \in Nat /\ rc <= ObjMost
      /\ hh \in Nat /\ hh < ObjLen /\ Len(live) \in Nat /\ w \in Nat /\ w > 0 /\ w <= Len(live)
  BY DEF ObjRecv!ObjRecvAssumption, MostFits
<1>2. \A i, j \in 0..Len(live) : i < j => sm[i] < sm[j]
  BY Increasing
<1>3. sm[0] = 0 /\ w \in 0..Len(live) /\ sm[w] \in Nat /\ w <= sm[w]
  <2>1. sm[0] = 0 /\ 0 \in 0..Len(live) /\ w \in 0..Len(live) /\ 0 < w
    BY <1>1 DEF Ends
  <2>2. sm[0] + (w - 0) <= sm[w]
    BY <2>1 DEF Ends
  <2>3. sm[w] \in Nat
    BY <2>1
  <2> QED BY <1>1, <2>1, <2>2, <2>3
<1>4. w < ObjLen /\ sm[w] < ObjLen
  BY <1>1, <1>3
\* The end of the i-th object, i at most w.
<1>5. ASSUME NEW i \in 1..w
      PROVE  /\ i \in 1..Len(live) /\ sm[i] \in Nat /\ sm[i - 1] \in Nat /\ sm[i] <= sm[w]
             /\ sm[i - 1] < sm[i]
             /\ live[i].pos = ObjRecv!Off(rxb_tail, sm[i - 1]) /\ rx_hdr[live[i].pos].len = live[i].len
             /\ rx_hdr[live[i].pos].done = live[i].done
             /\ ObjRecv!Off(live[i].pos, live[i].len) = ObjRecv!Off(rxb_tail, sm[i])
  <2>1. i \in 1..Len(live) /\ i \in 0..Len(live) /\ (i = w \/ i < w)
    BY <1>1
  <2>a. PICK ob \in Seq(Object) : ob = live
    OBVIOUS
  <2>b. PICK tl \in ObjRecv!Pos : tl = rxb_tail
    OBVIOUS
  <2>c. Ends(ob, sm, tl) /\ Arrived(ob, sm, rc, rem) /\ i \in 1..Len(ob) /\ sm \in [0..Len(ob) -> Nat]
    BY <2>1, <2>a, <2>b
  <2>d. /\ sm[i - 1] \in Nat /\ sm[i] \in Nat /\ sm[i - 1] < rc /\ sm[i - 1] < sm[i]
        /\ ob[i].len \in 1..ObjLen /\ sm[i] = sm[i - 1] + ob[i].len
        /\ ob[i].pos = ObjRecv!Off(tl, sm[i - 1])
    BY <2>c, Starts, SMTT(30)
  <2>2. /\ sm[i - 1] \in Nat /\ sm[i] \in Nat /\ sm[i - 1] < rc /\ sm[i - 1] < sm[i]
        /\ live[i].len \in 1..ObjLen /\ sm[i] = sm[i - 1] + live[i].len
        /\ live[i].pos = ObjRecv!Off(rxb_tail, sm[i - 1])
    BY <2>a, <2>b, <2>d
  <2>3. sm[i] <= sm[w]
    BY <1>2, <1>3, <2>1, <2>2
  <2>4. rx_hdr[live[i].pos].len = live[i].len /\ rx_hdr[live[i].pos].done = live[i].done
    BY <2>1 DEF Given
  <2>5. PICK a \in 0..ObjLen, b \in 0..ObjLen, ln \in 0..ObjLen :
          a = sm[i - 1] /\ b = sm[i] /\ ln = live[i].len
    <3>1. sm[i - 1] <= ObjLen /\ sm[i] <= ObjLen
      BY <1>1, <1>3, <1>4, <2>2, <2>3, SMTT(30)
    <3>2. sm[i - 1] \in 0..ObjLen /\ sm[i] \in 0..ObjLen /\ live[i].len \in 0..ObjLen
      BY <1>1, <2>2, <3>1, SMTT(30)
    <3> QED BY <3>2
  <2>6. b = a + ln
    BY <2>2, <2>5
  <2>7. ObjRecv!Off(ObjRecv!Off(rxb_tail, a), ln) = ObjRecv!Off(rxb_tail, b)
    BY <2>6, OffSum
  <2> QED BY <2>1, <2>2, <2>3, <2>4, <2>5, <2>7
<1> DEFINE At(i) == IF i + 1 <= w THEN sm[i + 1] ELSE sm[w]
           v == [i \in 0..ObjLen |-> ObjRecv!Off(rxb_tail, At(i))]
           Stops(x) == x = rxb_head \/ ~rx_hdr[x].done
           Rec(u) == u = [k \in 0..ObjLen |-> IF k = 0 THEN ObjRecv!Off(rxb_tail, rx_hdr[rxb_tail].len)
                            ELSE LET e == u[k - 1]
                                 IN IF e = rxb_head \/ ~rx_hdr[e].done THEN e ELSE ObjRecv!Off(e, rx_hdr[e].len)]
\* Where the loop goes on.
<1>6. ASSUME NEW i \in 1..w - 1
      PROVE  /\ ~Stops(ObjRecv!Off(rxb_tail, sm[i]))
             /\ ObjRecv!Off(ObjRecv!Off(rxb_tail, sm[i]), rx_hdr[ObjRecv!Off(rxb_tail, sm[i])].len) = ObjRecv!Off(rxb_tail, sm[i + 1])
  <2>0. i + 1 \in 1..w /\ i + 1 - 1 = i /\ i + 1 \in 2..w /\ i \in 1..w
    BY <1>1
  <2>1. PICK j \in 1..w : j = i + 1 /\ j - 1 = i /\ j \in 2..w
    BY <2>0
  <2>2. /\ sm[j] \in Nat /\ sm[i] \in Nat /\ sm[j] <= sm[w] /\ sm[i] < sm[j]
        /\ live[j].pos = ObjRecv!Off(rxb_tail, sm[i])
        /\ rx_hdr[live[j].pos].len = live[j].len /\ rx_hdr[live[j].pos].done = live[j].done
        /\ ObjRecv!Off(live[j].pos, live[j].len) = ObjRecv!Off(rxb_tail, sm[j])
    <3>1. /\ sm[j] \in Nat /\ sm[j - 1] \in Nat /\ sm[j] <= sm[w] /\ sm[j - 1] < sm[j]
          /\ live[j].pos = ObjRecv!Off(rxb_tail, sm[j - 1])
          /\ rx_hdr[live[j].pos].len = live[j].len /\ rx_hdr[live[j].pos].done = live[j].done
          /\ ObjRecv!Off(live[j].pos, live[j].len) = ObjRecv!Off(rxb_tail, sm[j])
      BY <1>5
    <3> QED BY <2>1, <3>1
  <2>3. live[j].done
    BY <2>1
  <2>4. PICK a \in 0..ObjLen : a = sm[i] /\ a < ObjLen /\ a # hh
    BY <1>1, <1>3, <2>2
  <2>5. ObjRecv!Off(rxb_tail, a) # ObjRecv!Off(rxb_tail, hh)
    BY <1>1, <2>4, OffDiffers
  <2> QED BY <2>1, <2>2, <2>3, <2>4, <2>5
\* Where it stops.
<1>7. Stops(ObjRecv!Off(rxb_tail, sm[w]))
  <2>1. CASE w = Len(live)
    <3>1. sm[w] = rc + rem
      BY <2>1 DEF Arrived
    <3>2. sm[w] = hh
      BY <1>1, <1>3, <3>1
    <3> QED BY <3>2
  <2>2. CASE w < Len(live)
    <3>1. w + 1 \in 1..Len(live) /\ w + 1 - 1 = w
      BY <1>1, <2>2
    <3> PICK j : j = w + 1
      OBVIOUS
    <3>2. live[j].pos = ObjRecv!Off(rxb_tail, sm[j - 1]) /\ rx_hdr[live[j].pos].done = live[j].done
      BY <3>1 DEF Ends, Given
    <3> QED BY <2>2, <3>1, <3>2
  <2> QED BY <1>1, <2>1, <2>2
<1>8. v[0] = ObjRecv!Off(rxb_tail, rx_hdr[rxb_tail].len)
  <2>1. 1 \in 1..w /\ 1 - 1 = 0 /\ 0 + 1 = 1 /\ 1 <= w
    BY <1>1
  <2>2. /\ live[1].pos = ObjRecv!Off(rxb_tail, sm[0]) /\ rx_hdr[live[1].pos].len = live[1].len
        /\ ObjRecv!Off(live[1].pos, live[1].len) = ObjRecv!Off(rxb_tail, sm[1])
    BY <1>5, <2>1
  <2>3. ObjRecv!Off(rxb_tail, 0) = rxb_tail
    BY <1>1 DEF ObjRecv!Off, ObjRecv!Pos
  <2>4. v[0] = ObjRecv!Off(rxb_tail, At(0)) /\ At(0) = sm[1]
    BY <1>1, <2>1
  <2> HIDE DEF v, At
  <2> QED BY <1>3, <2>2, <2>3, <2>4
<1>9. ASSUME NEW i \in 1..ObjLen
      PROVE  v[i] = IF Stops(v[i - 1]) THEN v[i - 1] ELSE ObjRecv!Off(v[i - 1], rx_hdr[v[i - 1]].len)
  <2>1. v[i] = ObjRecv!Off(rxb_tail, At(i)) /\ v[i - 1] = ObjRecv!Off(rxb_tail, At(i - 1))
        /\ i - 1 + 1 = i /\ i \in Nat
    BY <1>1
  <2>2. CASE i + 1 <= w
    <3>1. At(i) = sm[i + 1] /\ At(i - 1) = sm[i] /\ i \in 1..w - 1
      BY <1>1, <2>1, <2>2
    <3> HIDE DEF v, At, Stops
    <3> QED BY <1>6, <2>1, <3>1
  <2>3. CASE ~(i + 1 <= w)
    <3>1. At(i) = sm[w] /\ At(i - 1) = sm[w]
      BY <1>1, <2>1, <2>3
    <3> HIDE DEF v, At, Stops
    <3> QED BY <1>7, <2>1, <3>1
  <2> QED BY <2>2, <2>3
<1>10. Rec(v)
  <2>1. v = [i \in 0..ObjLen |-> v[i]]
    OBVIOUS
  <2>2. \A i \in 0..ObjLen : i # 0 => i \in 1..ObjLen
    BY <1>1
  <2> HIDE DEF v, At
  <2> QED BY <1>8, <1>9, <2>1, <2>2
<1>11. Rec(ObjRecv!RunEnd)
  <2>1. ObjRecv!RunEnd = CHOOSE u : Rec(u)
    BY DEF ObjRecv!RunEnd
  <2> HIDE DEF Rec, v, At
  <2> QED BY <1>10, <2>1
<1>12. \A i \in 0..ObjLen : ObjRecv!RunEnd[i] = v[i]
  <2> DEFINE T == {i \in 0..ObjLen : ObjRecv!RunEnd[i] # v[i]}
  <2> SUFFICES ASSUME T # {} PROVE FALSE
    OBVIOUS
  <2>1. PICK i \in T : \A j \in T : i <= j
    <3>1. T \subseteq Nat
      OBVIOUS
    <3> HIDE DEF T
    <3> QED BY <3>1, SmallestNat
  <2> DEFINE W == ObjRecv!RunEnd
  <2>2. \A k \in 0..ObjLen : W[k] = IF k = 0 THEN ObjRecv!Off(rxb_tail, rx_hdr[rxb_tail].len)
          ELSE IF Stops(W[k - 1]) THEN W[k - 1] ELSE ObjRecv!Off(W[k - 1], rx_hdr[W[k - 1]].len)
    <3> HIDE DEF W, v, At
    <3>1. Rec(W)
      BY <1>11 DEF W
    <3> QED BY <3>1
  <2>3. i \in 0..ObjLen /\ W[i] # v[i]
    OBVIOUS
  <2>4. i # 0 => W[i - 1] = v[i - 1] /\ i \in 1..ObjLen
    <3>1. i # 0 => i - 1 \in 0..ObjLen /\ ~(i <= i - 1) /\ i \in 1..ObjLen
      BY <2>3, <1>1
    <3> QED BY <2>1, <3>1
  <2> HIDE DEF W, v, T, Rec, At, Stops
  <2> QED BY <1>8, <1>9, <2>2, <2>3, <2>4
<1>13. v[ObjLen] = ObjRecv!Off(rxb_tail, sm[w])
  <2>1. ObjLen \in 0..ObjLen /\ ~(ObjLen + 1 <= w)
    BY <1>1, <1>4
  <2> QED BY <2>1
<1> HIDE DEF v
<1> QED BY <1>1, <1>12, <1>13

\* Differences to a common start.
LEMMA FromStart ==
  ASSUME NEW x \in Nat, NEW y \in Nat, NEW z \in Nat, NEW u \in Nat, y + u <= z
  PROVE  y - x \in Int /\ (y - x) + u <= z - x /\ y <= z
OBVIOUS

\* What is left in the buffer when the objects before f are dropped.
LEMMA BufferDrop ==
  ASSUME ObjRecv!ObjRecvAssumption, MostFits, NEW ob \in Seq(Object), NEW ps \in ObjRecv!Pos,
         NEW av \in 0..ObjLen, NEW hd,
         NEW tl \in ObjRecv!Pos, NEW nt \in ObjRecv!Pos, NEW rem \in 0..ObjLen,
         NEW rc \in 0..ObjMost, NEW hh \in 0..ObjMost, NEW sm \in [0..Len(ob) -> Nat],
         Ends(ob, sm, tl), Arrived(ob, sm, rc, rem), FilledFrom(ps, tl, nt, rc, av), hh <= rc, hd = ObjRecv!Off(tl, hh),
         NEW lb, NEW o, MarkedAt(ob, lb, o), NEW f, FirstLeft(lb, f), NEW hl, NEW hds,
         Left(ob, lb, f, sm, hh, hl, hds), NEW nb, nb = SubSeq(lb, f, Len(lb))
  PROVE  ObjRecv!Off(tl, sm[f - 1]) \in ObjRecv!Pos
         /\ Buffer(nb, hl, hds, ps, av, rem, hd, ObjRecv!Off(tl, sm[f - 1]), nt)
<1>1. /\ ObjLen \in Nat /\ ObjMost \in Nat /\ ObjMost < ObjLen /\ rc \in Nat /\ rc <= ObjMost
      /\ av \in Nat
      /\ hh \in Nat /\ hh < ObjLen /\ Len(ob) \in Nat /\ rem \in Nat
  BY DEF ObjRecv!ObjRecvAssumption, MostFits
<1>a. /\ lb \in Seq(Object) /\ Len(lb) = Len(ob)
      /\ \A i \in 1..Len(ob) : lb[i].pos = ob[i].pos /\ lb[i].len = ob[i].len
  BY DEF MarkedAt
<1>b. /\ \A i \in 1..Len(ob) : lb[i].done \/ lb[i].pos \in hl => sm[i] <= hh
      /\ \A i \in f..Len(ob) : hds[lb[i].pos].len = lb[i].len /\ hds[lb[i].pos].done = lb[i].done
      /\ \A z \in hl : \E i \in 1..Len(ob) : lb[i].pos = z /\ ~lb[i].done
  BY DEF Left
<1>0. f \in 1..Len(ob) + 1 /\ (f = Len(ob) + 1 \/ ~lb[f].done) /\ \A j \in 1..f - 1 : lb[j].done
  BY <1>a DEF FirstLeft
<1>k. PICK k \in Nat : k = Len(ob)
  BY <1>1
<1>d. PICK d \in 0..k : d = f - 1 /\ f = d + 1
  BY <1>0, <1>k
<1>2. f \in 1..k + 1 /\ d \in 0..k /\ k \in Nat /\ f = d + 1 /\ d \in Nat
  BY <1>0, <1>k, <1>d
<1>3. (f = k + 1 \/ ~lb[f].done) /\ \A j \in 1..d : lb[j].done
  BY <1>0, <1>k, <1>d
<1>4. sm[d] \in Nat /\ sm[d] <= hh
  <2>1. d = 0 \/ (d \in 1..d /\ d \in 1..k)
    BY <1>2
  <2>2. d = 0 => sm[d] = 0
    BY DEF Ends
  <2>3. sm[d] \in Nat
    BY <1>2, <1>k
  <2>4. d # 0 => sm[d] <= hh
    BY <1>3, <1>b, <1>k, <2>1
  <2> QED BY <1>1, <2>2, <2>3, <2>4
<1>x. PICK x \in Nat : x = sm[d]
  BY <1>4
<1>m. PICK m \in Nat : k = d + m /\ m = k - d
  BY <1>2
<1>5. /\ m \in Nat /\ Len(nb) = m /\ k = d + m
      /\ \A i \in 1..m : nb[i] = lb[d + i] /\ d + i \in 1..k /\ d + i \in f..k /\ d + i \in 0..k
  <2>1. nb = SubSeq(lb, d + 1, k) /\ m \in Nat /\ k = d + m /\ k = Len(lb)
    BY <1>2, <1>a, <1>k, <1>m
  <2>2. Len(nb) = m /\ \A i \in 1..m : nb[i] = lb[d + i]
    BY <1>2, <1>a, <2>1
  <2>3. \A i \in 1..m : d + i \in 1..k /\ d + i \in f..k /\ d + i \in 0..k
    BY <1>2, <1>m
  <2> QED BY <2>1, <2>2, <2>3
<1>6. sm \in [0..k -> Nat] /\ \A i, j \in 0..k : i < j => sm[i] + (j - i) <= sm[j]
  BY <1>k DEF Ends
<1> DEFINE ns == [i \in 0..m |-> sm[d + i] - x]
<1>7. /\ ns \in [0..m -> Nat]
      /\ \A i \in 0..m : ns[i] = sm[d + i] - x /\ d + i \in 0..k /\ sm[d + i] \in Nat /\ x <= sm[d + i]
  <2>1. ASSUME NEW i \in 0..m PROVE d + i \in 0..k /\ sm[d + i] \in Nat /\ x <= sm[d + i]
    <3>1. PICK j \in 0..k : j = d + i /\ (j = d \/ d < j)
      BY <1>2, <1>m
    <3>2. sm[j] \in Nat
      BY <1>6
    <3>3. d < j => x + (j - d) <= sm[j]
      BY <1>2, <1>6, <1>x
    <3>4. x <= sm[j]
      <4>1. CASE j = d
        BY <1>x, <4>1
      <4>2. CASE d < j
        <5>1. PICK z \in Nat : z = sm[j]
          BY <3>2
        <5>2. PICK u \in Nat : u = j - d
          BY <1>2, <4>2
        <5>3. x + u <= z
          BY <3>3, <4>2, <5>1, <5>2
        <5>4. x <= z
          BY <5>3, FromStart
        <5> QED BY <5>1, <5>4
      <4> QED BY <3>1, <4>1, <4>2
    <3> QED BY <3>1, <3>2, <3>4
  <2>2. ASSUME NEW i \in 0..m PROVE sm[d + i] - x \in Nat
    <3>1. sm[d + i] \in Nat /\ x <= sm[d + i]
      BY <2>1
    <3> QED BY <3>1
  <2> QED BY <2>1, <2>2
<1> HIDE DEF ns
<1>8. x \in Nat /\ x <= hh /\ x <= rc /\ hh - x \in 0..ObjMost /\ rc - x \in 0..ObjMost
      /\ hh - x <= rc - x
      /\ x \in 0..ObjLen
  <2>1. x <= hh
    BY <1>4, <1>x
  <2> QED BY <1>1, <2>1
<1>9. ObjRecv!Off(tl, x) \in ObjRecv!Pos
  BY <1>8, OffIs
<1>10. Ends(nb, ns, ObjRecv!Off(tl, x))
  <2>1. ns[0] = 0
    <3>1. 0 \in 0..m /\ d + 0 = d
      BY <1>2
    <3>2. ns[0] = sm[d] - x /\ sm[d] = x
      BY <1>7, <1>x, <3>1
    <3> QED BY <1>8, <3>2
  <2>2. ASSUME NEW i \in 1..m
        PROVE  ns[i] = ns[i - 1] + nb[i].len /\ nb[i].pos = ObjRecv!Off(ObjRecv!Off(tl, x), ns[i - 1])
    <3>1. i \in 0..m /\ i - 1 \in 0..m
      BY <1>m
    <3>j. PICK j \in 1..k : j = d + i /\ j - 1 = d + (i - 1)
      <4>1. d + i \in 1..k /\ d + i - 1 = d + (i - 1)
        BY <1>2, <1>5
      <4> QED BY <4>1
    <3>2. ns[i] = sm[j] - x /\ ns[i - 1] = sm[j - 1] - x /\ nb[i] = lb[j] /\ ns[i - 1] \in Nat
      BY <1>5, <1>7, <3>1, <3>j
    <3>k. j \in 1..Len(ob)
      BY <1>k
    <3>3. /\ sm[j - 1] \in Nat /\ sm[j] \in Nat /\ sm[j - 1] < rc /\ ob[j].len \in 1..ObjLen
          /\ sm[j] = sm[j - 1] + ob[j].len /\ ob[j].pos = ObjRecv!Off(tl, sm[j - 1])
      BY <3>k, Starts
    <3>4. nb[i].len = ob[j].len /\ nb[i].pos = ob[j].pos
      BY <1>a, <3>2, <3>k
    <3>5. PICK a \in 0..ObjLen, y \in 0..ObjLen, ln \in 1..ObjLen :
            a = sm[j - 1] /\ y = ns[i - 1] /\ ln = ob[j].len /\ y = a - x
      <4>1. sm[j - 1] \in 0..ObjLen
        BY <1>1, <3>3, SMTT(30)
      <4>2. ns[i - 1] \in 0..ObjLen
        <5>1. PICK a \in 0..ObjLen : a = sm[j - 1]
          BY <4>1
        <5>2. PICK y \in Nat : y = ns[i - 1]
          BY <3>2
        <5>3. y = a - x
          BY <3>2, <5>1, <5>2
        <5>4. y \in 0..ObjLen
          BY <1>1, <5>3
        <5> QED BY <5>2, <5>4
      <4> QED BY <3>2, <3>3, <4>1, <4>2
    <3>6. ObjRecv!Off(ObjRecv!Off(tl, x), y) = ObjRecv!Off(tl, a)
      <4>1. a = x + y
        BY <1>1, <1>8, <3>5, SMTT(30)
      <4> QED BY <1>8, <4>1, OffSum
    <3>7. ns[i] = y + ln
      <4>1. ns[i] = (a + ln) - x /\ y = a - x
        BY <3>2, <3>3, <3>5
      <4>2. a \in Int /\ ln \in Int /\ x \in Int
        BY <1>1
      <4> QED BY <4>1, <4>2
    <3> QED BY <3>3, <3>4, <3>5, <3>6, <3>7
  <2>3. ASSUME NEW i \in 0..m, NEW j \in 0..m, i < j PROVE ns[i] + (j - i) <= ns[j]
    <3>1. PICK a \in 0..k, b \in 0..k : a = d + i /\ b = d + j /\ a < b /\ b - a = j - i
      <4>1. d + i \in 0..k /\ d + j \in 0..k /\ d + i < d + j /\ (d + j) - (d + i) = j - i
        BY <1>2, <1>m, <2>3
      <4> QED BY <4>1
    <3>2. sm[a] + (b - a) <= sm[b]
      BY <1>6, <3>1
    <3>3. ns[i] = sm[a] - x /\ ns[j] = sm[b] - x /\ sm[a] \in Nat /\ sm[b] \in Nat
      BY <1>6, <1>7, <3>1
    <3>4. PICK y \in Nat, z \in Nat : y = sm[a] /\ z = sm[b]
      BY <3>3
    <3>5. PICK u \in Nat : u = j - i
      BY <2>3
    <3>6. y + u <= z /\ ns[i] = y - x /\ ns[j] = z - x
      BY <3>1, <3>2, <3>3, <3>4, <3>5
    <3>7. (y - x) + u <= z - x
      BY <3>6, FromStart
    <3> QED BY <3>5, <3>6, <3>7
  <2> QED BY <1>5, <2>1, <2>2, <2>3 DEF Ends
<1>11. Arrived(nb, ns, rc - x, rem)
  <2>1. ns[m] = sm[k] - x /\ sm[k] = rc + rem /\ sm[k] \in Nat
    <3>1. m \in 0..m /\ d + m = k /\ k \in 0..k
      BY <1>2, <1>m
    <3> QED BY <1>6, <1>7, <1>k, <3>1 DEF Arrived
  <2>2. ns[m] = (rc - x) + rem
    BY <1>1, <1>8, <2>1
  <2>3. CASE m = 0
    <3>1. sm[k] = x
      BY <1>m, <1>x, <1>2, <2>3
    <3>2. rem = 0
      BY <1>1, <1>8, <2>1, <3>1
    <3> QED BY <1>5, <2>2, <2>3, <3>2 DEF Arrived
  <2>4. CASE m # 0
    <3>1. m - 1 \in 0..m /\ d + (m - 1) = k - 1 /\ k # 0
      BY <1>2, <1>m, <2>4
    <3>2. ns[m - 1] = sm[k - 1] - x /\ sm[k - 1] \in Nat /\ sm[k - 1] < rc
      BY <1>7, <1>k, <3>1 DEF Arrived
    <3>4. PICK y \in Nat : y = sm[k - 1]
      BY <3>2
    <3>3. ns[m - 1] < rc - x
      BY <1>1, <1>8, <3>2, <3>4
    <3> QED BY <1>5, <2>2, <2>4, <3>3 DEF Arrived
  <2> QED BY <2>3, <2>4
<1>12. Given(nb, ns, hh - x, hl, hds)
  <2>1. \A i \in 1..m : hds[nb[i].pos].len = nb[i].len /\ hds[nb[i].pos].done = nb[i].done
    <3>1. \A i \in f..k : hds[lb[i].pos].len = lb[i].len /\ hds[lb[i].pos].done = lb[i].done
      BY <1>b, <1>k
    <3>2. ASSUME NEW i \in 1..m PROVE hds[nb[i].pos].len = nb[i].len /\ hds[nb[i].pos].done = nb[i].done
      <4>1. PICK j \in f..k : j = d + i /\ nb[i] = lb[j]
        BY <1>5
      <4> QED BY <3>1, <4>1
    <3> QED BY <3>2
  <2>2. ASSUME NEW i \in 1..m, nb[i].done \/ nb[i].pos \in hl PROVE ns[i] <= hh - x
    <3>j. PICK j \in 1..k : j = d + i
      BY <1>5
    <3>0. i \in 0..m
      OBVIOUS
    <3>1. nb[i] = lb[j] /\ ns[i] = sm[j] - x /\ sm[j] \in Nat
      BY <1>5, <1>7, <3>0, <3>j
    <3>2. sm[j] <= hh
      BY <1>b, <1>k, <2>2, <3>1
    <3> QED BY <1>1, <1>8, <3>1, <3>2
  <2>3. m > 0 => ~nb[1].done
    <3>1. m > 0 => 1 \in 1..m /\ d + 1 = f /\ f # k + 1
      BY <1>2, <1>5
    <3> QED BY <1>3, <1>5, <3>1
  <2>4. ASSUME NEW z \in hl PROVE \E i \in 1..m : nb[i].pos = z /\ ~nb[i].done
    <3>1. PICK j \in 1..k : lb[j].pos = z /\ ~lb[j].done
      BY <1>b, <1>k
    <3>2. j \notin 1..d
      BY <1>3, <3>1
    <3>3. PICK i \in 1..m : d + i = j
      <4>1. j - d \in 1..m /\ d + (j - d) = j
        BY <1>2, <1>m, <3>2
      <4> QED BY <4>1
    <3>4. nb[i] = lb[j]
      BY <1>5, <3>3
    <3> QED BY <3>1, <3>4
  <2> QED BY <1>5, <2>1, <2>2, <2>3, <2>4 DEF Given
<1>13. FilledFrom(ps, ObjRecv!Off(tl, x), nt, rc - x, av)
  <2>1. ps = ObjRecv!Off(tl, rc) /\ rc + av <= ObjLen /\ ObjLen - av <= ObjMost
        /\ tl = ObjRecv!Off(nt, ObjLen - av - rc)
    BY DEF FilledFrom
  <2>2. ObjRecv!Off(ObjRecv!Off(tl, x), rc - x) = ObjRecv!Off(tl, rc)
    <3>y. PICK y \in 0..ObjLen : y = rc - x
      BY <1>1, <1>8
    <3>1. rc = x + y /\ rc \in 0..ObjLen
      BY <1>1, <1>8, <3>y
    <3> QED BY <1>8, <3>1, <3>y, OffSum
  <2>3. ObjRecv!Off(tl, x) = ObjRecv!Off(nt, ObjLen - av - (rc - x))
    <3>a. PICK g \in 0..ObjLen, y \in 0..ObjLen : g = ObjLen - av - rc /\ y = ObjLen - av - (rc - x)
      <4>1. ObjLen - av - rc \in 0..ObjLen
        BY <1>1, <2>1
      <4>2. ObjLen - av - (rc - x) \in 0..ObjLen
        BY <1>1, <1>8, <2>1
      <4> QED BY <4>1, <4>2
    <3>1. y = g + x
      BY <1>1, <1>8, <3>a
    <3> QED BY <1>8, <2>1, <3>a, <3>1, OffSum
  <2>4. rc - x + av <= ObjLen
    BY <1>1, <1>8, <2>1
  <2> QED BY <2>1, <2>2, <2>3, <2>4 DEF FilledFrom
<1>14. hd = ObjRecv!Off(ObjRecv!Off(tl, x), hh - x)
  <2>y. PICK y \in 0..ObjLen : y = hh - x
    BY <1>1, <1>8
  <2>1. hh = x + y /\ hh \in 0..ObjLen
    BY <1>1, <1>8, <2>y
  <2> QED BY <1>8, <2>1, <2>y, OffSum
<1> QED BY <1>5, <1>7, <1>8, <1>9, <1>10, <1>11, <1>12, <1>13, <1>14, <1>d, <1>x DEF Buffer

LEMMA BufferReturn ==
  ASSUME ObjRecv!ObjRecvAssumption, MostFits, ObjTypes,
         Buffer(live, rx_held, rx_hdr, pos, obj_avail, objrem, rxb_head, rxb_tail, rxb_nictail), NEW p \in rx_held,
         NEW tl, NEW hds,
         IF p = rxb_tail THEN tl = ObjRecv!RunEnd[ObjLen] /\ hds = rx_hdr
                         ELSE tl = rxb_tail /\ hds = [rx_hdr EXCEPT ![p].done = TRUE]
  PROVE  /\ tl \in ObjRecv!Pos /\ hds \in [ObjRecv!Pos -> ObjHeader]
         /\ \A z \in ObjRecv!Pos : hds[z].len = rx_hdr[z].len
         /\ ObjRecv!Returned(p) \in Seq(Object)
         /\ Buffer(ObjRecv!Returned(p), rx_held \ {p}, hds, pos, obj_avail, objrem, rxb_head, tl, rxb_nictail)
         /\ \A z : Open(live, rx_held, z) => Open(ObjRecv!Returned(p), rx_held \ {p}, z)
         /\ objrem > 0 => ObjRecv!Returned(p)[Len(ObjRecv!Returned(p))].pos = live[Len(live)].pos
<1>1. PICK rc \in 0..ObjMost, hh \in 0..ObjMost, sm \in [0..Len(live) -> Nat] :
    /\ Ends(live, sm, rxb_tail) /\ Arrived(live, sm, rc, objrem) /\ Given(live, sm, hh, rx_held, rx_hdr)
    /\ FilledFrom(pos, rxb_tail, rxb_nictail, rc, obj_avail) /\ hh <= rc
    /\ rxb_head = ObjRecv!Off(rxb_tail, hh)
  BY DEF Buffer
<1>2. /\ ObjLen \in Nat /\ ObjMost \in Nat /\ ObjMost < ObjLen /\ rc \in Nat /\ rc <= ObjMost
      /\ hh \in Nat /\ hh < ObjLen /\ live \in Seq(Object) /\ Len(live) \in Nat
      /\ rx_hdr \in [ObjRecv!Pos -> ObjHeader]
      /\ rxb_tail \in ObjRecv!Pos /\ objrem \in 0..ObjLen /\ rx_held \subseteq ObjRecv!Pos
      /\ p \in ObjRecv!Pos
      /\ pos \in ObjRecv!Pos /\ obj_avail \in 0..ObjLen /\ rxb_nictail \in ObjRecv!Pos
  BY DEF ObjRecv!ObjRecvAssumption, MostFits, ObjTypes
<1>k. PICK k \in Nat : k = Len(live)
  BY <1>2
<1>3. PICK o \in 1..k : live[o].pos = p /\ ~live[o].done
  BY <1>1, <1>k DEF Given
<1>4. \A i \in 1..Len(live) : live[i].pos = p => i = o
  BY <1>1, <1>2, <1>3, <1>k, PlacesDiffer
<1>5. PICK lb : lb = Marked(live, p)
  OBVIOUS
<1>6. /\ lb \in Seq(Object) /\ Len(lb) = k
      /\ \A i \in 1..k : /\ lb[i].pos = live[i].pos /\ lb[i].len = live[i].len
                         /\ lb[i].done <=> (live[i].done \/ i = o)
  <2>1. o \in 1..Len(live) /\ live[o].pos = p
    BY <1>3, <1>k
  <2>2. MarkedAt(live, Marked(live, p), o)
    BY <1>2, <1>4, <2>1, MarkedIs
  <2>3. MarkedAt(live, lb, o)
    BY <1>5, <2>2
  <2> QED BY <1>k, <2>3 DEF MarkedAt
<1>7. PICK f : FirstLeft(lb, f) /\ ObjRecv!Returned(p) = SubSeq(lb, f, k)
  <2>1. lb \in Seq(Object) /\ lb = Marked(live, p) /\ live \in Seq(Object)
    BY <1>2, <1>5, <1>6
  <2>2. \E f : FirstLeft(lb, f) /\ ObjRecv!Returned(p) = SubSeq(lb, f, Len(lb))
    BY <2>1, ReturnedIs
  <2> QED BY <1>6, <2>2
<1>8. f \in 1..k + 1 /\ (f = k + 1 \/ ~lb[f].done) /\ \A j \in 1..f - 1 : lb[j].done
  BY <1>6, <1>7 DEF FirstLeft
<1>9. \A i \in 1..k : live[i].pos \in ObjRecv!Pos /\ sm[i] \in Nat
  <2>1. \A i \in 1..k : live[i] \in Object /\ i \in 0..Len(live)
    BY <1>2, <1>k
  <2> QED BY <2>1 DEF Object
<1>10. \A i \in 1..k : lb[i].done \/ lb[i].pos \in rx_held => sm[i] <= hh
  BY <1>1, <1>3, <1>6, <1>k DEF Given
<1>11. \A z \in rx_held \ {p} : \E i \in 1..k : lb[i].pos = z /\ ~lb[i].done
  BY <1>1, <1>3, <1>6, <1>k, SMTT(30) DEF Given
<1>12. sm[0] = 0 /\ ObjRecv!Off(rxb_tail, 0) = rxb_tail /\ 0 \in 0..k
  BY <1>1, <1>2, <1>k DEF Ends, ObjRecv!Off, ObjRecv!Pos
\* The object at the tail is the first.
<1>13. p = rxb_tail <=> o = 1
  <2>1. live[1].pos = ObjRecv!Off(rxb_tail, sm[0])
    <3>1. 1 \in 1..Len(live) /\ 1 - 1 = 0
      BY <1>3, <1>k
    <3> QED BY <1>1, <3>1 DEF Ends
  <2>2. 1 \in 1..k
    BY <1>3
  <2> QED BY <1>3, <1>4, <1>12, <1>k, <2>1, <2>2
<1>14. /\ tl = ObjRecv!Off(rxb_tail, sm[f - 1]) /\ hds \in [ObjRecv!Pos -> ObjHeader]
       /\ \A z \in ObjRecv!Pos : hds[z].len = rx_hdr[z].len
       /\ \A i \in f..k : hds[lb[i].pos].done = lb[i].done
  <2>1. CASE p = rxb_tail
    <3>1. o = 1 /\ f \in 2..k + 1
      <4>1. o = 1 /\ lb[1].done /\ 1 \in 1..k
        BY <1>3, <1>6, <1>13, <2>1
      <4>2. f # 1
        BY <1>8, <4>1
      <4> QED BY <1>8, <4>1, <4>2
    <3>2. PICK w \in 1..k : w = f - 1 /\ f = w + 1
      BY <3>1
    <3>3. sm[w] <= hh
      BY <1>8, <1>10, <3>2
    <3>4. \A i \in 2..w : live[i].done
      <4>1. ASSUME NEW i \in 2..w PROVE live[i].done
        <5>1. i \in 1..f - 1 /\ i \in 1..k /\ i # o
          BY <3>1, <3>2
        <5>2. lb[i].done /\ (lb[i].done <=> live[i].done \/ i = o)
          BY <1>6, <1>8, <5>1
        <5> QED BY <5>1, <5>2
      <4> QED BY <4>1
    <3>5. w < k => ~live[w + 1].done
      <4>1. w < k => f # k + 1 /\ f \in 1..k
        BY <3>2
      <4> QED BY <1>6, <1>8, <3>2, <4>1
    <3>6. w \in 1..Len(live) /\ (w < Len(live) => ~live[w + 1].done)
      BY <1>k, <3>5
    <3>7. ObjRecv!RunEnd[ObjLen] = ObjRecv!Off(rxb_tail, sm[w])
      BY <1>1, <1>2, <3>3, <3>4, <3>6, RunEndIs
    <3>8. ASSUME NEW i \in f..k PROVE hds[lb[i].pos].done = lb[i].done
      <4>1. i \in 1..k /\ i # o
        BY <3>1
      <4>2. lb[i].pos = live[i].pos /\ rx_hdr[live[i].pos].done = live[i].done
            /\ (lb[i].done <=> live[i].done)
        BY <1>1, <1>6, <1>k, <4>1 DEF Given
      <4>3. lb[i].done \in BOOLEAN /\ live[i].done \in BOOLEAN
        <5>1. lb[i] \in Object /\ live[i] \in Object
          BY <1>2, <1>6, <1>k, <4>1
        <5> QED BY <5>1 DEF Object
      <4> QED BY <2>1, <4>2, <4>3
    <3> QED BY <1>2, <2>1, <3>2, <3>7, <3>8
  <2>2. CASE p # rxb_tail
    <3>1. o # 1 /\ f = 1
      <4>1. o # 1 /\ 1 \in 1..k /\ ~lb[1].done
        BY <1>1, <1>3, <1>6, <1>13, <1>k, <2>2 DEF Given
      <4>2. ~(1 \in 1..f - 1)
        BY <1>8, <4>1
      <4> QED BY <1>8, <4>1, <4>2
    <3>2. rx_hdr[p] \in ObjHeader /\ hds = [rx_hdr EXCEPT ![p].done = TRUE] /\ tl = rxb_tail
      BY <1>2, <2>2
    <3>3. hds \in [ObjRecv!Pos -> ObjHeader]
          /\ \A z \in ObjRecv!Pos : hds[z].len = rx_hdr[z].len /\ hds[z].done = IF z = p THEN TRUE ELSE rx_hdr[z].done
      BY <1>2, <3>2 DEF ObjHeader
    <3>4. ASSUME NEW i \in f..k PROVE hds[lb[i].pos].done = lb[i].done
      <4>1. i \in 1..k
        BY <3>1
      <4>2. /\ lb[i].pos = live[i].pos /\ rx_hdr[live[i].pos].done = live[i].done
            /\ live[i].pos \in ObjRecv!Pos
            /\ (lb[i].done <=> live[i].done \/ i = o) /\ (live[i].pos = p <=> i = o)
        BY <1>1, <1>3, <1>4, <1>6, <1>9, <1>k, <4>1 DEF Given
      <4>3. lb[i].done \in BOOLEAN /\ live[i].done \in BOOLEAN
        <5>1. lb[i] \in Object /\ live[i] \in Object
          BY <1>2, <1>6, <1>k, <4>1
        <5> QED BY <5>1 DEF Object
      <4>4. hds[live[i].pos].done = IF live[i].pos = p THEN TRUE ELSE rx_hdr[live[i].pos].done
        BY <3>3, <4>2
      <4> QED BY <4>2, <4>3, <4>4
    <3>5. f - 1 = 0
      BY <3>1
    <3> QED BY <1>12, <3>2, <3>3, <3>4, <3>5
  <2> QED BY <2>1, <2>2
<1>15. \A i \in f..k : hds[lb[i].pos].len = lb[i].len
  <2>1. \A i \in f..k : i \in 1..k
    BY <1>8
  <2> QED BY <1>1, <1>6, <1>9, <1>14, <1>k, <2>1 DEF Given
<1>16. tl \in ObjRecv!Pos
       /\ Buffer(ObjRecv!Returned(p), rx_held \ {p}, hds, pos, obj_avail, objrem, rxb_head, tl, rxb_nictail)
  <2>1. \A i \in 1..Len(live) : lb[i].done \/ lb[i].pos \in rx_held \ {p} => sm[i] <= hh
    BY <1>10, <1>k
  <2>2. \A i \in f..Len(live) : hds[lb[i].pos].len = lb[i].len /\ hds[lb[i].pos].done = lb[i].done
    BY <1>14, <1>15, <1>k
  <2>3. \A z \in rx_held \ {p} : \E i \in 1..Len(live) : lb[i].pos = z /\ ~lb[i].done
    BY <1>11, <1>k
  <2>5. PICK hl, nb : hl = rx_held \ {p} /\ nb = SubSeq(lb, f, Len(lb))
    OBVIOUS
  <2>6. ObjRecv!Off(rxb_tail, sm[f - 1]) \in ObjRecv!Pos
        /\ Buffer(nb, hl, hds, pos, obj_avail, objrem, rxb_head, ObjRecv!Off(rxb_tail, sm[f - 1]), rxb_nictail)
    <3>1. /\ live \in Seq(Object) /\ pos \in ObjRecv!Pos /\ obj_avail \in 0..ObjLen
          /\ rxb_tail \in ObjRecv!Pos /\ rxb_nictail \in ObjRecv!Pos
          /\ objrem \in 0..ObjLen /\ Ends(live, sm, rxb_tail) /\ Arrived(live, sm, rc, objrem)
          /\ FilledFrom(pos, rxb_tail, rxb_nictail, rc, obj_avail) /\ hh <= rc
          /\ rxb_head = ObjRecv!Off(rxb_tail, hh)
      BY <1>1, <1>2
    <3>2. FirstLeft(lb, f) /\ nb = SubSeq(lb, f, Len(lb)) /\ MarkedAt(live, lb, o)
      BY <1>6, <1>7, <1>k, <2>5 DEF MarkedAt
    <3>3. Left(live, lb, f, sm, hh, hl, hds)
      BY <2>1, <2>2, <2>3, <2>5 DEF Left
    <3> QED BY <3>1, <3>2, <3>3, BufferDrop
  <2> QED BY <1>6, <1>7, <1>14, <2>5, <2>6
<1>17. ObjRecv!Returned(p) \in Seq(Object) /\ Len(ObjRecv!Returned(p)) = k - f + 1
       /\ \A i \in 1..k - f + 1 : ObjRecv!Returned(p)[i] = lb[f - 1 + i]
  <2>1. SubSeq(lb, f, k) \in Seq(Object) /\ Len(SubSeq(lb, f, k)) = k - f + 1
        /\ \A i \in 1..k - f + 1 : SubSeq(lb, f, k)[i] = lb[f - 1 + i]
    BY <1>6, <1>8
  <2> QED BY <1>7, <2>1
<1>18. ASSUME NEW z, Open(live, rx_held, z) PROVE Open(ObjRecv!Returned(p), rx_held \ {p}, z)
  <2>1. PICK i \in 1..k : live[i].pos = z /\ ~live[i].done
    BY <1>18, <1>k DEF Open
  <2>2. z # p /\ z \notin rx_held
    BY <1>18 DEF Open
  <2>3. lb[i].pos = z /\ ~lb[i].done
    BY <1>3, <1>6, <2>1, <2>2
  <2>4. i \notin 1..f - 1
    BY <1>8, <2>3
  <2>5. PICK j \in 1..k - f + 1 : f - 1 + j = i
    <3>1. i - (f - 1) \in 1..k - f + 1 /\ f - 1 + (i - (f - 1)) = i
      BY <1>8, <2>4, SMTT(30)
    <3> QED BY <3>1
  <2>6. ObjRecv!Returned(p)[j] = lb[i] /\ j \in 1..Len(ObjRecv!Returned(p))
    BY <1>17, <2>5
  <2> QED BY <2>2, <2>3, <2>6 DEF Open
<1>19. ASSUME objrem > 0 PROVE ObjRecv!Returned(p)[Len(ObjRecv!Returned(p))].pos = live[Len(live)].pos
  <2>1. k # 0 /\ sm[k] = rc + objrem /\ k \in 1..k
    BY <1>1, <1>2, <1>k, <1>19 DEF Arrived
  <2>2. ~(sm[k] <= hh)
    BY <1>1, <1>2, <1>19, <2>1
  <2>3. ~lb[k].done
    BY <1>10, <2>1, <2>2
  <2>4. f # k + 1
    <3>1. f = k + 1 => k \in 1..f - 1
      BY <2>1
    <3> QED BY <1>8, <2>3, <3>1
  <2>5. PICK j \in 1..k - f + 1 : f - 1 + j = k /\ j = k - f + 1
    <3>1. k - f + 1 \in 1..k - f + 1 /\ f - 1 + (k - f + 1) = k
      BY <1>8, <2>4
    <3> QED BY <3>1
  <2>6. ObjRecv!Returned(p)[j] = lb[k] /\ j = Len(ObjRecv!Returned(p))
    BY <1>17, <2>5
  <2> QED BY <1>6, <1>k, <2>1, <2>6
<1> QED BY <1>14, <1>16, <1>17, <1>18, <1>19
-----------------------------------------------------------------------------
(* Notifications *)

\* A is B but for the entry n of c.
But(A, B, c, n) == \A b \in ObjContexts, j \in Nat : b # c \/ j # n => A[b][j] = B[b][j]

\* x is sent to context c.
Sent(nts2, nts, c, x) == nts2 = [nts EXCEPT ![c] = Append(nts[c], x)]

\* The queues and the steps with one more notification, the n-th of c.
OneMore(nts2, R2, nts, R, c, n) ==
  /\ \A b \in ObjContexts : b # c => nts2[b] = nts[b]
  /\ \A b \in ObjContexts : Len(nts[b]) \in Nat /\ \A j \in 1..Len(nts[b]) : nts2[b][j] = nts[b][j]
  /\ \A b \in ObjContexts : \A j \in ObjSteps(nts2[b], R2[b]) :
       (j \in Nat /\ j \in ObjSteps(nts[b], R[b]) /\ (b # c \/ j # n)) \/ (b = c /\ j = n)

LEMMA StepsLonger ==
  ASSUME NEW nts \in ObjQueues, NEW R \in RemMap, NEW c \in ObjContexts, NEW x \in ObjNote,
         NEW nts2, Sent(nts2, nts, c, x), NEW n \in Nat, n = Len(nts[c]) + 1, NEW R2, But(R2, R, c, n)
  PROVE  Len(nts2[c]) = n /\ nts2[c][n] = x /\ OneMore(nts2, R2, nts, R, c, n)
<1>0. nts[c] \in Seq(ObjNote) /\ nts2[c] = Append(nts[c], x)
  BY DEF Sent, ObjQueues
<1>1. Len(nts2[c]) = n /\ nts2[c][n] = x /\ \A j \in 1..Len(nts[c]) : nts2[c][j] = nts[c][j]
  BY <1>0
<1>2. \A b \in ObjContexts : b # c => nts2[b] = nts[b]
  BY DEF Sent, ObjQueues
<1>3. ASSUME NEW b \in ObjContexts PROVE Len(nts[b]) \in Nat
             /\ \A j \in 1..Len(nts[b]) : nts2[b][j] = nts[b][j]
  <2>1. Len(nts[b]) \in Nat
    BY DEF ObjQueues
  <2>2. CASE b = c
    BY <1>1, <2>1, <2>2
  <2>3. CASE b # c
    BY <1>2, <2>1, <2>3
  <2> QED BY <2>2, <2>3
<1>4. ASSUME NEW b \in ObjContexts, NEW j \in ObjSteps(nts2[b], R2[b])
      PROVE  (j \in Nat /\ j \in ObjSteps(nts[b], R[b]) /\ (b # c \/ j # n)) \/ (b = c /\ j = n)
  <2>1. j \in 0..Len(nts2[b]) /\ (j > 0 \/ R2[b][0] > 0)
    BY DEF ObjSteps
  <2>0. n # 0 /\ Len(nts[b]) \in Nat /\ Len(nts[c]) \in Nat
    <3>1. Len(nts[c]) \in Nat
      BY DEF ObjQueues
    <3> QED BY <1>3, <3>1
  <2>2. R2[b][0] = R[b][0]
    BY <2>0 DEF But
  <2>3. CASE b # c
    <3>1. j \in 0..Len(nts[b]) /\ j \in Nat
      BY <1>2, <2>0, <2>1, <2>3
    <3> QED BY <2>1, <2>2, <2>3, <3>1 DEF ObjSteps
  <2>4. CASE b = c /\ j # n
    <3>1. j \in 0..n
      BY <1>1, <2>1, <2>4
    <3>2. j \in 0..Len(nts[b]) /\ j \in Nat
      BY <2>0, <2>4, <3>1
    <3> QED BY <2>1, <2>2, <2>4, <3>2 DEF ObjSteps
  <2> QED BY <2>3, <2>4
<1> QED BY <1>1, <1>2, <1>3, <1>4 DEF OneMore

\* The entry n of c is replaced.
LEMMA Replaced ==
  ASSUME NEW P \in PosMap, NEW R \in RemMap, NEW c \in ObjContexts, NEW n \in Nat,
         NEW z \in ObjRecv!Pos, NEW r \in ObjSize
  PROVE  \E P2 \in PosMap : \E R2 \in RemMap :
           P2[c][n] = z /\ R2[c][n] = r /\ But(P2, P, c, n) /\ But(R2, R, c, n)
<1> DEFINE P2 == [P EXCEPT ![c] = [P[c] EXCEPT ![n] = z]]
           R2 == [R EXCEPT ![c] = [R[c] EXCEPT ![n] = r]]
<1>1. P[c] \in [Nat -> ObjRecv!Pos] /\ R[c] \in [Nat -> ObjSize]
  BY DEF PosMap, RemMap
<1>2. [P[c] EXCEPT ![n] = z] \in [Nat -> ObjRecv!Pos] /\ [R[c] EXCEPT ![n] = r] \in [Nat -> ObjSize]
  BY <1>1
<1>3. P2 \in PosMap /\ R2 \in RemMap
  BY <1>2 DEF PosMap, RemMap
<1>4. P2[c] = [P[c] EXCEPT ![n] = z] /\ R2[c] = [R[c] EXCEPT ![n] = r]
  BY DEF PosMap, RemMap
<1>5. \A b \in ObjContexts : b # c => P2[b] = P[b] /\ R2[b] = R[b]
  BY DEF PosMap, RemMap
<1> HIDE DEF P2, R2
<1>6. P2[c][n] = z /\ R2[c][n] = r
  BY <1>1, <1>4
<1>7. \A j \in Nat : j # n => P2[c][j] = P[c][j] /\ R2[c][j] = R[c][j]
  BY <1>1, <1>4
<1>8. But(P2, P, c, n) /\ But(R2, R, c, n)
  BY <1>5, <1>7 DEF But
<1> USE <1>3
<1>9. WITNESS P2 \in PosMap
<1>10. WITNESS R2 \in RemMap
<1> QED BY <1>6, <1>8

\* A notification to context c is the n-th of its queue.
LEMMA Announced ==
  ASSUME NEW nts \in ObjQueues, NEW P \in PosMap, NEW R \in RemMap,
         NEW c \in ObjContexts, NEW x \in ObjNote, NEW nts2, Sent(nts2, nts, c, x),
         NEW z \in ObjRecv!Pos, NEW r \in ObjSize
  PROVE  \E n \in Nat : \E P2 \in PosMap : \E R2 \in RemMap :
           /\ n = Len(nts[c]) + 1 /\ Len(nts2[c]) = n /\ nts2[c][n] = x
           /\ P2[c][n] = z /\ R2[c][n] = r /\ But(P2, P, c, n) /\ But(R2, R, c, n)
           /\ OneMore(nts2, R2, nts, R, c, n)
<1>0. Len(nts[c]) \in Nat
  BY DEF ObjQueues
<1>n. PICK n \in Nat : n = Len(nts[c]) + 1
  BY <1>0
<1>1. PICK P2 \in PosMap : \E R2 \in RemMap :
        P2[c][n] = z /\ R2[c][n] = r /\ But(P2, P, c, n) /\ But(R2, R, c, n)
  BY Replaced
<1>2. PICK R2 \in RemMap :
        P2[c][n] = z /\ R2[c][n] = r /\ But(P2, P, c, n) /\ But(R2, R, c, n)
  BY <1>1
<1>3. Len(nts2[c]) = n /\ nts2[c][n] = x /\ OneMore(nts2, R2, nts, R, c, n)
  BY <1>n, <1>2, StepsLonger
<1> QED BY <1>n, <1>2, <1>3

\* An object is begun at position z.
Begun(nb, hds2, ob, hds, z, len) ==
  /\ nb = Append(ob, [pos |-> z, len |-> len, done |-> FALSE])
  /\ hds2 = [hds EXCEPT ![z] = [len |-> len, done |-> FALSE]]

\* A new object is announced to context c.
LEMMA QueuedNew ==
  ASSUME ObjRecv!ObjRecvAssumption, NEW nts \in ObjQueues, NEW ops, NEW olr, NEW ob \in Seq(Object),
         NEW hl, NEW hds \in [ObjRecv!Pos -> ObjHeader], NEW d, Queued(nts, ops, olr, ob, hl, hds, 0, d),
         NEW c \in ObjContexts, NEW z \in ObjRecv!Pos, NEW len \in 1..ObjLen, NEW n \in 1..ObjLen,
         NEW rem \in ObjSize, rem + n = len,
         NEW x \in ObjNote, x.pos = z, x.bump = n, NEW nts2, Sent(nts2, nts, c, x),
         NEW nb, NEW hds2, Begun(nb, hds2, ob, hds, z, len),
         ~Open(ob, hl, z), z \notin hl
  PROVE  Queued(nts2, ops, olr, nb, hl, hds2, rem, c)
<1>1. PICK P \in PosMap : \E R \in RemMap :
        /\ Chains(nts, P, R, ob, hl, hds, 0, d)
        /\ \A b \in ObjContexts : P[b][0] = ops[b] /\ R[b][0] = olr[b]
  BY DEF Queued
<1>2. PICK R \in RemMap :
        /\ Chains(nts, P, R, ob, hl, hds, 0, d)
        /\ \A b \in ObjContexts : P[b][0] = ops[b] /\ R[b][0] = olr[b]
  BY <1>1
<1>3. ObjLen \in Nat /\ len \in Nat /\ n \in Nat /\ rem \in 0..ObjLen /\ rem + n = len
  BY DEF ObjRecv!ObjRecvAssumption, ObjSize
<1>k. PICK m \in Nat : \E P2 \in PosMap : \E R2 \in RemMap :
        /\ m = Len(nts[c]) + 1 /\ Len(nts2[c]) = m /\ nts2[c][m] = x
        /\ P2[c][m] = z /\ R2[c][m] = rem /\ But(P2, P, c, m) /\ But(R2, R, c, m)
        /\ OneMore(nts2, R2, nts, R, c, m)
  BY Announced
<1>q. PICK P2 \in PosMap : \E R2 \in RemMap :
        /\ m = Len(nts[c]) + 1 /\ Len(nts2[c]) = m /\ nts2[c][m] = x
        /\ P2[c][m] = z /\ R2[c][m] = rem /\ But(P2, P, c, m) /\ But(R2, R, c, m)
        /\ OneMore(nts2, R2, nts, R, c, m)
  BY <1>k
<1>r. PICK R2 \in RemMap :
        /\ m = Len(nts[c]) + 1 /\ Len(nts2[c]) = m /\ nts2[c][m] = x
        /\ P2[c][m] = z /\ R2[c][m] = rem /\ But(P2, P, c, m) /\ But(R2, R, c, m)
        /\ OneMore(nts2, R2, nts, R, c, m)
  BY <1>q
<1>l. PICK l \in Nat : l = Len(nts[c])
  BY DEF ObjQueues
<1>m. m = l + 1
  BY <1>l, <1>r
<1>p. Len(nts2[c]) = m /\ nts2[c][m] = x
  BY <1>r
<1>6a. /\ \A b \in ObjContexts : b # c => nts2[b] = nts[b]
       /\ \A b \in ObjContexts : Len(nts[b]) \in Nat /\ \A j \in 1..Len(nts[b]) : nts2[b][j] = nts[b][j]
  BY <1>r DEF OneMore
<1>6b. \A b \in ObjContexts : \A j \in ObjSteps(nts2[b], R2[b]) :
         (j \in Nat /\ j \in ObjSteps(nts[b], R[b]) /\ (b # c \/ j # m)) \/ (b = c /\ j = m)
  BY <1>r DEF OneMore
<1>6c. \A b \in ObjContexts, j \in Nat : b # c \/ j # m => R2[b][j] = R[b][j] /\ P2[b][j] = P[b][j]
  BY <1>r DEF But
<1>7. /\ \A b \in ObjContexts : Chain(nts[b], P[b], R[b], hds)
      /\ \A b \in ObjContexts : \A j \in ObjSteps(nts[b], R[b]) : Open(ob, hl, P[b][j])
      /\ \A a, b \in ObjContexts : \A j \in ObjSteps(nts[a], R[a]), i \in ObjSteps(nts[b], R[b]) :
           P[a][j] = P[b][i] => a = b /\ \A k \in Nat : j <= k /\ k < i => R[a][k] > 0
      /\ \A b \in ObjContexts : R[b][Len(nts[b])] = 0
  BY <1>2 DEF Chains
<1>8. ASSUME NEW b \in ObjContexts, NEW j \in ObjSteps(nts[b], R[b]) PROVE P[b][j] # z
  <2>1. Open(ob, hl, P[b][j])
    BY <1>7
  <2> QED BY <2>1
<1>9. /\ Len(nb) = Len(ob) + 1 /\ nb[Len(nb)].pos = z /\ nb[Len(nb)].done = FALSE
      /\ (\A i \in 1..Len(ob) : nb[i] = ob[i]) /\ Len(ob) \in Nat
  <2>y. PICK y : y = [pos |-> z, len |-> len, done |-> FALSE]
    OBVIOUS
  <2>1. y \in Object /\ y.pos = z /\ y.done = FALSE
    BY <2>y DEF Object
  <2>2. nb = Append(ob, y) /\ ob \in Seq(Object)
    BY <2>y DEF Begun
  <2>3. Len(nb) = Len(ob) + 1 /\ nb[Len(ob) + 1] = y
        /\ (\A i \in 1..Len(ob) : nb[i] = ob[i]) /\ Len(ob) \in Nat
    BY <2>1, <2>2
  <2> QED BY <2>1, <2>3
<1>h. hds2[z].len = len /\ \A p \in ObjRecv!Pos : p # z => hds2[p] = hds[p]
  BY DEF Begun
<1>10. Open(nb, hl, z) /\ \A p : Open(ob, hl, p) => Open(nb, hl, p)
  <2>k. PICK k \in Nat : k = Len(ob)
    BY <1>9
  <2>1. k + 1 \in 1..k + 1 /\ \A i \in 1..k : i \in 1..k + 1
    BY <2>k
  <2>2. Len(nb) = k + 1 /\ nb[k + 1].pos = z /\ ~nb[k + 1].done
    BY <1>9, <2>k
  <2>3. Open(nb, hl, z)
    BY <2>1, <2>2 DEF Open
  <2>4. ASSUME NEW p, Open(ob, hl, p) PROVE Open(nb, hl, p)
    <3>1. PICK i \in 1..k : ob[i].pos = p /\ ~ob[i].done
      BY <2>4, <2>k DEF Open
    <3>2. i \in 1..k + 1 /\ nb[i] = ob[i] /\ p \notin hl
      BY <1>9, <2>1, <2>4, <2>k DEF Open
    <3> QED BY <2>2, <3>1, <3>2 DEF Open
  <2> QED BY <2>3, <2>4
<1>11. ASSUME NEW b \in ObjContexts PROVE Chain(nts2[b], P2[b], R2[b], hds2)
  <2> SUFFICES ASSUME NEW j \in 1..Len(nts2[b])
               PROVE  IF R2[b][j - 1] = 0 THEN P2[b][j] = nts2[b][j].pos /\ R2[b][j] + nts2[b][j].bump = hds2[P2[b][j]].len
                      ELSE P2[b][j] = P2[b][j - 1] /\ R2[b][j] + nts2[b][j].bump = R2[b][j - 1]
    BY DEF Chain
  <2>1. CASE b = c /\ j = m
    <3>1. R2[b][j - 1] = 0
      <4>1. j - 1 = l /\ l # m /\ l \in Nat
        BY <1>m, <2>1
      <4>2. R[c][l] = 0
        BY <1>7, <1>l
      <4>3. R2[c][l] = R[c][l]
        BY <1>6c, <4>1
      <4> QED BY <2>1, <4>1, <4>2, <4>3
    <3> QED BY <1>3, <1>h, <1>p, <1>r, <2>1, <3>1
  <2>2. CASE ~(b = c /\ j = m)
    <3>1. j \in 1..Len(nts[b])
      <4>1. CASE b = c
        BY <1>p, <1>l, <1>m, <2>2, <4>1
      <4>2. CASE b # c
        BY <1>6a, <4>2
      <4> QED BY <4>1, <4>2
    <3>2. j \in Nat /\ j - 1 \in Nat /\ (b # c \/ (j # m /\ j - 1 # m))
      <4>1. Len(nts[b]) \in Nat
        BY <1>6a
      <4>2. b = c => Len(nts[b]) = l
        BY <1>l
      <4> QED BY <1>m, <3>1, <4>1, <4>2
    <3>i. PICK i \in Nat : i = j - 1
      BY <3>2
    <3>3. /\ P2[b][j] = P[b][j] /\ R2[b][j] = R[b][j] /\ R2[b][i] = R[b][i] /\ P2[b][i] = P[b][i]
          /\ nts2[b][j] = nts[b][j]
      BY <1>6a, <1>6c, <3>1, <3>2, <3>i
    <3>4. j \in ObjSteps(nts[b], R[b])
      <4>1. Len(nts[b]) \in Nat
        BY <1>6a
      <4> QED BY <3>1, <4>1 DEF ObjSteps
    <3>5. P[b][j] # z /\ P[b][j] \in ObjRecv!Pos
      <4>1. P[b] \in [Nat -> ObjRecv!Pos]
        BY DEF PosMap
      <4> QED BY <1>8, <3>2, <3>4, <4>1
    <3>6. hds2[P[b][j]] = hds[P[b][j]]
      BY <1>h, <3>5
    <3>7. IF R[b][j - 1] = 0 THEN P[b][j] = nts[b][j].pos /\ R[b][j] + nts[b][j].bump = hds[P[b][j]].len
          ELSE P[b][j] = P[b][j - 1] /\ R[b][j] + nts[b][j].bump = R[b][j - 1]
      BY <1>7, <3>1 DEF Chain
    <3> QED BY <3>3, <3>6, <3>7, <3>i
  <2> QED BY <2>1, <2>2
<1>12. ASSUME NEW b \in ObjContexts, NEW j \in ObjSteps(nts2[b], R2[b])
       PROVE  Open(nb, hl, P2[b][j]) /\ (rem > 0 /\ P2[b][j] = nb[Len(nb)].pos => R2[b][j] > 0)
  <2>1. CASE b = c /\ j = m
    BY <1>r, <1>10, <2>1
  <2>2. CASE j \in Nat /\ j \in ObjSteps(nts[b], R[b]) /\ (b # c \/ j # m)
    <3>1. P2[b][j] = P[b][j] /\ P[b][j] # z /\ Open(ob, hl, P[b][j])
      BY <1>6c, <1>7, <1>8, <2>2
    <3> QED BY <1>9, <1>10, <3>1
  <2> QED BY <1>6b, <2>1, <2>2
<1>13. ASSUME NEW a \in ObjContexts, NEW b \in ObjContexts, NEW j \in ObjSteps(nts2[a], R2[a]),
              NEW i \in ObjSteps(nts2[b], R2[b]),
              P2[a][j] = P2[b][i]
       PROVE  a = b /\ \A k \in Nat : j <= k /\ k < i => R2[a][k] > 0
  <2>1. CASE a = c /\ j = m
    <3>1. b = c /\ i = m
      <4> SUFFICES ASSUME ~(b = c /\ i = m) PROVE FALSE
        OBVIOUS
      <4>1. i \in Nat /\ i \in ObjSteps(nts[b], R[b]) /\ (b # c \/ i # m)
        BY <1>6b
      <4>2. P2[b][i] = P[b][i] /\ P[b][i] # z
        BY <1>6c, <1>8, <4>1
      <4> QED BY <1>13, <1>r, <2>1, <4>2
    <3> QED BY <2>1, <3>1
  <2>2. CASE ~(a = c /\ j = m)
    <3>1. j \in Nat /\ j \in ObjSteps(nts[a], R[a]) /\ (a # c \/ j # m)
      BY <1>6b, <2>2
    <3>a. P2[a][j] = P[a][j] /\ P[a][j] # z
      BY <1>6c, <1>8, <3>1
    <3>2. ~(b = c /\ i = m)
      BY <1>r, <1>13, <3>a
    <3>3. i \in Nat /\ i \in ObjSteps(nts[b], R[b]) /\ (b # c \/ i # m)
      BY <1>6b, <3>2
    <3>4. P[a][j] = P[b][i]
      BY <1>6c, <1>13, <3>a, <3>3
    <3>5. a = b /\ \A k \in Nat : j <= k /\ k < i => R[a][k] > 0
      BY <1>7, <3>1, <3>3, <3>4
    <3>6. a = c => i <= l
      BY <1>l, <3>3, <3>5 DEF ObjSteps
    <3>7. ASSUME NEW k \in Nat, j <= k, k < i PROVE R2[a][k] > 0
      <4>1. a # c \/ k # m
        BY <1>m, <3>3, <3>6, <3>7
      <4>2. R2[a][k] = R[a][k]
        BY <1>6c, <4>1
      <4> QED BY <3>5, <3>7, <4>2
    <3> QED BY <3>5, <3>7
  <2> QED BY <2>1, <2>2
<1>14. ASSUME NEW b \in ObjContexts PROVE R2[b][Len(nts2[b])] = IF b = c THEN rem ELSE 0
  <2>1. CASE b = c
    BY <1>p, <1>r, <2>1
  <2>2. CASE b # c
    <3>1. nts2[b] = nts[b] /\ Len(nts[b]) \in Nat
      BY <1>6a, <2>2
    <3>2. R2[b][Len(nts[b])] = R[b][Len(nts[b])]
      BY <1>6c, <2>2, <3>1
    <3> QED BY <1>7, <2>2, <3>1, <3>2
  <2> QED BY <2>1, <2>2
<1>15. P2[c][Len(nts2[c])] = nb[Len(nb)].pos
  BY <1>p, <1>r, <1>9
<1>16. Chains(nts2, P2, R2, nb, hl, hds2, rem, c)
  BY <1>11, <1>12, <1>13, <1>14, <1>15 DEF Chains
<1>17. \A b \in ObjContexts : P2[b][0] = ops[b] /\ R2[b][0] = olr[b]
  <2>1. 0 # m /\ 0 \in Nat
    BY <1>m
  <2>2. \A b \in ObjContexts : P2[b][0] = P[b][0] /\ R2[b][0] = R[b][0]
    BY <1>6c, <2>1
  <2> QED BY <1>2, <2>2
<1> QED BY <1>16, <1>17 DEF Queued

\* More of the object that is begun is announced to its context.
LEMMA QueuedMore ==
  ASSUME ObjRecv!ObjRecvAssumption, NEW nts \in ObjQueues, NEW ops, NEW olr, NEW ob \in Seq(Object),
         NEW hl, NEW hds, NEW d \in ObjContexts, NEW rem \in ObjSize,
         Queued(nts, ops, olr, ob, hl, hds, rem, d), rem > 0,
         NEW n \in 1..ObjLen, NEW r \in ObjSize, r + n = rem,
         NEW x \in ObjNote, x.bump = n, NEW nts2, Sent(nts2, nts, d, x)
  PROVE  Queued(nts2, ops, olr, ob, hl, hds, r, d)
<1>1. PICK P \in PosMap : \E R \in RemMap :
        /\ Chains(nts, P, R, ob, hl, hds, rem, d)
        /\ \A b \in ObjContexts : P[b][0] = ops[b] /\ R[b][0] = olr[b]
  BY DEF Queued
<1>2. PICK R \in RemMap :
        /\ Chains(nts, P, R, ob, hl, hds, rem, d)
        /\ \A b \in ObjContexts : P[b][0] = ops[b] /\ R[b][0] = olr[b]
  BY <1>1
<1>3. ObjLen \in Nat /\ n \in Nat /\ rem \in Nat /\ r \in Nat
  BY DEF ObjRecv!ObjRecvAssumption, ObjSize
<1>l. PICK l \in Nat : l = Len(nts[d])
  BY DEF ObjQueues
<1>z. PICK z \in ObjRecv!Pos : z = P[d][l]
  BY DEF PosMap
<1>k. PICK m \in Nat : \E P2 \in PosMap : \E R2 \in RemMap :
        /\ m = Len(nts[d]) + 1 /\ Len(nts2[d]) = m /\ nts2[d][m] = x
        /\ P2[d][m] = z /\ R2[d][m] = r /\ But(P2, P, d, m) /\ But(R2, R, d, m)
        /\ OneMore(nts2, R2, nts, R, d, m)
  BY Announced
<1>q. PICK P2 \in PosMap : \E R2 \in RemMap :
        /\ m = Len(nts[d]) + 1 /\ Len(nts2[d]) = m /\ nts2[d][m] = x
        /\ P2[d][m] = z /\ R2[d][m] = r /\ But(P2, P, d, m) /\ But(R2, R, d, m)
        /\ OneMore(nts2, R2, nts, R, d, m)
  BY <1>k
<1>r. PICK R2 \in RemMap :
        /\ m = Len(nts[d]) + 1 /\ Len(nts2[d]) = m /\ nts2[d][m] = x
        /\ P2[d][m] = z /\ R2[d][m] = r /\ But(P2, P, d, m) /\ But(R2, R, d, m)
        /\ OneMore(nts2, R2, nts, R, d, m)
  BY <1>q
<1>m. m = l + 1
  BY <1>l, <1>r
<1>6a. /\ \A b \in ObjContexts : b # d => nts2[b] = nts[b]
       /\ \A b \in ObjContexts : Len(nts[b]) \in Nat /\ \A j \in 1..Len(nts[b]) : nts2[b][j] = nts[b][j]
  BY <1>r DEF OneMore
<1>6b. \A b \in ObjContexts : \A j \in ObjSteps(nts2[b], R2[b]) :
         (j \in Nat /\ j \in ObjSteps(nts[b], R[b]) /\ (b # d \/ j # m)) \/ (b = d /\ j = m)
  BY <1>r DEF OneMore
<1>6c. \A b \in ObjContexts, j \in Nat : b # d \/ j # m => R2[b][j] = R[b][j] /\ P2[b][j] = P[b][j]
  BY <1>r DEF But
<1>7. /\ \A b \in ObjContexts : Chain(nts[b], P[b], R[b], hds)
      /\ \A b \in ObjContexts : \A j \in ObjSteps(nts[b], R[b]) :
           Open(ob, hl, P[b][j]) /\ (rem > 0 /\ P[b][j] = ob[Len(ob)].pos => R[b][j] > 0)
      /\ \A a, b \in ObjContexts : \A j \in ObjSteps(nts[a], R[a]), i \in ObjSteps(nts[b], R[b]) :
           P[a][j] = P[b][i] => a = b /\ \A k \in Nat : j <= k /\ k < i => R[a][k] > 0
      /\ \A b \in ObjContexts : R[b][Len(nts[b])] = IF b = d THEN rem ELSE 0
      /\ rem > 0 => P[d][Len(nts[d])] = ob[Len(ob)].pos
  BY <1>2 DEF Chains
<1>8. R[d][l] = rem /\ z = ob[Len(ob)].pos
  BY <1>7, <1>l, <1>z
<1>9. l \in ObjSteps(nts[d], R[d])
  <2>1. l \in 0..l /\ (l > 0 \/ l = 0)
    OBVIOUS
  <2>2. l = 0 => R[d][0] > 0
    BY <1>8
  <2> QED BY <1>l, <2>1, <2>2 DEF ObjSteps
<1>11. ASSUME NEW b \in ObjContexts PROVE Chain(nts2[b], P2[b], R2[b], hds)
  <2> SUFFICES ASSUME NEW j \in 1..Len(nts2[b])
               PROVE  IF R2[b][j - 1] = 0 THEN P2[b][j] = nts2[b][j].pos /\ R2[b][j] + nts2[b][j].bump = hds[P2[b][j]].len
                      ELSE P2[b][j] = P2[b][j - 1] /\ R2[b][j] + nts2[b][j].bump = R2[b][j - 1]
    BY DEF Chain
  <2>1. CASE b = d /\ j = m
    <3>1. j - 1 = l /\ l # m
      BY <1>m, <2>1
    <3>2. R2[d][l] = rem /\ P2[d][l] = z
      BY <1>6c, <1>8, <1>z, <3>1
    <3>3. R2[b][j - 1] = rem /\ P2[b][j - 1] = z /\ rem # 0
      BY <1>3, <2>1, <3>1, <3>2
    <3>4. P2[b][j] = z /\ R2[b][j] = r /\ nts2[b][j] = x
      BY <1>r, <2>1
    <3>5. R2[b][j] + nts2[b][j].bump = rem
      BY <3>4
    <3> QED BY <3>3, <3>4, <3>5
  <2>2. CASE ~(b = d /\ j = m)
    <3>1. j \in 1..Len(nts[b])
      <4>1. CASE b = d
        BY <1>r, <1>l, <1>m, <2>2, <4>1
      <4>2. CASE b # d
        BY <1>6a, <4>2
      <4> QED BY <4>1, <4>2
    <3>2. j \in Nat /\ j - 1 \in Nat /\ (b # d \/ (j # m /\ j - 1 # m))
      <4>1. Len(nts[b]) \in Nat
        BY <1>6a
      <4>2. b = d => Len(nts[b]) = l
        BY <1>l
      <4> QED BY <1>m, <3>1, <4>1, <4>2
    <3>i. PICK i \in Nat : i = j - 1
      BY <3>2
    <3>3. /\ P2[b][j] = P[b][j] /\ R2[b][j] = R[b][j] /\ R2[b][i] = R[b][i] /\ P2[b][i] = P[b][i]
          /\ nts2[b][j] = nts[b][j]
      BY <1>6a, <1>6c, <3>1, <3>2, <3>i
    <3>7. IF R[b][j - 1] = 0 THEN P[b][j] = nts[b][j].pos /\ R[b][j] + nts[b][j].bump = hds[P[b][j]].len
          ELSE P[b][j] = P[b][j - 1] /\ R[b][j] + nts[b][j].bump = R[b][j - 1]
      BY <1>7, <3>1 DEF Chain
    <3> QED BY <3>3, <3>7, <3>i
  <2> QED BY <2>1, <2>2
<1>12. ASSUME NEW b \in ObjContexts, NEW j \in ObjSteps(nts2[b], R2[b])
       PROVE  Open(ob, hl, P2[b][j]) /\ (r > 0 /\ P2[b][j] = ob[Len(ob)].pos => R2[b][j] > 0)
  <2>1. CASE b = d /\ j = m
    <3>1. Open(ob, hl, z)
      BY <1>7, <1>9, <1>z
    <3> QED BY <1>r, <2>1, <3>1
  <2>2. CASE j \in Nat /\ j \in ObjSteps(nts[b], R[b]) /\ (b # d \/ j # m)
    <3>1. P2[b][j] = P[b][j] /\ R2[b][j] = R[b][j]
      BY <1>6c, <2>2
    <3> QED BY <1>7, <2>2, <3>1
  <2> QED BY <1>6b, <2>1, <2>2
<1>a. ASSUME NEW b \in ObjContexts, NEW i, i \in Nat, i \in ObjSteps(nts[b], R[b]) PROVE b = d => i <= l
  BY <1>l, <1>a DEF ObjSteps
<1>13. ASSUME NEW a \in ObjContexts, NEW b \in ObjContexts, NEW j \in ObjSteps(nts2[a], R2[a]),
              NEW i \in ObjSteps(nts2[b], R2[b]),
              P2[a][j] = P2[b][i]
       PROVE  a = b /\ \A k \in Nat : j <= k /\ k < i => R2[a][k] > 0
  <2>1. CASE b = d /\ i = m
    <3>1. CASE a = d /\ j = m
      BY <1>m, <2>1, <3>1
    <3>2. CASE j \in Nat /\ j \in ObjSteps(nts[a], R[a]) /\ (a # d \/ j # m)
      <4>1. P[a][j] = P[d][l]
        BY <1>6c, <1>13, <1>r, <1>z, <2>1, <3>2
      <4>2. a = d /\ \A k \in Nat : j <= k /\ k < l => R[a][k] > 0
        BY <1>7, <1>9, <3>2, <4>1
      <4>3. ASSUME NEW k \in Nat, j <= k, k < i PROVE R2[a][k] > 0
        <5>1. k # m /\ (k < l \/ k = l)
          BY <1>m, <2>1, <4>3
        <5>2. R2[a][k] = R[a][k]
          BY <1>6c, <5>1
        <5>3. k = l => R[a][k] > 0
          BY <1>8, <4>2
        <5> QED BY <4>2, <4>3, <5>1, <5>2, <5>3
      <4> QED BY <2>1, <4>2, <4>3
    <3> QED BY <1>6b, <3>1, <3>2
  <2>2. CASE i \in Nat /\ i \in ObjSteps(nts[b], R[b]) /\ (b # d \/ i # m)
    <3>1. CASE a = d /\ j = m
      <4>1. P[d][l] = P[b][i]
        BY <1>6c, <1>13, <1>r, <1>z, <2>2, <3>1
      <4>2. d = b
        BY <1>7, <1>9, <2>2, <4>1
      <4>3. i <= l
        BY <1>a, <2>2, <4>2
      <4> QED BY <1>m, <2>2, <3>1, <4>2, <4>3
    <3>2. CASE j \in Nat /\ j \in ObjSteps(nts[a], R[a]) /\ (a # d \/ j # m)
      <4>1. P[a][j] = P[b][i]
        BY <1>6c, <1>13, <2>2, <3>2
      <4>2. a = b /\ \A k \in Nat : j <= k /\ k < i => R[a][k] > 0
        BY <1>7, <2>2, <3>2, <4>1
      <4>3. ASSUME NEW k \in Nat, j <= k, k < i PROVE R2[a][k] > 0
        <5>0. a = d => i <= l
          BY <1>a, <2>2, <4>2
        <5>1. a # d \/ k # m
          BY <1>m, <2>2, <4>3, <5>0
        <5>2. R2[a][k] = R[a][k]
          BY <1>6c, <5>1
        <5> QED BY <4>2, <4>3, <5>2
      <4> QED BY <4>2, <4>3
    <3> QED BY <1>6b, <3>1, <3>2
  <2> QED BY <1>6b, <2>1, <2>2
<1>14. ASSUME NEW b \in ObjContexts PROVE R2[b][Len(nts2[b])] = IF b = d THEN r ELSE 0
  <2>1. CASE b = d
    BY <1>r, <2>1
  <2>2. CASE b # d
    <3>1. nts2[b] = nts[b] /\ Len(nts[b]) \in Nat
      BY <1>6a, <2>2
    <3>2. R2[b][Len(nts[b])] = R[b][Len(nts[b])]
      BY <1>6c, <2>2, <3>1
    <3> QED BY <1>7, <2>2, <3>1, <3>2
  <2> QED BY <2>1, <2>2
<1>15. P2[d][Len(nts2[d])] = ob[Len(ob)].pos
  BY <1>r, <1>8
<1>16. Chains(nts2, P2, R2, ob, hl, hds, r, d)
  BY <1>11, <1>12, <1>13, <1>14, <1>15 DEF Chains
<1>17. \A b \in ObjContexts : P2[b][0] = ops[b] /\ R2[b][0] = olr[b]
  <2>1. 0 # m /\ 0 \in Nat
    BY <1>m
  <2>2. \A b \in ObjContexts : P2[b][0] = P[b][0] /\ R2[b][0] = R[b][0]
    BY <1>6c, <2>1
  <2> QED BY <1>2, <2>2
<1> QED BY <1>16, <1>17 DEF Queued

\* B with the chain of c one step on.
ShiftedFrom(A, B, c) == \A b \in ObjContexts, j \in Nat : A[b][j] = IF b = c THEN B[b][j + 1] ELSE B[b][j]

LEMMA ShiftedBack ==
  ASSUME NEW P \in PosMap, NEW R \in RemMap, NEW c \in ObjContexts
  PROVE  \E P2 \in PosMap : \E R2 \in RemMap : ShiftedFrom(P2, P, c) /\ ShiftedFrom(R2, R, c)
<1> DEFINE P2 == [b \in ObjContexts |-> [j \in Nat |-> IF b = c THEN P[b][j + 1] ELSE P[b][j]]]
           R2 == [b \in ObjContexts |-> [j \in Nat |-> IF b = c THEN R[b][j + 1] ELSE R[b][j]]]
<1>1. \A b \in ObjContexts : P[b] \in [Nat -> ObjRecv!Pos] /\ R[b] \in [Nat -> ObjSize]
  BY DEF PosMap, RemMap
<1>2. \A b \in ObjContexts, j \in Nat : P[b][j] \in ObjRecv!Pos /\ R[b][j] \in ObjSize /\ P[b][j + 1] \in ObjRecv!Pos /\ R[b][j + 1] \in ObjSize
  BY <1>1
<1>3. P2 \in PosMap /\ R2 \in RemMap
  BY <1>2 DEF PosMap, RemMap
<1>4. ShiftedFrom(P2, P, c) /\ ShiftedFrom(R2, R, c)
  BY DEF ShiftedFrom
<1> HIDE DEF P2, R2
<1> USE <1>3
<1>5. WITNESS P2 \in PosMap
<1>6. WITNESS R2 \in RemMap
<1> QED BY <1>4

\* The next notification of c is about the object c has begun, or a new one.
About(c, x, ops, olr, hds, st, rm) ==
  /\ st = IF olr[c] = 0 THEN x.pos ELSE ops[c]
  /\ rm + x.bump = IF olr[c] = 0 THEN hds[x.pos].len ELSE olr[c]

LEMMA QueuedFirst ==
  ASSUME ObjRecv!ObjRecvAssumption, NEW nts \in ObjQueues, NEW ops, NEW olr, NEW ob, NEW hl, NEW hds,
         NEW rem, NEW d,
         Queued(nts, ops, olr, ob, hl, hds, rem, d), NEW c \in ObjContexts, nts[c] # <<>>
  PROVE  \E P \in PosMap : \E R \in RemMap :
           /\ Chains(nts, P, R, ob, hl, hds, rem, d)
           /\ About(c, Head(nts[c]), ops, olr, hds, P[c][1], R[c][1])
           /\ \A b \in ObjContexts : P[b][0] = ops[b] /\ R[b][0] = olr[b]
<1>1. PICK P \in PosMap : \E R \in RemMap :
        /\ Chains(nts, P, R, ob, hl, hds, rem, d)
        /\ \A b \in ObjContexts : P[b][0] = ops[b] /\ R[b][0] = olr[b]
  BY DEF Queued
<1>2. PICK R \in RemMap :
        /\ Chains(nts, P, R, ob, hl, hds, rem, d)
        /\ \A b \in ObjContexts : P[b][0] = ops[b] /\ R[b][0] = olr[b]
  BY <1>1
<1>3. nts[c] \in Seq(ObjNote)
  BY DEF ObjQueues
<1>4. 1 \in 1..Len(nts[c]) /\ nts[c][1] = Head(nts[c])
  BY <1>3
<1>5. Chain(nts[c], P[c], R[c], hds)
  BY <1>2 DEF Chains
<1>6. IF R[c][0] = 0 THEN P[c][1] = nts[c][1].pos /\ R[c][1] + nts[c][1].bump = hds[P[c][1]].len
      ELSE P[c][1] = P[c][0] /\ R[c][1] + nts[c][1].bump = R[c][0]
  <2>1. 1 - 1 = 0
    OBVIOUS
  <2> QED BY <1>4, <1>5, <2>1 DEF Chain
<1>7. About(c, Head(nts[c]), ops, olr, hds, P[c][1], R[c][1])
  BY <1>2, <1>4, <1>6 DEF About
<1> QED BY <1>2, <1>7

\* The threads have hl, and the object at st when it is complete.
Taken(hl2, hl, st, rm) == hl2 = IF rm = 0 THEN hl \cup {st} ELSE hl

\* What the library does with a notification.
Polled(nts2, ops2, olr2, nts, ops, olr, c, st, rm) ==
  /\ nts2 = [nts EXCEPT ![c] = Tail(nts[c])]
  /\ \A b \in ObjContexts : ops2[b] = (IF b = c THEN st ELSE ops[b]) /\ olr2[b] = (IF b = c THEN rm ELSE olr[b])

LEMMA QueuedStep ==
  ASSUME ObjRecv!ObjRecvAssumption, NEW nts \in ObjQueues, NEW ops, NEW olr, NEW ob, NEW hl, NEW hl2,
         NEW hds, NEW rem, NEW d \in ObjContexts,
         NEW c \in ObjContexts, nts[c] # <<>>, NEW P \in PosMap, NEW R \in RemMap,
         Chains(nts, P, R, ob, hl, hds, rem, d), \A b \in ObjContexts : P[b][0] = ops[b] /\ R[b][0] = olr[b],
         NEW nts2, NEW ops2, NEW olr2, NEW st \in ObjRecv!Pos, NEW rm \in ObjSize, st = P[c][1],
         rm = R[c][1],
         Taken(hl2, hl, st, rm), Polled(nts2, ops2, olr2, nts, ops, olr, c, st, rm)
  PROVE  Queued(nts2, ops2, olr2, ob, hl2, hds, rem, d)
<1>1. PICK P2 \in PosMap : \E R2 \in RemMap : ShiftedFrom(P2, P, c) /\ ShiftedFrom(R2, R, c)
  BY ShiftedBack
<1>2. PICK R2 \in RemMap : ShiftedFrom(P2, P, c) /\ ShiftedFrom(R2, R, c)
  BY <1>1
<1>l. PICK l \in Nat : l = Len(nts[c])
  BY DEF ObjQueues
<1>3. nts[c] \in Seq(ObjNote) /\ \A b \in ObjContexts : Len(nts[b]) \in Nat
  BY DEF ObjQueues
<1>4. l > 0 /\ nts2[c] = Tail(nts[c]) /\ \A b \in ObjContexts : b # c => nts2[b] = nts[b]
  BY <1>3, <1>l DEF Polled, ObjQueues
<1>5. Len(nts2[c]) = l - 1 /\ \A j \in 1..l - 1 : nts2[c][j] = nts[c][j + 1]
  BY <1>3, <1>4, <1>l
<1>6. \A j \in Nat : P2[c][j] = P[c][j + 1] /\ R2[c][j] = R[c][j + 1]
  BY <1>2 DEF ShiftedFrom
<1>7. \A b \in ObjContexts, j \in Nat : b # c => P2[b][j] = P[b][j] /\ R2[b][j] = R[b][j]
  BY <1>2 DEF ShiftedFrom
<1>8. /\ \A b \in ObjContexts : Chain(nts[b], P[b], R[b], hds)
      /\ \A b \in ObjContexts : \A j \in ObjSteps(nts[b], R[b]) :
           Open(ob, hl, P[b][j]) /\ (rem > 0 /\ P[b][j] = ob[Len(ob)].pos => R[b][j] > 0)
      /\ \A a, b \in ObjContexts : \A j \in ObjSteps(nts[a], R[a]), i \in ObjSteps(nts[b], R[b]) :
           P[a][j] = P[b][i] => a = b /\ \A k \in Nat : j <= k /\ k < i => R[a][k] > 0
      /\ \A b \in ObjContexts : R[b][Len(nts[b])] = IF b = d THEN rem ELSE 0
      /\ rem > 0 => P[d][Len(nts[d])] = ob[Len(ob)].pos
  BY DEF Chains
<1>9. 1 \in ObjSteps(nts[c], R[c])
  BY <1>4, <1>l DEF ObjSteps
\* A step of the new chains is one of the old ones.
<1>10. ASSUME NEW j \in ObjSteps(nts2[c], R2[c])
       PROVE  j \in Nat /\ j + 1 \in ObjSteps(nts[c], R[c]) /\ (j = 0 => rm > 0)
  <2>1. j \in 0..l - 1 /\ (j > 0 \/ R2[c][0] > 0)
    BY <1>5 DEF ObjSteps
  <2>2. R2[c][0] = rm
    <3>1. 0 + 1 = 1
      OBVIOUS
    <3> QED BY <1>6, <3>1
  <2>3. j \in Nat /\ j + 1 \in 0..l /\ j + 1 > 0
    BY <2>1
  <2> QED BY <1>l, <2>1, <2>2, <2>3 DEF ObjSteps
<1>11. ASSUME NEW b \in ObjContexts, b # c, NEW j \in ObjSteps(nts2[b], R2[b])
       PROVE  j \in Nat /\ j \in ObjSteps(nts[b], R[b])
  BY <1>3, <1>4, <1>7, <1>11 DEF ObjSteps
<1>12. ASSUME NEW b \in ObjContexts PROVE Chain(nts2[b], P2[b], R2[b], hds)
  <2> SUFFICES ASSUME NEW j \in 1..Len(nts2[b])
               PROVE  IF R2[b][j - 1] = 0 THEN P2[b][j] = nts2[b][j].pos /\ R2[b][j] + nts2[b][j].bump = hds[P2[b][j]].len
                      ELSE P2[b][j] = P2[b][j - 1] /\ R2[b][j] + nts2[b][j].bump = R2[b][j - 1]
    BY DEF Chain
  <2>0. Chain(nts[b], P[b], R[b], hds)
    BY <1>8
  <2>1. CASE b = c
    <3>1. j \in 1..l - 1
      BY <1>5, <2>1
    <3>i. PICK i \in Nat : i = j - 1
      BY <3>1
    <3>k. PICK k \in Nat : k = j + 1
      BY <3>1
    <3>2. k \in 1..Len(nts[b]) /\ k - 1 = j /\ i + 1 = j /\ j \in Nat
      BY <1>l, <2>1, <3>1, <3>i, <3>k
    <3>3. P2[b][j] = P[b][k] /\ R2[b][j] = R[b][k] /\ P2[b][i] = P[b][j] /\ R2[b][i] = R[b][j]
          /\ nts2[b][j] = nts[b][k]
      BY <1>5, <1>6, <2>1, <3>1, <3>2, <3>k
    <3>4. IF R[b][k - 1] = 0 THEN P[b][k] = nts[b][k].pos /\ R[b][k] + nts[b][k].bump = hds[P[b][k]].len
          ELSE P[b][k] = P[b][k - 1] /\ R[b][k] + nts[b][k].bump = R[b][k - 1]
      BY <2>0, <3>2 DEF Chain
    <3>5. IF R[b][j] = 0 THEN P[b][k] = nts[b][k].pos /\ R[b][k] + nts[b][k].bump = hds[P[b][k]].len
          ELSE P[b][k] = P[b][j] /\ R[b][k] + nts[b][k].bump = R[b][j]
      BY <3>2, <3>4
    <3> QED BY <3>3, <3>5, <3>i
  <2>2. CASE b # c
    <3>1. j \in 1..Len(nts[b]) /\ j \in Nat /\ j - 1 \in Nat /\ nts2[b] = nts[b]
      BY <1>3, <1>4, <2>2
    <3>2. P2[b][j] = P[b][j] /\ R2[b][j] = R[b][j] /\ P2[b][j - 1] = P[b][j - 1]
          /\ R2[b][j - 1] = R[b][j - 1]
      BY <1>7, <2>2, <3>1
    <3>3. IF R[b][j - 1] = 0 THEN P[b][j] = nts[b][j].pos /\ R[b][j] + nts[b][j].bump = hds[P[b][j]].len
          ELSE P[b][j] = P[b][j - 1] /\ R[b][j] + nts[b][j].bump = R[b][j - 1]
      BY <2>0, <3>1 DEF Chain
    <3> QED BY <3>1, <3>2, <3>3
  <2> QED BY <2>1, <2>2
<1>13. ASSUME NEW b \in ObjContexts, NEW j \in ObjSteps(nts[b], R[b]), rm = 0, P[b][j] = st
       PROVE  b = c /\ j <= 1
  <2>1. b = c /\ \A k \in Nat : 1 <= k /\ k < j => R[c][k] > 0
    BY <1>8, <1>9, <1>13
  <2>2. j \in Nat
    BY <1>3 DEF ObjSteps
  <2>3. ~(1 < j)
    <3>1. ~(R[c][1] > 0)
      BY <1>13
    <3>2. 1 \in Nat /\ 1 <= 1
      OBVIOUS
    <3> QED BY <2>1, <3>1, <3>2
  <2> QED BY <2>1, <2>2, <2>3
<1>14. ASSUME NEW p, Open(ob, hl, p), rm = 0 => p # st PROVE Open(ob, hl2, p)
  BY <1>14 DEF Open, Taken
<1>15. ASSUME NEW b \in ObjContexts, NEW j \in ObjSteps(nts2[b], R2[b])
       PROVE  Open(ob, hl2, P2[b][j]) /\ (rem > 0 /\ P2[b][j] = ob[Len(ob)].pos => R2[b][j] > 0)
  <2>1. CASE b = c
    <3>k. PICK k : k = j + 1
      OBVIOUS
    <3>1. j \in Nat /\ k \in ObjSteps(nts[c], R[c]) /\ (j = 0 => rm > 0)
      BY <1>10, <2>1, <3>k
    <3>2. P2[b][j] = P[c][k] /\ R2[b][j] = R[c][k]
      BY <1>6, <2>1, <3>1, <3>k
    <3>3. ~(k <= 1) \/ rm # 0
      BY <3>1, <3>k
    <3>4. rm = 0 => P[c][k] # st
      BY <1>13, <3>1, <3>3
    <3>5. Open(ob, hl, P[c][k]) /\ (rem > 0 /\ P[c][k] = ob[Len(ob)].pos => R[c][k] > 0)
      BY <1>8, <3>1
    <3> QED BY <1>14, <3>2, <3>4, <3>5
  <2>2. CASE b # c
    <3>1. j \in Nat /\ j \in ObjSteps(nts[b], R[b])
      BY <1>11, <2>2
    <3>2. P2[b][j] = P[b][j] /\ R2[b][j] = R[b][j]
      BY <1>7, <2>2, <3>1
    <3>3. rm = 0 => P[b][j] # st
      BY <1>13, <2>2, <3>1
    <3>4. Open(ob, hl, P[b][j]) /\ (rem > 0 /\ P[b][j] = ob[Len(ob)].pos => R[b][j] > 0)
      BY <1>8, <3>1
    <3> QED BY <1>14, <3>2, <3>3, <3>4
  <2> QED BY <2>1, <2>2
\* Where a step of the new chains comes from.
<1>16. ASSUME NEW b \in ObjContexts, NEW j \in ObjSteps(nts2[b], R2[b])
       PROVE  \E k \in ObjSteps(nts[b], R[b]) : /\ j \in Nat /\ P2[b][j] = P[b][k] /\ k = IF b = c THEN j + 1 ELSE j
  <2>1. CASE b = c
    <3>k. PICK k : k = j + 1
      OBVIOUS
    <3>1. j \in Nat /\ k \in ObjSteps(nts[c], R[c])
      BY <1>10, <2>1, <3>k
    <3> QED BY <1>6, <2>1, <3>1, <3>k
  <2>2. CASE b # c
    BY <1>7, <1>11, <2>2
  <2> QED BY <2>1, <2>2
<1>17. ASSUME NEW a \in ObjContexts, NEW b \in ObjContexts, NEW j \in ObjSteps(nts2[a], R2[a]),
              NEW i \in ObjSteps(nts2[b], R2[b]),
              P2[a][j] = P2[b][i]
       PROVE  a = b /\ \A k \in Nat : j <= k /\ k < i => R2[a][k] > 0
  <2>1. PICK j1 \in ObjSteps(nts[a], R[a]) : j \in Nat /\ P2[a][j] = P[a][j1]
        /\ j1 = IF a = c THEN j + 1 ELSE j
    BY <1>16
  <2>2. PICK i1 \in ObjSteps(nts[b], R[b]) : i \in Nat /\ P2[b][i] = P[b][i1]
        /\ i1 = IF b = c THEN i + 1 ELSE i
    BY <1>16
  <2>a. P[a][j1] = P[b][i1]
    BY <1>17, <2>1, <2>2
  <2>3. a = b /\ \A k \in Nat : j1 <= k /\ k < i1 => R[a][k] > 0
    BY <1>8, <2>a
  <2>4. ASSUME NEW k \in Nat, j <= k, k < i PROVE R2[a][k] > 0
    <3>1. CASE a = c
      <4>k. PICK n \in Nat : n = k + 1
        OBVIOUS
      <4>1. j1 <= n /\ n < i1
        BY <2>1, <2>2, <2>3, <2>4, <3>1, <4>k
      <4> QED BY <1>6, <2>3, <3>1, <4>1, <4>k
    <3>2. CASE a # c
      BY <1>7, <2>1, <2>2, <2>3, <2>4, <3>2
    <3> QED BY <3>1, <3>2
  <2> QED BY <2>3, <2>4
<1>18. ASSUME NEW b \in ObjContexts PROVE R2[b][Len(nts2[b])] = R[b][Len(nts[b])]
              /\ P2[b][Len(nts2[b])] = P[b][Len(nts[b])]
  <2>1. CASE b = c
    <3>1. l - 1 \in Nat /\ l - 1 + 1 = l
      BY <1>4
    <3>2. P2[c][l - 1] = P[c][l] /\ R2[c][l - 1] = R[c][l]
      BY <1>6, <3>1
    <3> QED BY <1>5, <1>l, <2>1, <3>2
  <2>2. CASE b # c
    BY <1>3, <1>4, <1>7, <2>2
  <2> QED BY <2>1, <2>2
<1>19. \A b \in ObjContexts : R2[b][Len(nts2[b])] = IF b = d THEN rem ELSE 0
  BY <1>8, <1>18
<1>20. rem > 0 => P2[d][Len(nts2[d])] = ob[Len(ob)].pos
  BY <1>8, <1>18
<1>21. Chains(nts2, P2, R2, ob, hl2, hds, rem, d)
  BY <1>12, <1>15, <1>17, <1>19, <1>20 DEF Chains
<1>22. ASSUME NEW b \in ObjContexts PROVE P2[b][0] = ops2[b] /\ R2[b][0] = olr2[b]
  <2>1. CASE b = c
    <3>1. P2[c][0] = P[c][1] /\ R2[c][0] = R[c][1]
      <4>1. 0 + 1 = 1 /\ 0 \in Nat
        OBVIOUS
      <4> QED BY <1>6, <4>1
    <3> QED BY <2>1, <3>1 DEF Polled
  <2>2. CASE b # c
    BY <1>7, <2>2 DEF Polled
  <2> QED BY <2>1, <2>2
<1> QED BY <1>21, <1>22 DEF Queued

\* The headers have the same lengths, and what was there for the threads still is.
SameLengths(hds2, hds) == \A z \in ObjRecv!Pos : hds2[z].len = hds[z].len
StillOpen(nb, hl2, ob, hl) == \A z : Open(ob, hl, z) => Open(nb, hl2, z)

LEMMA QueuedReturn ==
  ASSUME ObjRecv!ObjRecvAssumption, NEW nts \in ObjQueues, NEW ops, NEW olr, NEW ob, NEW hl, NEW hl2,
         NEW hds, NEW hds2, NEW rem,
         NEW d \in ObjContexts, Queued(nts, ops, olr, ob, hl, hds, rem, d), NEW nb,
         SameLengths(hds2, hds),
         StillOpen(nb, hl2, ob, hl), rem > 0 => nb[Len(nb)].pos = ob[Len(ob)].pos
  PROVE  Queued(nts, ops, olr, nb, hl2, hds2, rem, d)
<1>1. PICK P \in PosMap : \E R \in RemMap :
        /\ Chains(nts, P, R, ob, hl, hds, rem, d)
        /\ \A b \in ObjContexts : P[b][0] = ops[b] /\ R[b][0] = olr[b]
  BY DEF Queued
<1>2. PICK R \in RemMap :
        /\ Chains(nts, P, R, ob, hl, hds, rem, d)
        /\ \A b \in ObjContexts : P[b][0] = ops[b] /\ R[b][0] = olr[b]
  BY <1>1
<1>3. /\ \A b \in ObjContexts : Chain(nts[b], P[b], R[b], hds)
      /\ \A b \in ObjContexts : \A j \in ObjSteps(nts[b], R[b]) :
           Open(ob, hl, P[b][j]) /\ (rem > 0 /\ P[b][j] = ob[Len(ob)].pos => R[b][j] > 0)
      /\ \A a, b \in ObjContexts : \A j \in ObjSteps(nts[a], R[a]), i \in ObjSteps(nts[b], R[b]) :
           P[a][j] = P[b][i] => a = b /\ \A k \in Nat : j <= k /\ k < i => R[a][k] > 0
      /\ \A b \in ObjContexts : R[b][Len(nts[b])] = IF b = d THEN rem ELSE 0
      /\ rem > 0 => P[d][Len(nts[d])] = ob[Len(ob)].pos
  BY <1>2 DEF Chains
<1>4. ASSUME NEW b \in ObjContexts PROVE Chain(nts[b], P[b], R[b], hds2)
  <2>1. Chain(nts[b], P[b], R[b], hds) /\ P[b] \in [Nat -> ObjRecv!Pos] /\ Len(nts[b]) \in Nat
    BY <1>3 DEF PosMap, ObjQueues
  <2>2. \A j \in 1..Len(nts[b]) : hds2[P[b][j]].len = hds[P[b][j]].len
    BY <2>1 DEF SameLengths
  <2> QED BY <2>1, <2>2 DEF Chain
<1>5. ASSUME NEW b \in ObjContexts, NEW j \in ObjSteps(nts[b], R[b])
      PROVE  Open(nb, hl2, P[b][j]) /\ (rem > 0 /\ P[b][j] = nb[Len(nb)].pos => R[b][j] > 0)
  BY <1>3 DEF StillOpen
<1>6. rem > 0 => P[d][Len(nts[d])] = nb[Len(nb)].pos
  BY <1>3
<1>7. Chains(nts, P, R, nb, hl2, hds2, rem, d)
  BY <1>3, <1>4, <1>5, <1>6 DEF Chains
<1> QED BY <1>2, <1>7 DEF Queued

\* No object, and none in a thread's hands, is where the next one starts.
LEMMA PlaceFree ==
  ASSUME ObjRecv!ObjRecvAssumption, MostFits, NEW ob \in Seq(Object), NEW hl, NEW hds,
         NEW ps \in ObjRecv!Pos, NEW av \in 0..ObjLen, NEW hd, NEW tl \in ObjRecv!Pos,
         NEW nt \in ObjRecv!Pos,
         Buffer(ob, hl, hds, ps, av, 0, hd, tl, nt)
  PROVE  ~Open(ob, hl, ps) /\ ps \notin hl
<1>1. PICK rc \in 0..ObjMost, hh \in 0..ObjMost, sm \in [0..Len(ob) -> Nat] :
    /\ Ends(ob, sm, tl) /\ Arrived(ob, sm, rc, 0) /\ Given(ob, sm, hh, hl, hds)
    /\ FilledFrom(ps, tl, nt, rc, av) /\ hh <= rc /\ hd = ObjRecv!Off(tl, hh)
  BY DEF Buffer
<1>2. ps = ObjRecv!Off(tl, rc)
  BY <1>1 DEF FilledFrom
<1>3. 0 \in 0..ObjLen
  BY DEF ObjRecv!ObjRecvAssumption
<1>4. \A i \in 1..Len(ob) : ob[i].pos # ps
  BY <1>1, <1>2, <1>3, NextPlace
<1>5. ps \notin hl
  BY <1>1, <1>4 DEF Given
<1> QED BY <1>4, <1>5 DEF Open
-----------------------------------------------------------------------------
(* The steps *)

LEMMA ReceiveIs ==
  ASSUME ObjRecv!ObjRecvAssumption, ObjTypes, NEW n \in 1..ObjLen, NEW o, NEW len \in Nat, o.len = len,
         NEW c \in ObjContexts, ObjRecv!Receive(n, o, c), obj_avail' > 0
  PROVE  /\ n <= obj_avail /\ ObjLen - obj_avail + n <= ObjMost /\ n <= len
         /\ pos' = ObjRecv!Off(pos, n) /\ obj_avail' = obj_avail - n /\ objrem' = len - n /\ db' = c
         /\ ooo' = 0
         /\ notes' = [notes EXCEPT ![db] = Append(notes[db], [pos |-> pos, bump |-> n])]
         /\ UNCHANGED <<obj_len_rem, obj_pos, rxb_head, rxb_tail, rxb_nictail, rx_held>>
<1>1. ooo = 0 /\ n \in Nat /\ obj_avail \in Nat /\ ObjLen \in Nat
  BY DEF ObjRecv!ObjRecvAssumption, ObjTypes
<1>2. n + (IF n = o.len THEN ooo ELSE 0) = n
  BY <1>1
<1>3. /\ n <= obj_avail /\ n <= len
      /\ pos' = ObjRecv!Off(pos, n) /\ obj_avail' = obj_avail - n /\ objrem' = len - n /\ db' = c
      /\ ooo' = 0
      /\ notes' = [notes EXCEPT ![db] = Append(notes[db], [pos |-> pos, bump |-> n])]
      /\ UNCHANGED <<obj_len_rem, obj_pos, rxb_head, rxb_tail, rxb_nictail, rx_held>>
  BY <1>1, <1>2 DEF ObjRecv!Receive, ObjRecv!ctxvars
<1>4. ObjLen - obj_avail + n <= ObjMost
  BY <1>1, <1>3 DEF ObjMost
<1> QED BY <1>3, <1>4

\* While no object is under way db_id may be any context.
LEMMA QueuedAny ==
  ASSUME NEW nts, NEW ops, NEW olr, NEW ob, NEW hl, NEW hds, NEW d, NEW c,
         Queued(nts, ops, olr, ob, hl, hds, 0, d)
  PROVE  Queued(nts, ops, olr, ob, hl, hds, 0, c)
BY DEF Queued, Chains

LEMMA ReceiveNewKeeps ==
  ASSUME ObjRecv!ObjRecvAssumption, MostFits, ObjInv, NEW n \in 1..ObjLen, NEW len \in ObjSizes,
         NEW c \in ObjContexts, ObjRecv!ReceiveNew(n, len, c), obj_avail' > 0, n = len \/ c = db
  PROVE  ObjInv'
<1> PICK o : o = [len |-> len]
  OBVIOUS
<1>1. objrem = 0 /\ ObjRecv!Receive(n, o, c) /\ o.len = len
      /\ rx_hdr' = [rx_hdr EXCEPT ![pos] = [len |-> len, done |-> FALSE]]
      /\ live' = Append(live, [pos |-> pos, len |-> len, done |-> FALSE])
  BY DEF ObjRecv!ReceiveNew
<1>2. ObjLen \in Nat /\ len \in 1..ObjLen /\ len \in Nat /\ n \in Nat /\ n >= 1
  BY DEF ObjRecv!ObjRecvAssumption
<1>T. ObjTypes
  BY DEF ObjInv
<1>3. /\ n <= obj_avail /\ ObjLen - obj_avail + n <= ObjMost /\ n <= len
      /\ pos' = ObjRecv!Off(pos, n) /\ obj_avail' = obj_avail - n /\ objrem' = len - n /\ db' = c
      /\ ooo' = 0
      /\ notes' = [notes EXCEPT ![db] = Append(notes[db], [pos |-> pos, bump |-> n])]
      /\ UNCHANGED <<obj_len_rem, obj_pos, rxb_head, rxb_tail, rxb_nictail, rx_held>>
  BY <1>1, <1>2, <1>T, ReceiveIs
<1>t. /\ pos \in ObjRecv!Pos /\ rxb_head \in ObjRecv!Pos /\ rxb_tail \in ObjRecv!Pos
      /\ rxb_nictail \in ObjRecv!Pos /\ obj_avail \in 0..ObjLen
      /\ rx_hdr \in [ObjRecv!Pos -> ObjHeader] /\ notes \in ObjQueues /\ live \in Seq(Object)
      /\ db \in ObjContexts
  BY <1>T DEF ObjTypes, ObjQueues
<1>x. PICK x : x = [pos |-> pos, bump |-> n]
  OBVIOUS
<1>y. PICK y : y = [pos |-> pos, len |-> len, done |-> FALSE]
  OBVIOUS
<1>4. x \in ObjNote /\ x.pos = pos /\ x.bump = n
  BY <1>t, <1>x DEF ObjNote
<1>5. y \in Object
  BY <1>2, <1>t, <1>y DEF Object
<1>r. PICK rem : rem = len - n
  OBVIOUS
<1>6. rem \in 0..ObjLen /\ rem \in ObjSize /\ rem + n = len /\ n \in 1..len
      /\ obj_avail - n \in 0..ObjLen
  BY <1>2, <1>3, <1>t, <1>r DEF ObjSize
<1>7. ObjRecv!Off(pos, n) \in ObjRecv!Pos
  <2>1. n \in 0..ObjLen
    BY <1>2, <1>3, <1>t
  <2> QED BY <1>t, <2>1, OffIs
<1>h. PICK hds : hds = [rx_hdr EXCEPT ![pos] = [len |-> len, done |-> FALSE]]
  OBVIOUS
<1>8. hds \in [ObjRecv!Pos -> ObjHeader]
  <2>1. [len |-> len, done |-> FALSE] \in ObjHeader
    BY <1>2 DEF ObjHeader
  <2> QED BY <1>t, <1>h, <2>1
<1>q. PICK nts : nts = [notes EXCEPT ![db] = Append(notes[db], x)]
  OBVIOUS
<1>9. nts \in ObjQueues /\ Sent(nts, notes, db, x)
  <2>1. Append(notes[db], x) \in Seq(ObjNote)
    BY <1>t, <1>4 DEF ObjQueues
  <2> QED BY <1>t, <1>q, <2>1 DEF ObjQueues, Sent
<1>b. PICK nb : nb = Append(live, y)
  OBVIOUS
<1>10. nb \in Seq(Object) /\ Begun(nb, hds, live, rx_hdr, pos, len)
  BY <1>t, <1>5, <1>b, <1>y, <1>h DEF Begun
<1>11. /\ pos' = ObjRecv!Off(pos, n) /\ obj_avail' = obj_avail - n /\ objrem' = rem /\ db' = c
       /\ ooo' = 0 /\ notes' = nts
       /\ rx_hdr' = hds /\ live' = nb
       /\ UNCHANGED <<obj_len_rem, obj_pos, rxb_head, rxb_tail, rxb_nictail, rx_held>>
  BY <1>1, <1>3, <1>r, <1>q, <1>x, <1>y, <1>h, <1>b
<1>12. Buffer(live, rx_held, rx_hdr, pos, obj_avail, 0, rxb_head, rxb_tail, rxb_nictail)
  BY <1>1 DEF ObjInv
<1>13. Queued(notes, obj_pos, obj_len_rem, live, rx_held, rx_hdr, 0, db)
  BY <1>1 DEF ObjInv
<1>14. Buffer(nb, rx_held, hds, ObjRecv!Off(pos, n), obj_avail - n, rem, rxb_head, rxb_tail, rxb_nictail)
  BY <1>2, <1>3, <1>t, <1>6, <1>12, <1>y, <1>h, <1>r, <1>b, BufferNew
<1>15. ~Open(live, rx_held, pos) /\ pos \notin rx_held
  BY <1>t, <1>12, PlaceFree
<1>16. Queued(nts, obj_pos, obj_len_rem, nb, rx_held, hds, rem, db)
  BY <1>2, <1>t, <1>4, <1>6, <1>9, <1>10, <1>13, <1>15, QueuedNew
<1>s. Queued(nts, obj_pos, obj_len_rem, nb, rx_held, hds, rem, c)
  <2>1. CASE c = db
    BY <1>16, <2>1
  <2>2. CASE n = len
    <3>1. rem = 0
      BY <1>2, <1>r, <2>2
    <3> QED BY <1>16, <3>1, QueuedAny
  <2> QED BY <2>1, <2>2
<1>17. ObjTypes'
  BY <1>T, <1>6, <1>7, <1>8, <1>9, <1>10, <1>11 DEF ObjTypes, ObjQueues
<1>18. (Buffer(live, rx_held, rx_hdr, pos, obj_avail, objrem, rxb_head, rxb_tail, rxb_nictail))'
  BY <1>11, <1>14
<1>19. (Queued(notes, obj_pos, obj_len_rem, live, rx_held, rx_hdr, objrem, db))'
  BY <1>11, <1>s
<1> QED BY <1>17, <1>18, <1>19 DEF ObjInv

LEMMA ReceiveMoreKeeps ==
  ASSUME ObjRecv!ObjRecvAssumption, MostFits, ObjInv, NEW n \in 1..ObjLen, ObjRecv!ReceiveMore(n), obj_avail' > 0
  PROVE  ObjInv'
<1> PICK o : o = [len |-> objrem]
  OBVIOUS
<1>1. objrem > 0 /\ ObjRecv!Receive(n, o, db) /\ o.len = objrem /\ UNCHANGED <<rx_hdr, live>>
  BY DEF ObjRecv!ReceiveMore
<1>T. ObjTypes
  BY DEF ObjInv
<1>t. /\ pos \in ObjRecv!Pos /\ rxb_head \in ObjRecv!Pos /\ rxb_tail \in ObjRecv!Pos
      /\ rxb_nictail \in ObjRecv!Pos /\ obj_avail \in 0..ObjLen
      /\ rx_hdr \in [ObjRecv!Pos -> ObjHeader] /\ notes \in ObjQueues /\ live \in Seq(Object)
      /\ db \in ObjContexts
      /\ objrem \in 0..ObjLen /\ objrem \in ObjSize
  BY <1>T DEF ObjTypes, ObjQueues, ObjSize
<1>2. ObjLen \in Nat /\ objrem \in Nat /\ n \in Nat /\ n >= 1 /\ objrem \in 1..ObjLen
  BY <1>1, <1>t DEF ObjRecv!ObjRecvAssumption
<1>3. /\ n <= obj_avail /\ ObjLen - obj_avail + n <= ObjMost /\ n <= objrem
      /\ pos' = ObjRecv!Off(pos, n) /\ obj_avail' = obj_avail - n /\ objrem' = objrem - n /\ db' = db
      /\ ooo' = 0
      /\ notes' = [notes EXCEPT ![db] = Append(notes[db], [pos |-> pos, bump |-> n])]
      /\ UNCHANGED <<obj_len_rem, obj_pos, rxb_head, rxb_tail, rxb_nictail, rx_held>>
  BY <1>1, <1>2, <1>T, <1>t, ReceiveIs
<1>x. PICK x : x = [pos |-> pos, bump |-> n]
  OBVIOUS
<1>4. x \in ObjNote /\ x.bump = n
  BY <1>t, <1>x DEF ObjNote
<1>r. PICK rem : rem = objrem - n
  OBVIOUS
<1>6. rem \in 0..ObjLen /\ rem \in ObjSize /\ rem + n = objrem /\ n \in 1..objrem
      /\ obj_avail - n \in 0..ObjLen
  BY <1>2, <1>3, <1>t, <1>r DEF ObjSize
<1>7. ObjRecv!Off(pos, n) \in ObjRecv!Pos
  <2>1. n \in 0..ObjLen
    BY <1>2, <1>3, <1>t
  <2> QED BY <1>t, <2>1, OffIs
<1>q. PICK nts : nts = [notes EXCEPT ![db] = Append(notes[db], x)]
  OBVIOUS
<1>9. nts \in ObjQueues /\ Sent(nts, notes, db, x)
  <2>1. Append(notes[db], x) \in Seq(ObjNote)
    BY <1>t, <1>4 DEF ObjQueues
  <2> QED BY <1>t, <1>q, <2>1 DEF ObjQueues, Sent
<1>11. /\ pos' = ObjRecv!Off(pos, n) /\ obj_avail' = obj_avail - n /\ objrem' = rem /\ db' = db
       /\ ooo' = 0 /\ notes' = nts
       /\ UNCHANGED <<rx_hdr, live, obj_len_rem, obj_pos, rxb_head, rxb_tail, rxb_nictail, rx_held>>
  BY <1>1, <1>3, <1>r, <1>q, <1>x
<1>12. Buffer(live, rx_held, rx_hdr, pos, obj_avail, objrem, rxb_head, rxb_tail, rxb_nictail)
  BY DEF ObjInv
<1>13. Queued(notes, obj_pos, obj_len_rem, live, rx_held, rx_hdr, objrem, db)
  BY DEF ObjInv
<1>14. Buffer(live, rx_held, rx_hdr, ObjRecv!Off(pos, n), obj_avail - n, rem, rxb_head, rxb_tail, rxb_nictail)
  BY <1>2, <1>3, <1>t, <1>6, <1>12, <1>r, BufferMore
<1>16. Queued(nts, obj_pos, obj_len_rem, live, rx_held, rx_hdr, rem, db)
  BY <1>1, <1>t, <1>4, <1>6, <1>9, <1>13, QueuedMore
<1>17. ObjTypes'
  BY <1>T, <1>6, <1>7, <1>9, <1>11 DEF ObjTypes, ObjQueues
<1>18. (Buffer(live, rx_held, rx_hdr, pos, obj_avail, objrem, rxb_head, rxb_tail, rxb_nictail))'
  BY <1>11, <1>14
<1>19. (Queued(notes, obj_pos, obj_len_rem, live, rx_held, rx_hdr, objrem, db))'
  BY <1>11, <1>16
<1> QED BY <1>17, <1>18, <1>19 DEF ObjInv

LEMMA UpdateKeeps ==
  ASSUME ObjRecv!ObjRecvAssumption, MostFits, ObjInv, NEW c \in ObjContexts, ObjRecv!Update(c)
  PROVE  ObjInv'
<1>T. ObjTypes
  BY DEF ObjInv
<1>t. /\ pos \in ObjRecv!Pos /\ rxb_head \in ObjRecv!Pos /\ rxb_tail \in ObjRecv!Pos
      /\ rxb_nictail \in ObjRecv!Pos /\ obj_avail \in 0..ObjLen
      /\ rx_hdr \in [ObjRecv!Pos -> ObjHeader] /\ notes \in ObjQueues /\ live \in Seq(Object)
      /\ db \in ObjContexts
      /\ objrem \in 0..ObjLen /\ objrem \in ObjSize /\ rx_held \subseteq ObjRecv!Pos
      /\ obj_len_rem \in [ObjContexts -> 0..ObjLen] /\ obj_pos \in [ObjContexts -> ObjRecv!Pos]
  BY <1>T DEF ObjTypes, ObjQueues, ObjSize
<1>1. notes[c] # <<>>
  BY DEF ObjRecv!Update
<1>12. Buffer(live, rx_held, rx_hdr, pos, obj_avail, objrem, rxb_head, rxb_tail, rxb_nictail)
  BY DEF ObjInv
<1>13. Queued(notes, obj_pos, obj_len_rem, live, rx_held, rx_hdr, objrem, db)
  BY DEF ObjInv
<1>2. PICK P \in PosMap : \E R \in RemMap :
        /\ Chains(notes, P, R, live, rx_held, rx_hdr, objrem, db)
        /\ About(c, Head(notes[c]), obj_pos, obj_len_rem, rx_hdr, P[c][1], R[c][1])
        /\ \A b \in ObjContexts : P[b][0] = obj_pos[b] /\ R[b][0] = obj_len_rem[b]
  BY <1>t, <1>1, <1>13, QueuedFirst
<1>3. PICK R \in RemMap :
        /\ Chains(notes, P, R, live, rx_held, rx_hdr, objrem, db)
        /\ About(c, Head(notes[c]), obj_pos, obj_len_rem, rx_hdr, P[c][1], R[c][1])
        /\ \A b \in ObjContexts : P[b][0] = obj_pos[b] /\ R[b][0] = obj_len_rem[b]
  BY <1>2
<1>s. PICK st \in ObjRecv!Pos : st = P[c][1]
  BY DEF PosMap
<1>r. PICK rm \in ObjSize : rm = R[c][1]
  BY DEF RemMap
<1>x. PICK x \in ObjNote : x = Head(notes[c])
  BY <1>t, <1>1 DEF ObjQueues
<1>4. About(c, x, obj_pos, obj_len_rem, rx_hdr, st, rm)
  BY <1>3, <1>s, <1>r, <1>x
<1>5. ObjLen \in Nat /\ rm \in Nat /\ rm \in 0..ObjLen /\ x.bump \in Nat
  BY DEF ObjRecv!ObjRecvAssumption, ObjSize, ObjNote
<1>n. PICK en : en = ObjRecv!Off(st, rx_hdr[st].len)
  OBVIOUS
<1>h. PICK hl2 : hl2 = IF rm = 0 THEN rx_held \cup {st} ELSE rx_held
  OBVIOUS
<1>d. PICK hd2 : hd2 = IF rm = 0 /\ ObjRecv!InInterval(rxb_head, rxb_tail, en) THEN en ELSE rxb_head
  OBVIOUS
<1>q. PICK nts : nts = [notes EXCEPT ![c] = Tail(notes[c])]
  OBVIOUS
<1>o. PICK ops2 : ops2 = [obj_pos EXCEPT ![c] = st]
  OBVIOUS
<1>p. PICK olr2 : olr2 = [obj_len_rem EXCEPT ![c] = rm]
  OBVIOUS
<1>6. /\ notes' = nts /\ obj_len_rem' = olr2 /\ obj_pos' = ops2 /\ rx_held' = hl2 /\ rxb_head' = hd2
      /\ UNCHANGED <<pos, obj_avail, objrem, db, ooo, rx_hdr, rxb_tail, rxb_nictail, live>>
  <2>1. st = IF obj_len_rem[c] = 0 THEN x.pos ELSE obj_pos[c]
    BY <1>4 DEF About
  <2>2. rm = (IF obj_len_rem[c] = 0 THEN rx_hdr[x.pos].len ELSE obj_len_rem[c]) - x.bump
    <3> PICK k : k = IF obj_len_rem[c] = 0 THEN rx_hdr[x.pos].len ELSE obj_len_rem[c]
      OBVIOUS
    <3>1. rm + x.bump = k
      BY <1>4 DEF About
    <3>2. rm = k - x.bump
      BY <1>5, <3>1
    <3> QED BY <3>2
  <2> QED BY <2>1, <2>2, <1>x, <1>n, <1>h, <1>d, <1>q, <1>o, <1>p DEF ObjRecv!Update, ObjRecv!fpvars
<1>7. 1 \in ObjSteps(notes[c], R[c])
  <2>1. notes[c] \in Seq(ObjNote)
    BY <1>t DEF ObjQueues
  <2>2. Len(notes[c]) \in Nat /\ Len(notes[c]) > 0
    BY <1>1, <2>1
  <2> QED BY <2>2 DEF ObjSteps
<1>8. Open(live, rx_held, st) /\ (objrem > 0 /\ rm = 0 => st # live[Len(live)].pos)
  <2>1. Open(live, rx_held, P[c][1]) /\ (objrem > 0 /\ P[c][1] = live[Len(live)].pos => R[c][1] > 0)
    BY <1>3, <1>7 DEF Chains
  <2> QED BY <1>s, <1>r, <2>1
<1>9. hl2 \subseteq ObjRecv!Pos /\ hd2 \in ObjRecv!Pos
  <2>1. en \in ObjRecv!Pos
    <3>1. rx_hdr[st] \in ObjHeader
      BY <1>t
    <3>2. rx_hdr[st].len \in 0..ObjLen
      BY <3>1 DEF ObjHeader
    <3> QED BY <1>n, <3>2, OffIs
  <2> QED BY <1>t, <1>h, <1>d, <2>1
<1>10. Buffer(live, hl2, rx_hdr, pos, obj_avail, objrem, hd2, rxb_tail, rxb_nictail)
  <2>1. CASE rm = 0
    <3>1. objrem > 0 => st # live[Len(live)].pos
      BY <1>8, <2>1
    <3>2. Buffer(live, rx_held \cup {st}, rx_hdr, pos, obj_avail, objrem,
                 IF ObjRecv!InInterval(rxb_head, rxb_tail, en) THEN en ELSE rxb_head, rxb_tail, rxb_nictail)
      BY <1>t, <1>12, <1>8, <1>n, <3>1, BufferGive
    <3> QED BY <1>h, <1>d, <2>1, <3>2
  <2>2. CASE rm # 0
    <3>1. hl2 = rx_held /\ hd2 = rxb_head
      BY <1>h, <1>d, <2>2
    <3> QED BY <1>12, <3>1
  <2> QED BY <2>1, <2>2
<1>11. Queued(nts, ops2, olr2, live, hl2, rx_hdr, objrem, db)
  <2>1. Taken(hl2, rx_held, st, rm)
    BY <1>h DEF Taken
  <2>2. \A b \in ObjContexts : ops2[b] = (IF b = c THEN st ELSE obj_pos[b]) /\ olr2[b] = (IF b = c THEN rm ELSE obj_len_rem[b])
    BY <1>t, <1>o, <1>p
  <2>3. Polled(nts, ops2, olr2, notes, obj_pos, obj_len_rem, c, st, rm)
    BY <1>q, <2>2 DEF Polled
  <2>4. \A b \in ObjContexts : P[b][0] = obj_pos[b] /\ R[b][0] = obj_len_rem[b]
    BY <1>3
  <2>5. Chains(notes, P, R, live, rx_held, rx_hdr, objrem, db)
    BY <1>3
  <2> QED BY <1>t, <1>1, <1>s, <1>r, <2>1, <2>3, <2>4, <2>5, QueuedStep
<1>17. ObjTypes'
  <2>1. nts \in [ObjContexts -> Seq(ObjNote)]
    <3>1. notes[c] \in Seq(ObjNote)
      BY <1>t DEF ObjQueues
    <3>2. Tail(notes[c]) \in Seq(ObjNote)
      BY <1>1, <3>1
    <3> QED BY <1>t, <1>q, <3>2 DEF ObjQueues
  <2>2. ops2 \in [ObjContexts -> ObjRecv!Pos]
    BY <1>t, <1>o
  <2>3. olr2 \in [ObjContexts -> 0..ObjLen]
    BY <1>t, <1>p, <1>5
  <2> QED BY <1>T, <1>6, <1>9, <2>1, <2>2, <2>3 DEF ObjTypes
<1>18. (Buffer(live, rx_held, rx_hdr, pos, obj_avail, objrem, rxb_head, rxb_tail, rxb_nictail))'
  BY <1>6, <1>10
<1>19. (Queued(notes, obj_pos, obj_len_rem, live, rx_held, rx_hdr, objrem, db))'
  BY <1>6, <1>11
<1> QED BY <1>17, <1>18, <1>19 DEF ObjInv

LEMMA RxDoneKeeps ==
  ASSUME ObjRecv!ObjRecvAssumption, MostFits, ObjInv, NEW p \in rx_held, ObjRecv!RxDone(p)
  PROVE  ObjInv'
<1>T. ObjTypes
  BY DEF ObjInv
<1>t. /\ notes \in ObjQueues /\ db \in ObjContexts /\ rx_held \subseteq ObjRecv!Pos
  BY <1>T DEF ObjTypes, ObjQueues
<1>12. Buffer(live, rx_held, rx_hdr, pos, obj_avail, objrem, rxb_head, rxb_tail, rxb_nictail)
  BY DEF ObjInv
<1>13. Queued(notes, obj_pos, obj_len_rem, live, rx_held, rx_hdr, objrem, db)
  BY DEF ObjInv
<1>l. PICK tl : tl = rxb_tail'
  OBVIOUS
<1>h. PICK hds : hds = rx_hdr'
  OBVIOUS
<1>1. /\ rx_held' = rx_held \ {p} /\ live' = ObjRecv!Returned(p) /\ rxb_tail' = tl /\ rx_hdr' = hds
      /\ UNCHANGED <<pos, obj_avail, objrem, db, ooo, notes, obj_len_rem, obj_pos, rxb_head, rxb_nictail>>
  BY <1>l, <1>h DEF ObjRecv!RxDone, ObjRecv!fpvars, ObjRecv!ctxvars
<1>2. IF p = rxb_tail THEN tl = ObjRecv!RunEnd[ObjLen] /\ hds = rx_hdr
                      ELSE tl = rxb_tail /\ hds = [rx_hdr EXCEPT ![p].done = TRUE]
  BY <1>l, <1>h DEF ObjRecv!RxDone
<1>3. /\ tl \in ObjRecv!Pos /\ hds \in [ObjRecv!Pos -> ObjHeader]
      /\ \A z \in ObjRecv!Pos : hds[z].len = rx_hdr[z].len
      /\ ObjRecv!Returned(p) \in Seq(Object)
      /\ Buffer(ObjRecv!Returned(p), rx_held \ {p}, hds, pos, obj_avail, objrem, rxb_head, tl, rxb_nictail)
      /\ \A z : Open(live, rx_held, z) => Open(ObjRecv!Returned(p), rx_held \ {p}, z)
      /\ objrem > 0 => ObjRecv!Returned(p)[Len(ObjRecv!Returned(p))].pos = live[Len(live)].pos
  BY <1>T, <1>12, <1>2, BufferReturn
<1>b. PICK nb : nb = ObjRecv!Returned(p)
  OBVIOUS
<1>e. PICK hl2 : hl2 = rx_held \ {p}
  OBVIOUS
<1>4. SameLengths(hds, rx_hdr) /\ StillOpen(nb, hl2, live, rx_held)
      /\ (objrem > 0 => nb[Len(nb)].pos = live[Len(live)].pos)
  BY <1>3, <1>b, <1>e DEF SameLengths, StillOpen
<1>5. Queued(notes, obj_pos, obj_len_rem, nb, hl2, hds, objrem, db)
  BY <1>t, <1>13, <1>4, QueuedReturn
<1>17. ObjTypes'
  <2>1. hl2 \subseteq ObjRecv!Pos
    BY <1>t, <1>e
  <2> QED BY <1>T, <1>1, <1>3, <1>e, <2>1 DEF ObjTypes
<1>18. (Buffer(live, rx_held, rx_hdr, pos, obj_avail, objrem, rxb_head, rxb_tail, rxb_nictail))'
  BY <1>1, <1>3
<1>19. (Queued(notes, obj_pos, obj_len_rem, live, rx_held, rx_hdr, objrem, db))'
  BY <1>1, <1>5, <1>b, <1>e
<1> QED BY <1>17, <1>18, <1>19 DEF ObjInv

LEMMA BumpKeeps ==
  ASSUME ObjRecv!ObjRecvAssumption, MostFits, ObjInv, ObjRecv!Bump
  PROVE  ObjInv'
<1>T. ObjTypes
  BY DEF ObjInv
<1>t. /\ pos \in ObjRecv!Pos /\ rxb_tail \in ObjRecv!Pos /\ rxb_nictail \in ObjRecv!Pos
      /\ obj_avail \in 0..ObjLen /\ objrem \in 0..ObjLen
      /\ rx_hdr \in [ObjRecv!Pos -> ObjHeader] /\ live \in Seq(Object)
  BY <1>T DEF ObjTypes
<1>12. Buffer(live, rx_held, rx_hdr, pos, obj_avail, objrem, rxb_head, rxb_tail, rxb_nictail)
  BY DEF ObjInv
<1>13. Queued(notes, obj_pos, obj_len_rem, live, rx_held, rx_hdr, objrem, db)
  BY DEF ObjInv
<1>n. PICK en : en = ObjRecv!Off(pos, obj_avail)
  OBVIOUS
<1>v. PICK nv : nv = obj_avail + IF rxb_tail >= en THEN rxb_tail - en ELSE ObjLen - en + rxb_tail
  OBVIOUS
<1>1. /\ obj_avail' = nv /\ rxb_nictail' = rxb_tail
      /\ UNCHANGED <<pos, objrem, db, ooo, rx_hdr, notes, obj_len_rem, obj_pos, rxb_head, rxb_tail, rx_held, live>>
  BY <1>n, <1>v DEF ObjRecv!Bump, ObjRecv!ctxvars
<1>2. nv \in 0..ObjLen /\ Buffer(live, rx_held, rx_hdr, pos, nv, objrem, rxb_head, rxb_tail, rxb_tail)
  BY <1>t, <1>12, <1>n, <1>v, BufferBump
<1>17. ObjTypes'
  BY <1>T, <1>1, <1>2 DEF ObjTypes
<1>18. (Buffer(live, rx_held, rx_hdr, pos, obj_avail, objrem, rxb_head, rxb_tail, rxb_nictail))'
  BY <1>1, <1>2
<1>19. (Queued(notes, obj_pos, obj_len_rem, live, rx_held, rx_hdr, objrem, db))'
  BY <1>1, <1>13
<1> QED BY <1>17, <1>18, <1>19 DEF ObjInv

LEMMA InitObj ==
  ASSUME ObjRecv!ObjRecvAssumption, MostFits, ObjRecv!Init
  PROVE  ObjInv
<1>1. ObjLen \in Nat /\ ObjLen > 0 /\ ObjMost \in Nat /\ 0 \in 0..ObjLen /\ 0 \in 0..ObjMost
      /\ ObjLen \in 0..ObjLen /\ 0 \in ObjRecv!Pos
  BY DEF ObjRecv!ObjRecvAssumption, ObjRecv!Pos, ObjMost
<1>2. /\ pos = 0 /\ obj_avail = ObjLen /\ objrem = 0 /\ db \in ObjContexts /\ ooo = 0
      /\ rx_hdr = [p \in ObjRecv!Pos |-> ObjRecv!NoHdr] /\ notes = [c \in ObjContexts |-> <<>>]
      /\ obj_len_rem = [c \in ObjContexts |-> 0] /\ obj_pos = [c \in ObjContexts |-> 0]
      /\ rxb_head = 0 /\ rxb_tail = 0 /\ rxb_nictail = 0 /\ rx_held = {} /\ live = <<>>
  BY DEF ObjRecv!Init
<1>3. ObjTypes
  <2>1. ObjRecv!NoHdr \in ObjHeader
    BY <1>1 DEF ObjRecv!NoHdr, ObjHeader
  <2> QED BY <1>1, <1>2, <2>1 DEF ObjTypes
<1>4. Buffer(live, rx_held, rx_hdr, pos, obj_avail, objrem, rxb_head, rxb_tail, rxb_nictail)
  <2>s. PICK sm : sm = [i \in 0..0 |-> 0]
    OBVIOUS
  <2>1. Len(live) = 0 /\ sm \in [0..Len(live) -> Nat] /\ sm[0] = 0 /\ (\A i \in 1..Len(live) : FALSE)
        /\ \A i, j \in 0..Len(live) : ~(i < j)
    BY <1>2, <2>s
  <2>2. Ends(live, sm, rxb_tail)
    BY <2>1 DEF Ends
  <2>3. Arrived(live, sm, 0, objrem)
    BY <1>2, <2>1 DEF Arrived
  <2>4. Given(live, sm, 0, rx_held, rx_hdr)
    <3>1. ~(Len(live) > 0)
      BY <2>1
    <3> QED BY <1>2, <2>1, <3>1 DEF Given
  <2>5. ObjRecv!Off(0, 0) = 0 /\ ObjLen - obj_avail - 0 = 0 /\ ObjLen - obj_avail <= ObjMost
        /\ 0 + obj_avail <= ObjLen
    BY <1>1, <1>2 DEF ObjRecv!Off
  <2>6. FilledFrom(pos, rxb_tail, rxb_nictail, 0, obj_avail)
    BY <1>2, <2>5 DEF FilledFrom
  <2>7. 0 <= 0 /\ rxb_head = ObjRecv!Off(rxb_tail, 0)
    BY <1>2, <2>5
  <2> QED BY <1>1, <2>1, <2>2, <2>3, <2>4, <2>6, <2>7 DEF Buffer
<1>5. Queued(notes, obj_pos, obj_len_rem, live, rx_held, rx_hdr, objrem, db)
  <2>P. PICK P : P = [c \in ObjContexts |-> [j \in Nat |-> 0]]
    OBVIOUS
  <2>1. P \in PosMap /\ P \in RemMap
    BY <1>1, <2>P DEF PosMap, RemMap, ObjSize
  <2>2. \A c \in ObjContexts, j \in Nat : P[c][j] = 0
    BY <2>P
  <2>3. \A c \in ObjContexts : Len(notes[c]) = 0 /\ (\A j \in 1..Len(notes[c]) : FALSE) /\ P[c][0] = 0
    BY <1>2, <2>2
  <2>4. \A c \in ObjContexts : Chain(notes[c], P[c], P[c], rx_hdr)
    BY <2>3 DEF Chain
  <2>5. ASSUME NEW c \in ObjContexts PROVE ObjSteps(notes[c], P[c]) = {}
    <3>1. Len(notes[c]) = 0 /\ P[c][0] = 0
      BY <2>3
    <3> QED BY <3>1 DEF ObjSteps
  <2>z. ~(objrem > 0) /\ \A c \in ObjContexts : P[c][Len(notes[c])] = 0
    BY <1>2, <2>3
  <2>y. \A c \in ObjContexts : P[c][Len(notes[c])] = IF c = db THEN objrem ELSE 0
    BY <1>2, <2>z
  <2>6. Chains(notes, P, P, live, rx_held, rx_hdr, objrem, db)
    BY <2>4, <2>5, <2>y, <2>z DEF Chains
  <2>7. \A b \in ObjContexts : P[b][0] = obj_pos[b] /\ P[b][0] = obj_len_rem[b]
    BY <1>2, <2>3
  <2> QED BY <2>1, <2>6, <2>7 DEF Queued
<1> QED BY <1>3, <1>4, <1>5 DEF ObjInv

LEMMA NextObj ==
  ASSUME ObjRecv!ObjRecvAssumption, MostFits, ObjInv, ObjRecv!Next, obj_avail' > 0, ObjTogether
  PROVE  ObjInv'
<1>1. CASE \E n \in 1..ObjLen : ObjRecv!ReceiveMore(n)
  BY <1>1, ReceiveMoreKeeps
<1>2. ASSUME NEW n \in 1..ObjLen, NEW len \in ObjSizes, NEW c \in ObjContexts, ObjRecv!ReceiveNew(n, len, c)
      PROVE  ObjInv'
  <2>1. objrem = 0 /\ objrem' = len - n /\ db' = c /\ n <= len /\ n \in Nat /\ len \in Nat
    BY <1>2 DEF ObjRecv!ReceiveNew, ObjRecv!Receive, ObjRecv!ObjRecvAssumption
  <2>2. n = len \/ c = db
    BY <2>1 DEF ObjTogether
  <2> QED BY <1>2, <2>2, ReceiveNewKeeps
<1>3. CASE \E c \in ObjContexts : ObjRecv!Update(c)
  BY <1>3, UpdateKeeps
<1>4. CASE \E p \in rx_held : ObjRecv!RxDone(p)
  BY <1>4, RxDoneKeeps
<1>5. CASE ObjRecv!Bump
  BY <1>5, BumpKeeps
<1> QED BY <1>1, <1>2, <1>3, <1>4, <1>5 DEF ObjRecv!Next

LEMMA RestObj ==
  ASSUME ObjInv, UNCHANGED ObjRecv!vars
  PROVE  ObjInv'
<1>1. UNCHANGED <<pos, obj_avail, objrem, db, ooo, rx_hdr, notes, obj_len_rem, obj_pos, rxb_head, rxb_tail, rxb_nictail, rx_held, live>>
  BY DEF ObjRecv!vars
<1>2. ObjTypes'
  BY <1>1 DEF ObjInv, ObjTypes
<1>3. (Buffer(live, rx_held, rx_hdr, pos, obj_avail, objrem, rxb_head, rxb_tail, rxb_nictail))'
  BY <1>1 DEF ObjInv
<1>4. (Queued(notes, obj_pos, obj_len_rem, live, rx_held, rx_hdr, objrem, db))'
  BY <1>1 DEF ObjInv
<1> QED BY <1>2, <1>3, <1>4 DEF ObjInv

\* The remainder of a distance less than one round.
LEMMA Round ==
  ASSUME NEW k \in Nat, k > 0, NEW n \in 0..k - 1
  PROVE  n % k = n /\ (n - k) % k = n
OBVIOUS

LEMMA Distance ==
  ASSUME ObjRecv!ObjRecvAssumption, NEW p \in ObjRecv!Pos, NEW n \in 0..ObjLen, n < ObjLen
  PROVE  (ObjRecv!Off(p, n) - p) % ObjLen = n
         /\ (n > 0 => ((ObjRecv!Off(p, n) - p - 1) % ObjLen) + 1 = n)
<1>1. ObjLen \in Nat /\ ObjLen > 0 /\ p \in Nat /\ p < ObjLen /\ n \in 0..ObjLen - 1
  BY DEF ObjRecv!ObjRecvAssumption, ObjRecv!Pos
<1>2. n % ObjLen = n /\ (n - ObjLen) % ObjLen = n
  BY <1>1, Round
<1>3. ObjRecv!Off(p, n) - p = n \/ ObjRecv!Off(p, n) - p = n - ObjLen
  BY <1>1 DEF ObjRecv!Off
<1>4. ASSUME n > 0 PROVE ((ObjRecv!Off(p, n) - p - 1) % ObjLen) + 1 = n
  <2>1. PICK m \in Nat : m = n - 1
    BY <1>1, <1>4
  <2>2. m \in 0..ObjLen - 1 /\ m + 1 = n
    BY <1>1, <2>1
  <2>3. m % ObjLen = m /\ (m - ObjLen) % ObjLen = m
    BY <1>1, <2>2, Round
  <2>4. ObjRecv!Off(p, n) - p - 1 = m \/ ObjRecv!Off(p, n) - p - 1 = m - ObjLen
    BY <1>1, <2>1 DEF ObjRecv!Off
  <2>5. (ObjRecv!Off(p, n) - p - 1) % ObjLen = m
    BY <2>3, <2>4
  <2> QED BY <2>2, <2>5
<1> QED BY <1>2, <1>3, <1>4

LEMMA ObjSound ==
  ASSUME ObjRecv!ObjRecvAssumption, MostFits, ObjInv
  PROVE  ObjRecv!TypeOK /\ ObjRecv!FreedExact /\ ObjRecv!HeadBeyond /\ ObjRecv!BumpWithin
<1>T. ObjTypes
  BY DEF ObjInv
<1>t. /\ pos \in ObjRecv!Pos /\ rxb_head \in ObjRecv!Pos /\ rxb_tail \in ObjRecv!Pos
      /\ objrem \in 0..ObjLen /\ notes \in ObjQueues /\ live \in Seq(Object)
      /\ obj_len_rem \in [ObjContexts -> 0..ObjLen]
  BY <1>T DEF ObjTypes, ObjQueues
<1>12. Buffer(live, rx_held, rx_hdr, pos, obj_avail, objrem, rxb_head, rxb_tail, rxb_nictail)
  BY DEF ObjInv
<1>13. Queued(notes, obj_pos, obj_len_rem, live, rx_held, rx_hdr, objrem, db)
  BY DEF ObjInv
<1>1. PICK rc \in 0..ObjMost, hh \in 0..ObjMost, sm \in [0..Len(live) -> Nat] :
    /\ Ends(live, sm, rxb_tail) /\ Arrived(live, sm, rc, objrem) /\ Given(live, sm, hh, rx_held, rx_hdr)
    /\ FilledFrom(pos, rxb_tail, rxb_nictail, rc, obj_avail) /\ hh <= rc
    /\ rxb_head = ObjRecv!Off(rxb_tail, hh)
  BY <1>12 DEF Buffer
<1>2. ObjLen \in Nat /\ ObjLen > 0 /\ ObjMost \in Nat /\ ObjMost < ObjLen /\ rc \in Nat /\ hh \in Nat
      /\ hh <= ObjMost /\ Len(live) \in Nat
  BY <1>t DEF ObjRecv!ObjRecvAssumption, MostFits
<1>3. ObjRecv!Off(rxb_tail, 0) = rxb_tail
  BY <1>2, <1>t DEF ObjRecv!Off, ObjRecv!Pos
<1>4. ObjRecv!TypeOK
  BY <1>T DEF ObjTypes, ObjRecv!TypeOK
<1>5. ObjRecv!FreedExact
  <2>1. CASE live # <<>>
    <3>1. 1 \in 1..Len(live) /\ 1 - 1 = 0
      BY <1>t, <2>1
    <3>2. live[1].pos = ObjRecv!Off(rxb_tail, sm[0]) /\ sm[0] = 0
      BY <1>1, <3>1 DEF Ends
    <3> QED BY <1>3, <2>1, <3>2 DEF ObjRecv!FreedExact
  <2>2. CASE live = <<>>
    <3>1. Len(live) = 0 /\ sm[0] = 0
      BY <1>1, <2>2 DEF Ends
    <3>2. rc = 0
      BY <1>1, <1>2, <1>t, <3>1 DEF Arrived
    <3> QED BY <1>1, <1>3, <2>2, <3>2 DEF ObjRecv!FreedExact, FilledFrom
  <2> QED BY <2>1, <2>2
<1>s. ASSUME NEW j \in 1..Len(live)
      PROVE  /\ sm[j - 1] \in Nat /\ sm[j] \in Nat /\ sm[j - 1] < rc /\ sm[j - 1] < sm[j]
             /\ live[j].len \in 1..ObjLen /\ sm[j] = sm[j - 1] + live[j].len
             /\ live[j].pos = ObjRecv!Off(rxb_tail, sm[j - 1])
  <2>1. PICK ob \in Seq(Object) : ob = live
    BY <1>t
  <2>2. PICK tl \in ObjRecv!Pos : tl = rxb_tail
    BY <1>t
  <2>3. PICK rem \in 0..ObjLen : rem = objrem
    BY <1>t
  <2>4. Ends(ob, sm, tl) /\ Arrived(ob, sm, rc, rem) /\ j \in 1..Len(ob) /\ sm \in [0..Len(ob) -> Nat]
    BY <1>1, <2>1, <2>2, <2>3
  <2>a. rc \in 0..ObjMost
    OBVIOUS
  <2>5. /\ sm[j - 1] \in Nat /\ sm[j] \in Nat /\ sm[j - 1] < rc /\ sm[j - 1] < sm[j]
        /\ ob[j].len \in 1..ObjLen /\ sm[j] = sm[j - 1] + ob[j].len
        /\ ob[j].pos = ObjRecv!Off(tl, sm[j - 1])
    BY <2>4, <2>a, Starts
  <2> QED BY <2>1, <2>2, <2>5
<1>6. ObjRecv!HeadBeyond
  <2> SUFFICES ASSUME NEW i \in DOMAIN live, live[i].pos \in rx_held
               PROVE  ((rxb_head - rxb_tail - 1) % ObjLen) + 1 >= ((live[i].pos - rxb_tail) % ObjLen) + live[i].len
    BY DEF ObjRecv!HeadBeyond
  <2>1. i \in 1..Len(live)
    BY <1>t
  <2>2. /\ sm[i - 1] \in Nat /\ sm[i] \in Nat /\ sm[i - 1] < rc /\ sm[i - 1] < sm[i]
        /\ live[i].len \in 1..ObjLen /\ sm[i] = sm[i - 1] + live[i].len
        /\ live[i].pos = ObjRecv!Off(rxb_tail, sm[i - 1])
    BY <1>s, <2>1
  <2>3. sm[i] <= hh
    BY <1>1, <2>1 DEF Given
  <2>a. PICK a \in Nat : a = sm[i - 1]
    BY <2>2
  <2>b. PICK b \in Nat : b = sm[i]
    BY <2>2
  <2>4. a \in 0..ObjLen /\ a < ObjLen /\ hh \in 0..ObjLen /\ hh < ObjLen /\ hh > 0
    BY <1>2, <2>2, <2>3, <2>a, <2>b
  <2>5. (ObjRecv!Off(rxb_tail, a) - rxb_tail) % ObjLen = a
    BY <1>t, <2>4, Distance
  <2>6. ((ObjRecv!Off(rxb_tail, hh) - rxb_tail - 1) % ObjLen) + 1 = hh
    BY <1>t, <2>4, Distance
  <2>7. (live[i].pos - rxb_tail) % ObjLen = a /\ ((rxb_head - rxb_tail - 1) % ObjLen) + 1 = hh
    BY <1>1, <2>2, <2>5, <2>6, <2>a
  <2>8. hh >= a + live[i].len
    BY <1>2, <2>2, <2>3, <2>a
  <2> QED BY <2>7, <2>8
<1>7. ObjRecv!BumpWithin
  <2> SUFFICES ASSUME NEW c \in ObjContexts, notes[c] # <<>>
               PROVE  Head(notes[c]).bump <= IF obj_len_rem[c] = 0 THEN rx_hdr[Head(notes[c]).pos].len ELSE obj_len_rem[c]
    BY DEF ObjRecv!BumpWithin
  <2>1. PICK P \in PosMap : \E R \in RemMap :
          /\ Chains(notes, P, R, live, rx_held, rx_hdr, objrem, db)
          /\ About(c, Head(notes[c]), obj_pos, obj_len_rem, rx_hdr, P[c][1], R[c][1])
          /\ \A b \in ObjContexts : P[b][0] = obj_pos[b] /\ R[b][0] = obj_len_rem[b]
    <3>1. db \in ObjContexts
      BY <1>T DEF ObjTypes
    <3> QED BY <1>t, <1>13, <3>1, QueuedFirst
  <2>2. PICK R \in RemMap : About(c, Head(notes[c]), obj_pos, obj_len_rem, rx_hdr, P[c][1], R[c][1])
    BY <2>1
  <2>r. PICK rm \in ObjSize : rm = R[c][1]
    BY DEF RemMap
  <2>x. PICK x \in ObjNote : x = Head(notes[c])
    BY <1>t DEF ObjQueues
  <2>k. PICK k : k = IF obj_len_rem[c] = 0 THEN rx_hdr[x.pos].len ELSE obj_len_rem[c]
    OBVIOUS
  <2>3. rm + x.bump = k
    BY <2>2, <2>r, <2>x, <2>k DEF About
  <2>4. rm \in Nat /\ x.bump \in Nat
    BY <1>2 DEF ObjSize, ObjNote
  <2>5. x.bump <= k
    BY <2>3, <2>4
  <2> QED BY <2>5, <2>x, <2>k
<1> QED BY <1>4, <1>5, <1>6, <1>7
-----------------------------------------------------------------------------
(* Both, as MCFast runs them *)

LEMMA MostIs == ObjRecv!ObjRecvAssumption => MostFits
BY DEF ObjRecv!ObjRecvAssumption, MostFits, ObjMost

LEMMA InitReceive ==
  MCInit => (part = "window" => WinInv) /\ (part = "obj_recv" => ObjInv)
BY Assumptions, InitWindow, InitObj, MostIs DEF MCInit, Assumptions

LEMMA NextWindowPart ==
  (part = "window" => WinInv) /\ [MCNext]_mcVars => (part = "window" => WinInv)'
<1> SUFFICES ASSUME part = "window" => WinInv, [MCNext]_mcVars, part' = "window"
             PROVE  WinInv'
  OBVIOUS
<1>1. part = "window"
  BY DEF MCNext, OthersRest, Rest, mcVars
<1>2. Window!Next \/ UNCHANGED recvWindowVars
  BY <1>1 DEF MCNext, Rest, mcVars
<1>3. Window!Next \/ UNCHANGED Window!vars
  BY <1>2 DEF recvWindowVars, Window!vars
<1> QED BY <1>1, <1>3, Assumptions, NextWindow, RestWindow DEF Assumptions

\* What the code does not see to: the buffer of objects is never full, and
\* objects in several segments go to the context of the one before.
NeverFull == part = "obj_recv" => obj_avail > 0
KeptTogether == part = "obj_recv" => ObjTogether

LEMMA NextObjPart ==
  (part = "obj_recv" => ObjInv) /\ [MCNext]_mcVars /\ NeverFull' /\ [KeptTogether]_mcVars
    => (part = "obj_recv" => ObjInv)'
<1> SUFFICES ASSUME part = "obj_recv" => ObjInv, [MCNext]_mcVars, NeverFull', [KeptTogether]_mcVars,
                    part' = "obj_recv"
             PROVE  ObjInv'
  OBVIOUS
<1>1. part = "obj_recv"
  BY DEF MCNext, OthersRest, Rest, mcVars
<1>2. ObjRecv!Next \/ UNCHANGED objRecvVars
  BY <1>1 DEF MCNext, Rest, mcVars
<1>3. CASE UNCHANGED objRecvVars
  <2>1. UNCHANGED ObjRecv!vars
    BY <1>3 DEF objRecvVars, ObjRecv!vars
  <2> QED BY <1>1, <2>1, RestObj
<1>4. CASE ObjRecv!Next
  <2>1. CASE UNCHANGED mcVars
    <3>1. UNCHANGED ObjRecv!vars
      BY <2>1 DEF mcVars, objRecvVars, ObjRecv!vars
    <3> QED BY <1>1, <3>1, RestObj
  <2>2. CASE KeptTogether
    <3>1. obj_avail' > 0 /\ ObjTogether
      BY <1>1, <2>2 DEF NeverFull, KeptTogether
    <3> QED BY <1>1, <1>4, <3>1, Assumptions, MostIs, NextObj DEF Assumptions
  <2> QED BY <2>1, <2>2
<1> QED BY <1>2, <1>3, <1>4

\* conn.c, init.c and fast_flows.c: for every length of the buffers and of
\* their queues the fast path never counts bytes as free that are not, however
\* late or lost its notifications and bumps are.
THEOREM ReceiveWindowSound ==
  MCSpec => [](part = "window" => Window!TypeOK /\ Window!NothingOverwritten)
<1>1. (part = "window" => WinInv) => (part = "window" => Window!TypeOK /\ Window!NothingOverwritten)
  BY Assumptions, WindowSound DEF Assumptions
<1>2. MCInit => (part = "window" => WinInv)
  BY InitReceive
<1> QED BY <1>1, <1>2, NextWindowPart, PTL DEF MCSpec

\* conn.c, init.c and fast_flows.c: besides, of a buffer of objects exactly the
\* part up to the first object not given back is freed, its head never moves
\* back over an object a thread has, and no notification reaches past its
\* object, for every number of contexts and in whatever order their threads
\* finish; in the behaviours in which the buffer is never completely full and
\* no object in several segments changes the context, neither of which the
\* code sees to.
THEOREM ReceiveSound ==
  MCSpec /\ []NeverFull /\ [][KeptTogether]_mcVars => []ReceiveBuffersSound
<1>1. (part = "window" => WinInv) /\ (part = "obj_recv" => ObjInv) => ReceiveBuffersSound
  BY Assumptions, WindowSound, ObjSound, MostIs DEF Assumptions, ReceiveBuffersSound
<1>2. MCInit => (part = "window" => WinInv) /\ (part = "obj_recv" => ObjInv)
  BY InitReceive
<1>3. (part = "window" => WinInv) /\ [MCNext]_mcVars => (part = "window" => WinInv)'
  BY NextWindowPart
<1>4. (part = "obj_recv" => ObjInv) /\ [MCNext]_mcVars /\ NeverFull' /\ [KeptTogether]_mcVars
        => (part = "obj_recv" => ObjInv)'
  BY NextObjPart
<1> QED BY <1>1, <1>2, <1>3, <1>4, PTL DEF MCSpec
=============================================================================
