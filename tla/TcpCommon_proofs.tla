-------------------------- MODULE TcpCommon_proofs --------------------------
(***************************************************************************)
(* What the arithmetic of TcpCommon guarantees, for every width and every  *)
(* buffer size.                                                            *)
(***************************************************************************)
EXTENDS TcpCommon, TLAPS

\* The conversion of a length to uint16_t never makes it larger, and leaves a
\* length that fits alone.
LEMMA U16Range ==
  ASSUME NEW x \in Nat
  PROVE  U16(x) \in 0 .. LenMod - 1 /\ U16(x) <= x /\ (x < LenMod => U16(x) = x)
  BY TcpCommonAssumption DEF U16

\* Sums and differences of two sequence numbers, or of one and a length.
LEMMA U32Range ==
  ASSUME NEW x \in Int, -SeqMod <= x, x < 2 * SeqMod
  PROVE  U32(x) \in SeqNo
  BY TcpCommonAssumption DEF U32, SeqNo

\* The distance of two sequence numbers, and of one moved on by n.
LEMMA SeqDistance ==
  ASSUME NEW a \in SeqNo, NEW s \in SeqNo
  PROVE  /\ U32(s - a) \in SeqNo /\ (s # a => U32(s - a) > 0)
         /\ U32(a - a) = 0
         /\ \A n \in Nat : U32(s - a) + n < SeqMod =>
              U32(U32(s + n) - a) = U32(s - a) + n
  BY TcpCommonAssumption DEF U32, SeqNo

\* The four cases of tcp_trim_rxbuf, with the wrapped ends of the segment (seq,
\* pb) and of the free part of the buffer (sa, sb).
LEMMA TrimCases ==
  ASSUME NEW f, NEW seq \in SeqNo, NEW len \in Nat,
         f.rx_next_seq \in SeqNo, f.rx_avail \in 0 .. RxLen,
         ~tcp_trim_rxbuf(f, seq, len).drop
  PROVE  LET t == tcp_trim_rxbuf(f, seq, len)
             pb == U32(seq + U16(len))
             sa == f.rx_next_seq
             sb == U32(f.rx_next_seq + f.rx_avail)
             Trims(start, end) ==
               /\ t.trim_start = IF start THEN U32(sa - seq) ELSE 0
               /\ t.trim_end = IF end THEN U32(pb - sb) ELSE 0
         IN  /\ seq <= pb /\ sa <= sb =>
                  ~(pb < sa \/ seq > sb) /\ Trims(seq < sa, pb > sb)
             /\ seq <= pb /\ sa > sb =>
                  /\ ~(seq > sb /\ pb < sa)
                  /\ Trims(seq > sb /\ seq < sa, pb >= sb /\ pb < sa)
             /\ seq > pb /\ sa <= sb =>
                  /\ ~(seq > sb /\ pb < sa)
                  /\ Trims(sa <= pb \/ sa > seq, pb > sb \/ sa >= seq)
             /\ seq > pb /\ sa > sb => Trims(seq < sa, pb > sb)
<1> DEFINE t == tcp_trim_rxbuf(f, seq, len)
           pb == U32(seq + U16(len))
           sa == f.rx_next_seq
           sb == U32(f.rx_next_seq + f.rx_avail)
           Trim(drop, start, end) ==
             [drop       |-> drop,
              trim_start |-> IF start THEN U32(sa - seq) ELSE 0,
              trim_end   |-> IF end THEN U32(pb - sb) ELSE 0]
           Trims(start, end) ==
             /\ t.trim_start = IF start THEN U32(sa - seq) ELSE 0
             /\ t.trim_end = IF end THEN U32(pb - sb) ELSE 0
           Goal ==
             /\ seq <= pb /\ sa <= sb =>
                  ~(pb < sa \/ seq > sb) /\ Trims(seq < sa, pb > sb)
             /\ seq <= pb /\ sa > sb =>
                  /\ ~(seq > sb /\ pb < sa)
                  /\ Trims(seq > sb /\ seq < sa, pb >= sb /\ pb < sa)
             /\ seq > pb /\ sa <= sb =>
                  /\ ~(seq > sb /\ pb < sa)
                  /\ Trims(sa <= pb \/ sa > seq, pb > sb \/ sa >= seq)
             /\ seq > pb /\ sa > sb => Trims(seq < sa, pb > sb)
<1> SUFFICES Goal
  OBVIOUS
<1>1. pb \in SeqNo /\ sb \in SeqNo
  BY U16Range, TcpCommonAssumption DEF U32, SeqNo
<1>2. ~t.drop
  OBVIOUS
<1>3. CASE seq <= pb /\ sa <= sb
  <2>1. t = Trim(pb < sa \/ seq > sb, seq < sa, pb > sb)
    BY <1>1, <1>3 DEF tcp_trim_rxbuf, SeqNo
  <2> HIDE DEF t, pb, sb
  <2>2. ~(pb < sa \/ seq > sb) /\ Trims(seq < sa, pb > sb)
    BY <1>2, <2>1
  <2> QED BY <1>1, <1>3, <2>2 DEF SeqNo
<1>4. CASE seq <= pb /\ sa > sb
  <2>1. t = Trim(seq > sb /\ pb < sa, seq > sb /\ seq < sa, pb >= sb /\ pb < sa)
    BY <1>1, <1>4 DEF tcp_trim_rxbuf, SeqNo
  <2> HIDE DEF t, pb, sb
  <2>2. ~(seq > sb /\ pb < sa) /\ Trims(seq > sb /\ seq < sa, pb >= sb /\ pb < sa)
    BY <1>2, <2>1
  <2> QED BY <1>1, <1>4, <2>2 DEF SeqNo
<1>5. CASE seq > pb /\ sa <= sb
  <2>1. t = Trim(seq > sb /\ pb < sa, sa <= pb \/ sa > seq, pb > sb \/ sa >= seq)
    BY <1>1, <1>5 DEF tcp_trim_rxbuf, SeqNo
  <2> HIDE DEF t, pb, sb
  <2>2. ~(seq > sb /\ pb < sa) /\ Trims(sa <= pb \/ sa > seq, pb > sb \/ sa >= seq)
    BY <1>2, <2>1
  <2> QED BY <1>1, <1>5, <2>2 DEF SeqNo
<1>6. CASE seq > pb /\ sa > sb
  <2>1. t = Trim(FALSE, seq < sa, pb > sb)
    BY <1>1, <1>6 DEF tcp_trim_rxbuf, SeqNo
  <2> HIDE DEF t, pb, sb
  <2>2. Trims(seq < sa, pb > sb)
    BY <1>2, <2>1
  <2> QED BY <1>1, <1>6, <2>2 DEF SeqNo
<1> HIDE DEF t, pb, sb, Goal
<1> QED BY <1>1, <1>3, <1>4, <1>5, <1>6 DEF SeqNo

\* Outside TrimMisses, what tcp_trim_rxbuf keeps of a segment lies in the free
\* part of the receive buffer, and the trims never exceed the segment.
THEOREM TrimFits ==
  ASSUME NEW f, NEW seq \in SeqNo, NEW len \in 0 .. LenMod - 1,
         f.rx_next_seq \in SeqNo, f.rx_avail \in 0 .. RxLen,
         ~TrimMisses(f, seq, len),
         ~tcp_trim_rxbuf(f, seq, len).drop
  PROVE  LET t == tcp_trim_rxbuf(f, seq, len)
             left == len - (t.trim_start + t.trim_end)
             off == U32(U32(seq + t.trim_start) - f.rx_next_seq)
         IN  /\ t.trim_start \in Nat /\ t.trim_end \in Nat /\ left \in Nat
             /\ left > 0 => off + left <= f.rx_avail
             /\ U32(seq + t.trim_start) \in SeqNo
<1> DEFINE t == tcp_trim_rxbuf(f, seq, len)
           pb == U32(seq + len)
           sa == f.rx_next_seq
           sb == U32(f.rx_next_seq + f.rx_avail)
           Trims(start, end) ==
             /\ t.trim_start = IF start THEN U32(sa - seq) ELSE 0
             /\ t.trim_end = IF end THEN U32(pb - sb) ELSE 0
<1>0. len \in Nat /\ len < LenMod
  BY TcpCommonAssumption
<1>1. U16(len) = len
  BY <1>0, U16Range
<1>2. /\ seq <= pb /\ sa <= sb =>
            ~(pb < sa \/ seq > sb) /\ Trims(seq < sa, pb > sb)
      /\ seq <= pb /\ sa > sb =>
            /\ ~(seq > sb /\ pb < sa)
            /\ Trims(seq > sb /\ seq < sa, pb >= sb /\ pb < sa)
      /\ seq > pb /\ sa <= sb =>
            /\ ~(seq > sb /\ pb < sa)
            /\ Trims(sa <= pb \/ sa > seq, pb > sb \/ sa >= seq)
      /\ seq > pb /\ sa > sb => Trims(seq < sa, pb > sb)
  BY <1>1, TrimCases, TcpCommonAssumption
<1>3. ~(/\ seq > pb /\ sa < seq
        /\ seq <= sa + f.rx_avail /\ sa + f.rx_avail < SeqMod)
  BY <1>1 DEF TrimMisses
<1> SUFFICES /\ t.trim_start \in Nat /\ t.trim_end \in Nat
             /\ t.trim_start + t.trim_end <= len
             /\ t.trim_start + t.trim_end < len =>
                   U32(U32(seq + t.trim_start) - sa)
                     + len - (t.trim_start + t.trim_end) <= f.rx_avail
             /\ U32(seq + t.trim_start) \in SeqNo
  BY TcpCommonAssumption
<1> HIDE DEF t
<1>4. CASE seq <= pb /\ sa <= sb
  <2>1. pb = seq + len /\ sb = sa + f.rx_avail
    BY <1>0, <1>4, TcpCommonAssumption DEF U32, SeqNo
  <2>2. /\ t.trim_start = IF seq < sa THEN sa - seq ELSE 0
        /\ t.trim_end = IF pb > sb THEN pb - sb ELSE 0
    BY <1>0, <1>2, <1>4, <2>1, TcpCommonAssumption DEF U32, SeqNo
  <2> QED BY <1>0, <1>2, <1>3, <1>4, <2>1, <2>2, TcpCommonAssumption DEF U32, SeqNo
<1>5. CASE seq <= pb /\ sa > sb
  <2>1. pb = seq + len /\ sb = sa + f.rx_avail - SeqMod
    BY <1>0, <1>5, TcpCommonAssumption DEF U32, SeqNo
  <2>2. /\ t.trim_start = IF seq > sb /\ seq < sa THEN sa - seq ELSE 0
        /\ t.trim_end = IF pb >= sb /\ pb < sa THEN pb - sb ELSE 0
    BY <1>0, <1>2, <1>5, <2>1, TcpCommonAssumption DEF U32, SeqNo
  <2> QED BY <1>0, <1>2, <1>3, <1>5, <2>1, <2>2, TcpCommonAssumption DEF U32, SeqNo
<1>6. CASE seq > pb /\ sa <= sb
  <2>1. pb = seq + len - SeqMod /\ sb = sa + f.rx_avail
    BY <1>0, <1>6, TcpCommonAssumption DEF U32, SeqNo
  <2>2. /\ t.trim_start = IF sa <= pb \/ sa > seq THEN U32(sa - seq) ELSE 0
        /\ t.trim_end = IF pb > sb \/ sa >= seq THEN U32(pb - sb) ELSE 0
    BY <1>0, <1>2, <1>6, <2>1, TcpCommonAssumption DEF U32, SeqNo
  <2> QED BY <1>0, <1>2, <1>3, <1>6, <2>1, <2>2, TcpCommonAssumption DEF U32, SeqNo
<1>7. CASE seq > pb /\ sa > sb
  <2>1. pb = seq + len - SeqMod /\ sb = sa + f.rx_avail - SeqMod
    BY <1>0, <1>7, TcpCommonAssumption DEF U32, SeqNo
  <2>2. /\ t.trim_start = IF seq < sa THEN sa - seq ELSE 0
        /\ t.trim_end = IF pb > sb THEN pb - sb ELSE 0
    BY <1>0, <1>2, <1>7, <2>1, TcpCommonAssumption DEF U32, SeqNo
  <2> QED BY <1>0, <1>2, <1>3, <1>7, <2>1, <2>2, TcpCommonAssumption DEF U32, SeqNo
<1> QED BY <1>0, <1>4, <1>5, <1>6, <1>7, TcpCommonAssumption DEF U32, SeqNo

\* The out-of-order interval starts `d' bytes from the next byte expected and
\* ends inside the free part.  Though its length is cut to 16 bits, the trims
\* are those of the whole interval, or it is dropped.
LEMMA TrimOoo ==
  ASSUME NEW f, NEW d \in Int, NEW len \in Nat, -LenMod < d,
         f.rx_next_seq \in SeqNo, f.rx_avail \in 0 .. RxLen,
         d + len <= f.rx_avail,
         ~tcp_trim_rxbuf(f, U32(f.rx_next_seq + d), len).drop
  PROVE  LET t == tcp_trim_rxbuf(f, U32(f.rx_next_seq + d), len)
         IN  /\ t.trim_end = 0 /\ t.trim_start = IF d < 0 THEN -d ELSE 0
             /\ 0 <= d + len
<1> DEFINE seq == U32(f.rx_next_seq + d)
           n == U16(len)
           t == tcp_trim_rxbuf(f, seq, len)
           pb == U32(seq + n)
           sa == f.rx_next_seq
           sb == U32(f.rx_next_seq + f.rx_avail)
           Trims(start, end) ==
             /\ t.trim_start = IF start THEN U32(sa - seq) ELSE 0
             /\ t.trim_end = IF end THEN U32(pb - sb) ELSE 0
<1>1. n \in Nat /\ n < LenMod /\ n <= len
  BY U16Range, TcpCommonAssumption
<1>2. seq \in SeqNo
  BY TcpCommonAssumption DEF U32, SeqNo
<1>3. /\ seq <= pb /\ sa <= sb =>
            ~(pb < sa \/ seq > sb) /\ Trims(seq < sa, pb > sb)
      /\ seq <= pb /\ sa > sb =>
            /\ ~(seq > sb /\ pb < sa)
            /\ Trims(seq > sb /\ seq < sa, pb >= sb /\ pb < sa)
      /\ seq > pb /\ sa <= sb =>
            /\ ~(seq > sb /\ pb < sa)
            /\ Trims(sa <= pb \/ sa > seq, pb > sb \/ sa >= seq)
      /\ seq > pb /\ sa > sb => Trims(seq < sa, pb > sb)
  BY <1>2, TrimCases, TcpCommonAssumption
<1> SUFFICES /\ t.trim_end = 0 /\ t.trim_start = IF d < 0 THEN -d ELSE 0
             /\ 0 <= d + len
  OBVIOUS
<1> HIDE DEF t, n
<1>4. CASE seq <= pb /\ sa <= sb
  <2>1. /\ ~(pb < sa \/ seq > sb)
        /\ Trims(seq < sa, pb > sb)
    BY <1>3, <1>4
  <2> QED BY <1>1, <1>4, <2>1, TcpCommonAssumption, SMTT(30) DEF U32, SeqNo
<1>5. CASE seq <= pb /\ sa > sb
  <2>1. /\ ~(seq > sb /\ pb < sa)
        /\ Trims(seq > sb /\ seq < sa, pb >= sb /\ pb < sa)
    BY <1>3, <1>5
  <2> QED BY <1>1, <1>5, <2>1, TcpCommonAssumption, SMTT(30) DEF U32, SeqNo
<1>6. CASE seq > pb /\ sa <= sb
  <2>1. /\ ~(seq > sb /\ pb < sa)
        /\ Trims(sa <= pb \/ sa > seq, pb > sb \/ sa >= seq)
    BY <1>3, <1>6
  <2> QED BY <1>1, <1>6, <2>1, TcpCommonAssumption, SMTT(30) DEF U32, SeqNo
<1>7. CASE seq > pb /\ sa > sb
  <2>1. Trims(seq < sa, pb > sb)
    BY <1>3, <1>7
  <2> QED BY <1>1, <1>7, <2>1, TcpCommonAssumption, SMTT(30) DEF U32, SeqNo
<1> QED BY <1>1, <1>4, <1>5, <1>6, <1>7, TcpCommonAssumption DEF U32, SeqNo

\* An ack that tcp_valid_rxack accepts acknowledges bytes of the transmit
\* buffer only, wherever the sequence numbers wrap.
THEOREM RxackInBuffer ==
  ASSUME NEW f, NEW ack \in SeqNo,
         f.tx_next_seq \in SeqNo, f.tx_sent \in Nat,
         tx_unsent(f, f.tx_head) \in Nat,
         f.tx_sent + tx_unsent(f, f.tx_head) < TxLen,
         tcp_valid_rxack(f, ack)
  PROVE  /\ rxack_bump(f, ack) \in Nat
         /\ rxack_bump(f, ack) <= f.tx_sent + tx_unsent(f, f.tx_head)
<1> DEFINE u == tx_unsent(f, f.tx_head)
<1> HIDE DEF u
<1> QED BY TcpCommonAssumption DEF tcp_valid_rxack, rxack_bump, U32, SeqNo, u

\* Positions in a circular buffer of n bytes: moving forward and back, the
\* distance of two positions, and the distance after a move.
LEMMA CircFwdRange ==
  ASSUME NEW n \in Nat, NEW p \in 0 .. n - 1, NEW d \in 0 .. n
  PROVE  CircFwd(p, d, n) \in 0 .. n - 1
  BY DEF CircFwd

LEMMA CircBackRange ==
  ASSUME NEW n \in Nat, NEW p \in 0 .. n - 1, NEW d \in 0 .. n - 1
  PROVE  CircBack(p, d, n) \in 0 .. n - 1
  BY DEF CircBack

LEMMA CircDistRange ==
  ASSUME NEW n \in Nat, NEW p \in 0 .. n - 1, NEW q \in 0 .. n - 1
  PROVE  /\ CircDist(p, q, n) \in 0 .. n - 1
         /\ CircFwd(p, CircDist(p, q, n), n) = q
  BY DEF CircDist, CircFwd

\* A move of the whole buffer is no move, and no distance.
LEMMA CircDistMove ==
  ASSUME NEW n \in Nat, NEW p \in 0 .. n - 1, NEW d \in 0 .. n
  PROVE  CircDist(p, CircFwd(p, d, n), n) = IF d = n THEN 0 ELSE d
  BY DEF CircDist, CircFwd

LEMMA CircNoMove ==
  ASSUME NEW n \in Nat, NEW p \in 0 .. n - 1
  PROVE  CircFwd(p, 0, n) = p /\ CircFwd(p, n, n) = p
  BY DEF CircFwd

LEMMA CircDistFwd ==
  ASSUME NEW n \in Nat, NEW p \in 0 .. n - 1, NEW q \in 0 .. n - 1,
         NEW d \in 0 .. CircDist(p, q, n)
  PROVE  CircDist(CircFwd(p, d, n), q, n) = CircDist(p, q, n) - d
  BY DEF CircDist, CircFwd

LEMMA CircDistBack ==
  ASSUME NEW n \in Nat, NEW p \in 0 .. n - 1, NEW q \in 0 .. n - 1,
         NEW d \in 0 .. n - 1, CircDist(p, q, n) + d < n
  PROVE  CircDist(CircBack(p, d, n), q, n) = CircDist(p, q, n) + d
  BY DEF CircDist, CircBack

LEMMA CircFwdFwd ==
  ASSUME NEW n \in Nat, NEW p \in 0 .. n - 1,
         NEW d \in 0 .. n, NEW e \in 0 .. n, d + e <= n
  PROVE  CircFwd(CircFwd(p, d, n), e, n) = CircFwd(p, d + e, n)
  BY DEF CircFwd
=============================================================================
