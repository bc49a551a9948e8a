-------------------------- MODULE FastFlow_proofs ---------------------------
(***************************************************************************)
(* FastFlow keeps its buffers safe and the bytes of both streams intact    *)
(* for every buffer size, sequence number space, queue length and segment: *)
(* TypeOK, RxNoOverrun, OooInWindow, TxNoReuse, QmanCovers, NoEarlyTxBump, *)
(* WindowNeverShrinks, TxContent and RxContent.                            *)
(*                                                                         *)
(* None of them is inductive.  What the fast path takes to be free, or to  *)
(* be ready to send, are the positions in a bump that the library queued   *)
(* some time ago, and the library's positions come from notifications that *)
(* may be old or lost.  The inductive invariant relates the positions in   *)
(* both queues and in the library's connection to those of the flow state. *)
(* That a byte of the transmit buffer is not written again before it is    *)
(* acknowledged, and that payload is only stored into free bytes of the    *)
(* receive buffer, then follows, and with it what the buffers hold;        *)
(* TxContent must also be known of bytes that are allocated and not sent   *)
(* yet.                                                                    *)
(***************************************************************************)
EXTENDS FastFlow, TcpCommon_proofs

\* The flow state on its own.
FlowOK(f) ==
  /\ f \in FlowState
  /\ f.tx_sent + tx_unsent(f, f.tx_head) < TxLen
  /\ ooo_fits(f)

\* Where the fast path takes the used part of the receive buffer to start.
tail_pos(f) == CircFwd(f.rx_next_pos, f.rx_avail, RxLen)

\* Stream indices in order.
RxOrder == /\ nic_tail <= hist.freed
           /\ hist.freed <= hist.known /\ hist.known <= hist.rcvd
TxOrder == /\ hist.tail <= hist.acked /\ nic_head <= hist.head
           /\ hist.head <= hist.alloc /\ hist.alloc < hist.tail + TxLen

\* The library's positions are where the indices say.
ConnRx ==
  /\ conn.rxb_tail = CircFwd(tail_pos(fs), hist.freed - nic_tail, RxLen)
  /\ conn.status = "open" =>
       conn.rxb_head = CircFwd(conn.rxb_tail, hist.known - hist.freed, RxLen)
  /\ conn.status = "requested" => /\ conn.rxb_head = hist.known
                                  /\ conn.rxb_tail = 0 /\ hist.freed = 0
ConnTx ==
  /\ conn.txb_head = CircFwd(fs.tx_head, hist.head - nic_head, TxLen)
  /\ conn.txb_head_alloc = CircFwd(conn.txb_head, hist.alloc - hist.head, TxLen)
  /\ conn.txb_head_alloc = CircFwd(conn.txb_tail, hist.alloc - hist.tail, TxLen)
  /\ conn.status = "requested" => hist.alloc = 0

\* Notifications: each counts bytes after those of the one before it; lost
\* ones leave a gap.
ArxChain ==
  \A i \in 1 .. Len(arx) :
    /\ arx[i].rcvd <= hist.rcvd /\ arx[i].acked <= hist.acked
    /\ (IF i = 1 THEN hist.known ELSE arx[i - 1].rcvd) + arx[i].rx_bump
         <= arx[i].rcvd
    /\ (IF i = 1 THEN hist.tail ELSE arx[i - 1].acked) + arx[i].tx_bump
         <= arx[i].acked

\* Bumps: each carries positions between those of the flow state and those of
\* the library.
AtxChain ==
  \A i \in 1 .. Len(atx) :
    /\ nic_tail <= atx[i].freed /\ atx[i].freed <= hist.freed
    /\ nic_head <= atx[i].head /\ atx[i].head <= hist.head
    /\ atx[i].rx_tail = CircFwd(tail_pos(fs), atx[i].freed - nic_tail, RxLen)
    /\ atx[i].tx_head = CircFwd(fs.tx_head, atx[i].head - nic_head, TxLen)
    /\ \A j \in 1 .. i : atx[j].freed <= atx[i].freed /\ atx[j].head <= atx[i].head

IInv == /\ TypeOK
        /\ FlowOK(fs)
        /\ RxOrder /\ TxOrder
        /\ ConnRx /\ ConnTx
        /\ ArxChain /\ AtxChain
        /\ QmanCovers

Segments == [kind : {"ack", "plain", "syn", "other"}, seq : SeqNo, ack : SeqNo,
             wnd : 0 .. LenMod - 1, data : Seq(Int)]

\* Bytes in the transmit buffer that are not acknowledged.
unacked(f) == f.tx_sent + tx_unsent(f, f.tx_head)

SameRx(f, g) ==
  /\ g.rx_avail = f.rx_avail /\ g.rx_next_pos = f.rx_next_pos
  /\ g.rx_next_seq = f.rx_next_seq
  /\ g.rx_ooo_start = f.rx_ooo_start /\ g.rx_ooo_len = f.rx_ooo_len

\* The free part of the receive buffer ends at the same byte.
same_end(f, g) == tail_pos(g) = tail_pos(f) /\ win_edge(g) = win_edge(f)

SameTx(f, g) ==
  /\ g.tx_sent = f.tx_sent /\ g.tx_next_pos = f.tx_next_pos
  /\ g.tx_next_seq = f.tx_next_seq /\ g.tx_head = f.tx_head

-----------------------------------------------------------------------------
(* The flow state transformations *)

LEMMA Constants ==
  /\ SeqMod \in Nat /\ LenMod \in Nat /\ TxLen \in Nat /\ RxLen \in Nat
  /\ 1 < LenMod /\ 0 < TxLen /\ 0 < RxLen
  /\ LenMod + RxLen < SeqMod /\ LenMod + TxLen < SeqMod
  /\ MSS \in Nat /\ 0 < MSS /\ MSS < LenMod
  BY TcpCommonAssumption, FastFlowAssumption

LEMMA FlowRanges ==
  ASSUME NEW f \in FlowState
  PROVE  /\ f.rx_avail \in Nat /\ f.rx_avail <= RxLen
         /\ f.rx_next_pos \in 0 .. RxLen - 1
         /\ f.rx_next_seq \in Nat /\ f.rx_next_seq < SeqMod
         /\ f.rx_ooo_start \in Nat /\ f.rx_ooo_start < SeqMod
         /\ f.rx_ooo_len \in Nat /\ f.rx_ooo_len <= RxLen
         /\ f.tx_sent \in Nat /\ f.tx_sent < TxLen
         /\ f.tx_next_pos \in 0 .. TxLen - 1 /\ f.tx_head \in 0 .. TxLen - 1
         /\ f.rx_remote_avail \in Nat /\ f.rx_remote_avail < SeqMod
  BY Constants DEF FlowState, SeqNo

LEMMA UnsentRange ==
  ASSUME NEW f \in FlowState, NEW h \in 0 .. TxLen - 1
  PROVE  tx_unsent(f, h) \in 0 .. TxLen - 1
  BY Constants, CircDistRange DEF tx_unsent, FlowState

\* flow_reset_retransmit makes the bytes sent unsent again.
LEMMA ResetFlow ==
  ASSUME NEW f, FlowOK(f)
  PROVE  LET g == flow_reset_retransmit(f)
         IN  /\ FlowOK(g) /\ unacked(g) = unacked(f)
             /\ g.tx_head = f.tx_head /\ SameRx(f, g)
<1> DEFINE g == flow_reset_retransmit(f)
<1>1. f \in FlowState /\ unacked(f) < TxLen /\ ooo_fits(f)
  BY DEF FlowOK, unacked
<1>2. tx_unsent(f, f.tx_head) \in 0 .. TxLen - 1
  BY <1>1, UnsentRange DEF FlowState
<1>3. CircBack(f.tx_next_pos, f.tx_sent, TxLen) \in 0 .. TxLen - 1
  BY <1>1, Constants, CircBackRange DEF FlowState
<1>4. U32(f.tx_next_seq - f.tx_sent) \in SeqNo
  BY <1>1, Constants DEF FlowState, U32, SeqNo
<1>5. g \in FlowState
  <2>1. 0 \in 0 .. 2 /\ 0 \in 0 .. TxLen - 1
    BY Constants
  <2> QED BY <1>1, <1>3, <1>4, <2>1, Zenon DEF FlowState, flow_reset_retransmit
<1>6. /\ g.tx_head = f.tx_head /\ g.tx_sent = 0 /\ SameRx(f, g)
      /\ g.tx_next_pos = CircBack(f.tx_next_pos, f.tx_sent, TxLen)
  BY <1>1 DEF FlowState, flow_reset_retransmit, SameRx
<1>7. tx_unsent(g, g.tx_head) = tx_unsent(f, f.tx_head) + f.tx_sent
  BY <1>1, <1>2, <1>6, Constants, CircDistBack DEF FlowState, tx_unsent, unacked
<1>8. ooo_fits(g)
  BY <1>1, <1>6 DEF ooo_fits, SameRx
<1> HIDE DEF g
<1>9. unacked(g) = unacked(f)
  BY <1>1, <1>2, <1>6, <1>7 DEF unacked, FlowState
<1>10. FlowOK(g)
  BY <1>1, <1>5, <1>8, <1>9 DEF FlowOK, unacked
<1> QED BY <1>6, <1>9, <1>10 DEF g

\* An ack takes away as many bytes from the transmit buffer as it acknowledges.
LEMMA AckFlow ==
  ASSUME NEW f, FlowOK(f), NEW p \in Segments
  PROVE  LET g == rx_ack(f, p)
         IN  /\ FlowOK(g) /\ g.tx_head = f.tx_head /\ SameRx(f, g)
             /\ tx_bump(f, p) \in Nat
             /\ unacked(g) + tx_bump(f, p) = unacked(f)
<1> DEFINE g == rx_ack(f, p)
           u == tx_unsent(f, f.tx_head)
           b == rxack_bump(f, p.ack)
           future == IF b <= f.tx_sent THEN 0 ELSE b - f.tx_sent
<1>1. f \in FlowState /\ unacked(f) < TxLen /\ ooo_fits(f) /\ p.ack \in SeqNo
  BY DEF FlowOK, unacked, Segments
<1>2. u \in 0 .. TxLen - 1 /\ unacked(f) = f.tx_sent + u
  BY <1>1, UnsentRange DEF FlowState, unacked
<1>3. CASE ~ack_valid(f, p)
  BY <1>1, <1>2, <1>3 DEF rx_ack, tx_bump, SameRx, FlowOK, FlowState, unacked
<1>4. CASE ack_valid(f, p) /\ b = 0
  <2>1. tx_bump(f, p) = 0
    BY <1>4 DEF tx_bump
  <2>2. CASE third_dupack(f, p)
    <3>1. g = flow_reset_retransmit(f)
      BY <1>4, <2>2 DEF rx_ack
    <3>2. /\ FlowOK(g) /\ unacked(g) = unacked(f)
          /\ g.tx_head = f.tx_head /\ SameRx(f, g)
      BY <3>1, ResetFlow
    <3> HIDE DEF g
    <3> QED BY <1>1, <1>2, <2>1, <3>2 DEF g, FlowState
  <2>3. CASE ~third_dupack(f, p) /\ Len(p.data) = 0
    <3>1. g = [f EXCEPT !.rx_dupack_cnt = @ + 1]
      BY <1>4, <2>3 DEF rx_ack
    <3>2. f.rx_dupack_cnt + 1 \in 0 .. 2
      BY <1>1, <1>4, <2>3 DEF third_dupack, FlowState
    <3>3. g \in FlowState
      BY <1>1, <3>1, <3>2, Zenon DEF FlowState
    <3>4. SameRx(f, g) /\ SameTx(f, g)
      BY <1>1, <3>1 DEF FlowState, SameRx, SameTx
    <3> HIDE DEF g
    <3>5. unacked(g) = unacked(f)
      BY <3>4 DEF SameTx, unacked, tx_unsent
    <3>6. FlowOK(g)
      BY <1>1, <3>3, <3>4, <3>5 DEF FlowOK, unacked, ooo_fits, SameRx
    <3> QED BY <1>1, <1>2, <2>1, <3>4, <3>5, <3>6 DEF g, SameTx, FlowState
  <2>4. CASE ~third_dupack(f, p) /\ Len(p.data) # 0
    <3>1. g = f
      BY <1>4, <2>4 DEF rx_ack
    <3> QED BY <1>1, <1>2, <2>1, <3>1 DEF SameRx, FlowState
  <2> QED BY <2>2, <2>3, <2>4
<1>5. CASE ack_valid(f, p) /\ b # 0
  <2>1. b \in Nat /\ b <= f.tx_sent + u /\ tx_bump(f, p) = b
    BY <1>1, <1>2, <1>5, RxackInBuffer DEF FlowState, ack_valid, tx_bump
  <2>2. g = [f EXCEPT !.tx_sent       = IF b <= @ THEN @ - b ELSE 0,
                      !.tx_next_seq   = U32(@ + future),
                      !.tx_next_pos   = CircFwd(@, future, TxLen),
                      !.rx_dupack_cnt = 0]
    BY <1>5 DEF rx_ack, third_dupack
  <2> HIDE DEF b, g
  <2>3. future \in 0 .. u
    BY <1>1, <1>2, <2>1 DEF FlowState
  <2>4. /\ (IF b <= f.tx_sent THEN f.tx_sent - b ELSE 0) \in 0 .. TxLen - 1
        /\ U32(f.tx_next_seq + future) \in SeqNo
        /\ CircFwd(f.tx_next_pos, future, TxLen) \in 0 .. TxLen - 1
        /\ 0 \in 0 .. 2
    <3>1. future \in 0 .. TxLen
      BY <1>2, <2>3, Constants
    <3>2. CircFwd(f.tx_next_pos, future, TxLen) \in 0 .. TxLen - 1
      BY <1>1, <3>1, Constants, CircFwdRange DEF FlowState
    <3>3. U32(f.tx_next_seq + future) \in SeqNo
      BY <1>1, <3>1, Constants DEF FlowState, U32, SeqNo
    <3> QED BY <1>1, <2>1, <3>2, <3>3, Constants DEF FlowState
  <2>5. g \in FlowState
    BY <1>1, <2>2, <2>4, Zenon DEF FlowState
  <2>6. /\ SameRx(f, g) /\ g.tx_head = f.tx_head
        /\ g.tx_sent = IF b <= f.tx_sent THEN f.tx_sent - b ELSE 0
        /\ g.tx_next_pos = CircFwd(f.tx_next_pos, future, TxLen)
    BY <1>1, <2>2 DEF FlowState, SameRx
  <2>7. tx_unsent(g, g.tx_head) = u - future
    <3> HIDE DEF future
    <3>1. future \in 0 .. CircDist(f.tx_next_pos, f.tx_head, TxLen)
      BY <2>3 DEF tx_unsent
    <3>2. f.tx_next_pos \in 0 .. TxLen - 1 /\ f.tx_head \in 0 .. TxLen - 1
      BY <1>1 DEF FlowState
    <3> QED BY <2>6, <3>1, <3>2, Constants, CircDistFwd DEF tx_unsent
  <2>8. unacked(g) + b = unacked(f)
    BY <1>1, <1>2, <2>1, <2>3, <2>6, <2>7 DEF unacked, FlowState
  <2>9. unacked(g) < TxLen
    BY <1>1, <1>2, <2>1, <2>3, <2>5, <2>6, <2>7, Constants DEF unacked, FlowState
  <2>10. FlowOK(g)
    BY <1>1, <2>5, <2>6, <2>9 DEF FlowOK, unacked, ooo_fits, SameRx
  <2> QED BY <2>1, <2>6, <2>8, <2>10 DEF g
<1> QED BY <1>3, <1>4, <1>5

\* Bytes that become in order move the free part of the receive buffer, and
\* leave its end where it was.
LEMMA AdvanceFlow ==
  ASSUME NEW f \in FlowState, NEW n \in 0 .. f.rx_avail
  PROVE  LET g == rx_advance(f, n)
         IN  /\ g \in FlowState /\ SameTx(f, g)
             /\ g.rx_avail = f.rx_avail - n /\ same_end(f, g)
             /\ g.rx_next_seq = U32(f.rx_next_seq + n)
             /\ g.rx_ooo_start = f.rx_ooo_start /\ g.rx_ooo_len = f.rx_ooo_len
<1> DEFINE g == rx_advance(f, n)
<1>1. /\ f.rx_avail - n \in 0 .. RxLen /\ n \in 0 .. RxLen
      /\ f.rx_next_pos \in 0 .. RxLen - 1
  BY Constants DEF FlowState
<1>2. CircFwd(f.rx_next_pos, n, RxLen) \in 0 .. RxLen - 1
  BY <1>1, Constants, CircFwdRange
<1>3. U32(f.rx_next_seq + n) \in SeqNo
  BY <1>1, Constants DEF FlowState, U32, SeqNo
<1>4. g \in FlowState
  BY <1>1, <1>2, <1>3, Zenon DEF FlowState, rx_advance
<1>5. /\ SameTx(f, g) /\ g.rx_avail = f.rx_avail - n
      /\ g.rx_next_pos = CircFwd(f.rx_next_pos, n, RxLen)
      /\ g.rx_next_seq = U32(f.rx_next_seq + n)
      /\ g.rx_ooo_start = f.rx_ooo_start /\ g.rx_ooo_len = f.rx_ooo_len
  BY DEF FlowState, rx_advance, SameTx
<1>6. same_end(f, g)
  <2>0. win_edge(g) = win_edge(f)
    <3>1. f.rx_avail \in Nat /\ f.rx_avail <= RxLen /\ f.rx_next_seq \in SeqNo
      BY <1>1, Constants DEF FlowState
    <3> HIDE DEF g
    <3> QED BY <1>1, <1>5, <3>1, Constants DEF win_edge, U32, SeqNo
  <2>1. n + (f.rx_avail - n) = f.rx_avail /\ f.rx_avail \in 0 .. RxLen
    BY <1>1 DEF FlowState
  <2>2. n + (f.rx_avail - n) <= RxLen
    BY <2>1, Constants
  <2>3. tail_pos(g) = tail_pos(f)
    BY <1>1, <1>5, <2>1, <2>2, Constants, CircFwdFwd DEF tail_pos
  <2> QED BY <2>0, <2>3 DEF same_end
<1> QED BY <1>4, <1>5, <1>6

\* What an in-order segment of n > 0 bytes does to the out-of-order interval.
LEMMA CatchupFlow ==
  ASSUME NEW f, FlowOK(f), NEW n \in 0 .. f.rx_avail, n < LenMod
  PROVE  LET g == rx_catchup(rx_advance(f, n))
         IN  /\ FlowOK(g) /\ SameTx(f, g)
             /\ g.rx_avail <= f.rx_avail /\ same_end(f, g)
<1> DEFINE h == rx_advance(f, n)
           g == rx_catchup(h)
           d == U32(f.rx_ooo_start - f.rx_next_seq) - n
           t == tcp_trim_rxbuf(h, h.rx_ooo_start, h.rx_ooo_len)
           start == U32(h.rx_ooo_start + t.trim_start)
           len == h.rx_ooo_len - (t.trim_start + t.trim_end)
<1>1. f \in FlowState /\ unacked(f) < TxLen /\ ooo_fits(f)
  BY DEF FlowOK, unacked
<1>2. /\ h \in FlowState /\ SameTx(f, h)
      /\ h.rx_avail = f.rx_avail - n /\ same_end(f, h)
      /\ h.rx_next_seq = U32(f.rx_next_seq + n)
      /\ h.rx_ooo_start = f.rx_ooo_start /\ h.rx_ooo_len = f.rx_ooo_len
  BY <1>1, AdvanceFlow
<1>3. ASSUME NEW k, SameTx(f, k) PROVE unacked(k) = unacked(f)
  BY <1>3 DEF SameTx, unacked, tx_unsent
<1>4. CASE h.rx_ooo_len = 0
  <2>1. g = h
    BY <1>4 DEF rx_catchup
  <2>2. h.rx_avail <= f.rx_avail
    BY <1>1, <1>2 DEF FlowState
  <2>3. FlowOK(h)
    BY <1>1, <1>2, <1>3, <1>4 DEF FlowOK, unacked, ooo_fits
  <2> QED BY <1>2, <2>1, <2>2, <2>3
<1>5. CASE h.rx_ooo_len # 0 /\ t.drop
  <2>1. g = [h EXCEPT !.rx_ooo_len = 0]
    BY <1>5 DEF rx_catchup
  <2>2. g \in FlowState
    <3>1. 0 \in 0 .. RxLen
      BY Constants
    <3> QED BY <1>2, <2>1, <3>1, Zenon DEF FlowState
  <2>3. /\ g.rx_ooo_len = 0 /\ SameTx(f, g) /\ g.rx_avail = h.rx_avail
        /\ g.rx_next_pos = h.rx_next_pos /\ g.rx_next_seq = h.rx_next_seq
    BY <1>2, <2>1 DEF FlowState, SameTx
  <2> HIDE DEF g
  <2>4. FlowOK(g)
    BY <1>1, <1>3, <2>2, <2>3 DEF FlowOK, unacked, ooo_fits
  <2>5. g.rx_avail <= f.rx_avail /\ same_end(f, g)
    BY <1>1, <1>2, <2>3 DEF FlowState, tail_pos, win_edge, same_end
  <2> QED BY <2>3, <2>4, <2>5 DEF g
<1>6. CASE h.rx_ooo_len # 0 /\ ~t.drop
  <2>1. /\ d \in Int /\ -LenMod < d /\ h.rx_ooo_len \in Nat \ {0}
        /\ d + h.rx_ooo_len <= h.rx_avail
        /\ h.rx_ooo_start = U32(h.rx_next_seq + d)
    BY <1>1, <1>2, <1>6, Constants DEF FlowState, ooo_fits, U32, SeqNo
  <2>2. /\ t.trim_end = 0 /\ t.trim_start = IF d < 0 THEN -d ELSE 0
        /\ 0 <= d + h.rx_ooo_len
    BY <1>2, <1>6, <2>1, TrimOoo DEF FlowState
  <2> HIDE DEF t, d, h
  <2>3. /\ start = U32(h.rx_next_seq + (IF d < 0 THEN 0 ELSE d))
        /\ start \in SeqNo
    BY <1>2, <2>1, <2>2, Constants DEF FlowState, U32, SeqNo
  <2>4. len \in Nat /\ (IF d < 0 THEN 0 ELSE d) + len <= h.rx_avail
    BY <1>2, <2>1, <2>2, Constants DEF FlowState
  <2> HIDE DEF start, len
  <2>5. CASE len > 0 /\ start = h.rx_next_seq
    <3> DEFINE k == rx_advance(h, len)
    <3>1. g = [k EXCEPT !.rx_ooo_start = start, !.rx_ooo_len = 0]
      BY <1>6, <2>5 DEF rx_catchup, t, start, len
    <3>2. len \in 0 .. h.rx_avail
      BY <1>2, <2>1, <2>4 DEF FlowState
    <3>3. /\ k \in FlowState /\ SameTx(h, k)
          /\ k.rx_avail = h.rx_avail - len /\ same_end(h, k)
      BY <1>2, <3>2, AdvanceFlow
    <3> HIDE DEF k, g
    <3>4. g \in FlowState
      <4>1. 0 \in 0 .. RxLen
        BY Constants
      <4> QED BY <2>3, <3>1, <3>3, <4>1, Zenon DEF FlowState
    <3>5. /\ g.rx_ooo_len = 0 /\ SameTx(k, g) /\ g.rx_avail = k.rx_avail
          /\ g.rx_next_pos = k.rx_next_pos /\ g.rx_next_seq = k.rx_next_seq
      BY <3>1, <3>3 DEF FlowState, SameTx
    <3>6. SameTx(f, g)
      BY <1>2, <3>3, <3>5 DEF SameTx
    <3>7. FlowOK(g)
      BY <1>1, <1>3, <3>4, <3>5, <3>6 DEF FlowOK, unacked, ooo_fits
    <3>8. g.rx_avail <= f.rx_avail /\ same_end(f, g)
      BY <1>1, <1>2, <3>2, <3>3, <3>5 DEF FlowState, tail_pos, win_edge, same_end
    <3> QED BY <3>6, <3>7, <3>8 DEF g, h
  <2>6. CASE ~(len > 0 /\ start = h.rx_next_seq)
    <3>1. g = [h EXCEPT !.rx_ooo_start = start, !.rx_ooo_len = len]
      BY <1>6, <2>6 DEF rx_catchup, t, start, len
    <3>2. len \in 0 .. RxLen
      BY <1>2, <2>1, <2>4, Constants DEF FlowState
    <3> HIDE DEF g
    <3>3. g \in FlowState
      BY <1>2, <2>3, <3>1, <3>2, Zenon DEF FlowState
    <3>4. /\ g.rx_ooo_len = len /\ g.rx_ooo_start = start
          /\ g.rx_avail = h.rx_avail /\ g.rx_next_pos = h.rx_next_pos
          /\ g.rx_next_seq = h.rx_next_seq /\ SameTx(h, g)
      BY <1>2, <3>1 DEF FlowState, SameTx
    <3>5. SameTx(f, g)
      BY <1>2, <3>4 DEF SameTx
    <3>6. ooo_fits(g)
      BY <1>2, <2>1, <2>3, <2>4, <2>6, <3>4, Constants
         DEF ooo_fits, U32, FlowState, SeqNo
    <3>7. FlowOK(g)
      BY <1>1, <1>3, <3>3, <3>5, <3>6 DEF FlowOK, unacked
    <3>8. g.rx_avail <= f.rx_avail /\ same_end(f, g)
      BY <1>1, <1>2, <3>4 DEF FlowState, tail_pos, win_edge, same_end
    <3> QED BY <3>5, <3>7, <3>8 DEF g, h
  <2> QED BY <2>5, <2>6
<1> QED BY <1>4, <1>5, <1>6

\* What is left of a segment after trimming lies in the free part.
LEMMA PayloadFits ==
  ASSUME NEW f, FlowOK(f), NEW p \in Segments, Len(p.data) < LenMod,
         ~TrimMisses(f, p.seq, Len(p.data)), ~rx_trim(f, p).drop
  PROVE  LET t == rx_trim(f, p)
         IN  /\ t.trim_start \in Nat /\ t.trim_end \in Nat
             /\ pay_len(p, t) \in 0 .. Len(p.data) /\ pay_seq(p, t) \in SeqNo
             /\ pay_len(p, t) > 0 =>
                  U32(pay_seq(p, t) - f.rx_next_seq) + pay_len(p, t) <= f.rx_avail
<1>1. /\ p.seq \in SeqNo /\ Len(p.data) \in 0 .. LenMod - 1
      /\ f.rx_next_seq \in SeqNo /\ f.rx_avail \in 0 .. RxLen
  BY Constants DEF Segments, FlowOK, FlowState
<1> QED BY <1>1, TrimFits DEF rx_trim, pay_len, pay_seq

\* A segment's payload, in or out of order, keeps the flow state in order and
\* the end of the free part where it was.
LEMMA DataFlow ==
  ASSUME NEW f, FlowOK(f), NEW p \in Segments, Len(p.data) < LenMod,
         ~TrimMisses(f, p.seq, Len(p.data))
  PROVE  LET g == rx_data(f, p, rx_trim(f, p))
         IN  /\ FlowOK(g) /\ SameTx(f, g)
             /\ g.rx_avail <= f.rx_avail /\ same_end(f, g)
<1> DEFINE t == rx_trim(f, p)
           g == rx_data(f, p, t)
           n == pay_len(p, t)
           s == pay_seq(p, t)
<1>1. f \in FlowState /\ unacked(f) < TxLen /\ ooo_fits(f)
  BY DEF FlowOK, unacked
<1>0. /\ f.rx_avail \in Nat /\ f.rx_avail <= RxLen
      /\ f.rx_next_seq \in Nat /\ f.rx_next_seq < SeqMod
      /\ f.rx_ooo_start \in Nat /\ f.rx_ooo_start < SeqMod
      /\ f.rx_ooo_len \in Nat /\ f.rx_ooo_len <= RxLen
  BY <1>1, FlowRanges
<1>2. ~t.drop => /\ n \in 0 .. Len(p.data) /\ s \in SeqNo
                 /\ n > 0 => U32(s - f.rx_next_seq) + n <= f.rx_avail
  BY PayloadFits
<1>3. ASSUME NEW k, SameTx(f, k) PROVE unacked(k) = unacked(f)
  BY <1>3 DEF SameTx, unacked, tx_unsent
<1>4. CASE rx_inorder(f, p, t)
  <2> DEFINE h == [f EXCEPT !.rx_remote_avail = p.wnd]
  <2>1. g = IF n > 0 THEN rx_catchup(rx_advance(h, n)) ELSE h
    BY <1>4 DEF rx_data, rx_next
  <2>2. p.wnd \in SeqNo
    BY Constants DEF Segments, SeqNo
  <2>3. h \in FlowState
    BY <1>1, <2>2, Zenon DEF FlowState
  <2>4. SameTx(f, h) /\ SameRx(f, h)
    BY <1>1 DEF FlowState, SameTx, SameRx
  <2> HIDE DEF h, g, t
  <2>5. FlowOK(h)
    BY <1>1, <1>3, <2>3, <2>4 DEF FlowOK, unacked, ooo_fits, SameRx
  <2>6. CASE n > 0
    <3>1. n \in 0 .. h.rx_avail /\ n < LenMod
      <4>1. n \in Nat /\ n <= Len(p.data) /\ n <= f.rx_avail /\ Len(p.data) \in Nat
        <5>1. ~t.drop /\ s = f.rx_next_seq
          BY <1>4 DEF rx_inorder
        <5>2. U32(s - f.rx_next_seq) = 0
          BY <1>1, <5>1, <1>0, Constants DEF U32
        <5> HIDE DEF n, s
        <5>3. Len(p.data) \in Nat
          BY DEF Segments
        <5> QED BY <1>1, <1>2, <2>6, <5>1, <5>2, <5>3, <1>0
      <4> HIDE DEF n
      <4> QED BY <1>1, <2>4, <4>1, Constants, SMTT(30) DEF SameRx, FlowState
    <3> HIDE DEF n
    <3>2. /\ FlowOK(g) /\ SameTx(h, g)
          /\ g.rx_avail <= h.rx_avail /\ same_end(h, g)
      BY <2>1, <2>5, <2>6, <3>1, CatchupFlow
    <3>3. /\ SameTx(f, g) /\ g.rx_avail <= f.rx_avail /\ same_end(f, g)
      BY <2>4, <3>2 DEF SameTx, SameRx, tail_pos, win_edge, same_end
    <3> QED BY <3>2, <3>3 DEF g, t
  <2>7. CASE ~(n > 0)
    <3>1. g = h
      BY <2>1, <2>7
    <3>2. h.rx_avail <= f.rx_avail /\ same_end(f, h)
      BY <1>1, <2>4 DEF SameRx, FlowState, tail_pos, win_edge, same_end
    <3> QED BY <2>4, <2>5, <3>1, <3>2 DEF g, t
  <2> QED BY <2>6, <2>7
<1>5. CASE ~rx_inorder(f, p, t) /\ rx_ahead(f, p, t) /\ ooo_takes(f, p, t)
  <2> DEFINE off == U32(s - f.rx_next_seq)
  <2>1. g = rx_ooo(f, p, t)
    BY <1>5 DEF rx_data
  <2>2. /\ s \in SeqNo /\ n \in Nat /\ n > 0
        /\ off \in Nat /\ off > 0 /\ off + n <= f.rx_avail
    <3>1. ~t.drop /\ s # f.rx_next_seq /\ n > 0
      BY <1>5 DEF rx_ahead
    <3> HIDE DEF n, s
    <3>2. s \in SeqNo /\ n \in Nat /\ off + n <= f.rx_avail
      BY <1>2, <3>1 DEF Segments
    <3>3. off \in Nat /\ off > 0
      <4>1. s # f.rx_next_seq /\ f.rx_next_seq \in SeqNo
        BY <1>0, <3>1, Constants DEF SeqNo
      <4> QED BY <3>2, <4>1, SeqDistance, Constants DEF SeqNo
    <3> QED BY <3>1, <3>2, <3>3
  <2> HIDE DEF off, n, s, t
  <2>3. \E start \in SeqNo, len \in 0 .. RxLen :
          /\ g = [f EXCEPT !.rx_ooo_start = start, !.rx_ooo_len = len]
          /\ U32(start - f.rx_next_seq) > 0
          /\ U32(start - f.rx_next_seq) + len <= f.rx_avail
    <3>1. CASE f.rx_ooo_len = 0
      <4>1. g = [f EXCEPT !.rx_ooo_start = s, !.rx_ooo_len = n]
        BY <2>1, <3>1 DEF rx_ooo, s, n, t
      <4>2. n \in 0 .. RxLen
        BY <1>1, <2>2, Constants DEF FlowState
      <4> QED BY <2>2, <4>1, <4>2 DEF off
    <3>2. CASE f.rx_ooo_len # 0 /\ ooo_below(f, p, t)
      <4>1. g = [f EXCEPT !.rx_ooo_start = s, !.rx_ooo_len = @ + n]
        BY <2>1, <3>2 DEF rx_ooo, s, n, t
      <4>2. U32(s + n) = f.rx_ooo_start
        BY <3>2 DEF ooo_below, s, n, t
      <4>3. f.rx_ooo_len + n \in 0 .. RxLen /\ off + (f.rx_ooo_len + n) <= f.rx_avail
        <5>1. /\ U32(f.rx_ooo_start - f.rx_next_seq) > 0
              /\ U32(f.rx_ooo_start - f.rx_next_seq) + f.rx_ooo_len <= f.rx_avail
          BY <1>1, <3>2, <1>0 DEF ooo_fits
        <5>2. U32(f.rx_ooo_start - f.rx_next_seq) = off + n
          <6>1. f.rx_next_seq \in SeqNo /\ off + n < SeqMod
            BY <1>0, <2>2, Constants DEF SeqNo
          <6> QED BY <2>2, <4>2, <6>1, SeqDistance DEF off
        <5> QED BY <2>2, <5>1, <5>2, <1>0, Constants, SMTT(30)
      <4>4. g = [f EXCEPT !.rx_ooo_start = s, !.rx_ooo_len = f.rx_ooo_len + n]
        BY <4>1
      <4> QED BY <2>2, <4>3, <4>4 DEF off
    <3>3. CASE f.rx_ooo_len # 0 /\ ~ooo_below(f, p, t)
      <4>1. g = [f EXCEPT !.rx_ooo_len = @ + n]
        BY <2>1, <3>3 DEF rx_ooo, n, t
      <4>2. U32(f.rx_ooo_start + f.rx_ooo_len) = s
        BY <1>5, <3>3 DEF ooo_takes, ooo_above, s, t
      <4>3. /\ f.rx_ooo_len + n \in 0 .. RxLen /\ f.rx_ooo_start \in SeqNo
            /\ U32(f.rx_ooo_start - f.rx_next_seq) > 0
            /\ U32(f.rx_ooo_start - f.rx_next_seq) + (f.rx_ooo_len + n) <= f.rx_avail
        <5> DEFINE o == U32(f.rx_ooo_start - f.rx_next_seq)
        <5>1. o \in Nat /\ o > 0 /\ o + f.rx_ooo_len <= f.rx_avail
          BY <1>1, <3>3, <1>0, Constants, SMTT(30) DEF ooo_fits, U32
        <5>2. off = o + f.rx_ooo_len
          <6>1. /\ f.rx_next_seq \in SeqNo /\ f.rx_ooo_start \in SeqNo
                /\ f.rx_ooo_len \in Nat /\ o + f.rx_ooo_len < SeqMod
            BY <1>0, <5>1, Constants, SMTT(30) DEF SeqNo
          <6> QED BY <4>2, <6>1, SeqDistance DEF off
        <5> HIDE DEF o
        <5>3. f.rx_ooo_len + n \in 0 .. RxLen /\ o + (f.rx_ooo_len + n) <= f.rx_avail
          BY <2>2, <5>1, <5>2, <1>0, Constants, SMTT(30)
        <5> QED BY <5>1, <5>3, <1>0, Constants DEF o, SeqNo
      <4>4. g = [f EXCEPT !.rx_ooo_start = f.rx_ooo_start,
                          !.rx_ooo_len = f.rx_ooo_len + n]
        BY <1>1, <4>1 DEF FlowState
      <4> QED BY <4>3, <4>4
    <3> QED BY <3>1, <3>2, <3>3
  <2>4. PICK start \in SeqNo, len \in 0 .. RxLen :
          /\ g = [f EXCEPT !.rx_ooo_start = start, !.rx_ooo_len = len]
          /\ U32(start - f.rx_next_seq) > 0
          /\ U32(start - f.rx_next_seq) + len <= f.rx_avail
    BY <2>3
  <2> HIDE DEF g
  <2>5. g \in FlowState
    BY <1>1, <2>4, Zenon DEF FlowState
  <2>6. /\ SameTx(f, g) /\ g.rx_avail = f.rx_avail
        /\ g.rx_next_pos = f.rx_next_pos /\ g.rx_next_seq = f.rx_next_seq
        /\ g.rx_ooo_start = start /\ g.rx_ooo_len = len
    BY <1>1, <2>4 DEF FlowState, SameTx
  <2>7. FlowOK(g)
    BY <1>1, <1>3, <2>4, <2>5, <2>6 DEF FlowOK, unacked, ooo_fits
  <2>8. g.rx_avail <= f.rx_avail /\ same_end(f, g)
    BY <1>1, <2>6 DEF FlowState, tail_pos, win_edge, same_end
  <2> QED BY <2>6, <2>7, <2>8 DEF g, t
<1>6. CASE ~rx_inorder(f, p, t) /\ ~(rx_ahead(f, p, t) /\ ooo_takes(f, p, t))
  <2>1. g = f
    BY <1>6 DEF rx_data
  <2> QED BY <1>1, <2>1 DEF SameTx, FlowState, same_end
<1> QED BY <1>4, <1>5, <1>6

\* Sending n bytes takes them from what may be sent, and from nothing else.
LEMMA SentFlow ==
  ASSUME NEW f, FlowOK(f)
  PROVE  LET n == tx_seglen(f)
             g == flow_sent(f, n)
         IN  /\ FlowOK(g) /\ unacked(g) = unacked(f)
             /\ g.tx_head = f.tx_head /\ SameRx(f, g)
             /\ tcp_txavail(f, f.tx_head) \in Nat
             /\ n = MinOf(tcp_txavail(f, f.tx_head), MSS)
             /\ tcp_txavail(g, g.tx_head) = tcp_txavail(f, f.tx_head) - n
<1> DEFINE n == tx_seglen(f)
           g == flow_sent(f, n)
           u == tx_unsent(f, f.tx_head)
           w == U32(f.rx_remote_avail - f.tx_sent)
<1>1. f \in FlowState /\ ooo_fits(f)
  BY DEF FlowOK
<1>2. /\ u \in Nat /\ u < TxLen /\ f.tx_sent + u < TxLen
      /\ f.tx_sent \in Nat /\ f.tx_sent < TxLen
      /\ f.tx_next_pos \in 0 .. TxLen - 1 /\ f.tx_head \in 0 .. TxLen - 1
      /\ f.rx_remote_avail \in Nat /\ f.rx_remote_avail < SeqMod
      /\ f.tx_next_seq \in SeqNo
  <2>1. f.tx_sent + u < TxLen /\ f.tx_next_seq \in SeqNo
    BY <1>1 DEF FlowOK, FlowState
  <2> QED BY <1>1, <2>1, FlowRanges, UnsentRange, Constants
<1>3. w \in Nat /\ w < SeqMod
  BY <1>2, Constants DEF U32
<1>4. tcp_txavail(f, f.tx_head) = MinOf(u, w) /\ MinOf(u, w) \in Nat
  BY <1>2, <1>3 DEF tcp_txavail, MinOf
<1>5. n \in Nat /\ n <= u /\ n <= w /\ n = MinOf(MinOf(u, w), MSS)
  BY <1>2, <1>3, <1>4, Constants DEF tx_seglen, MinOf
<1>6. /\ f.tx_sent + n \in 0 .. TxLen - 1
      /\ CircFwd(f.tx_next_pos, n, TxLen) \in 0 .. TxLen - 1
      /\ U32(f.tx_next_seq + n) \in SeqNo
  <2> HIDE DEF n
  <2>1. n \in 0 .. TxLen
    BY <1>2, <1>5, Constants
  <2>2. CircFwd(f.tx_next_pos, n, TxLen) \in 0 .. TxLen - 1
    BY <1>2, <2>1, Constants, CircFwdRange
  <2> HIDE DEF u, w
  <2>3. U32(f.tx_next_seq + n) \in SeqNo
    BY <1>2, <2>1, Constants DEF U32, SeqNo
  <2> QED BY <1>2, <1>5, <2>2, <2>3, Constants
<1> HIDE DEF n
<1>7. g \in FlowState
  BY <1>1, <1>6, Zenon DEF FlowState, flow_sent
<1>8. /\ g.tx_head = f.tx_head /\ SameRx(f, g) /\ g.tx_sent = f.tx_sent + n
      /\ g.tx_next_pos = CircFwd(f.tx_next_pos, n, TxLen)
      /\ g.rx_remote_avail = f.rx_remote_avail
  BY <1>1 DEF FlowState, flow_sent, SameRx
<1> HIDE DEF g
<1>9. tx_unsent(g, g.tx_head) = u - n
  <2>1. n \in 0 .. CircDist(f.tx_next_pos, f.tx_head, TxLen)
    BY <1>2, <1>5 DEF tx_unsent
  <2> QED BY <1>2, <1>8, <2>1, Constants, CircDistFwd DEF tx_unsent
<1> HIDE DEF u
<1>10. U32(g.rx_remote_avail - g.tx_sent) = w - n
  BY <1>2, <1>5, <1>8, Constants DEF U32
<1> HIDE DEF w
<1>11. tcp_txavail(g, g.tx_head) = tcp_txavail(f, f.tx_head) - n
  BY <1>2, <1>3, <1>4, <1>5, <1>9, <1>10 DEF tcp_txavail, MinOf
<1>12. unacked(g) = unacked(f) /\ unacked(g) < TxLen
  BY <1>2, <1>5, <1>8, <1>9 DEF unacked, u
<1>13. FlowOK(g)
  BY <1>1, <1>7, <1>8, <1>12 DEF FlowOK, unacked, ooo_fits, SameRx
<1> QED BY <1>4, <1>5, <1>8, <1>11, <1>12, <1>13 DEF g, n

\* A bump that frees x bytes and adds y bytes to send does so, unless x is the
\* size of the receive buffer, when it frees none.
LEMMA BumpFlow ==
  ASSUME NEW f, FlowOK(f), NEW b \in Bump, NEW x \in Nat, NEW y \in Nat,
         f.rx_avail + x <= RxLen, unacked(f) + y < TxLen,
         b.rx_tail = CircFwd(tail_pos(f), x, RxLen),
         b.tx_head = CircFwd(f.tx_head, y, TxLen)
  PROVE  LET g == flow_bump(f, b)
             z == IF x = RxLen THEN 0 ELSE x
         IN  /\ FlowOK(g) /\ g.tx_head = b.tx_head
             /\ unacked(g) = unacked(f) + y
             /\ g.rx_avail = f.rx_avail + z
             /\ tail_pos(g) = CircFwd(tail_pos(f), z, RxLen)
<1> DEFINE g == flow_bump(f, b)
           z == IF x = RxLen THEN 0 ELSE x
           u == tx_unsent(f, f.tx_head)
<1>1. f \in FlowState /\ ooo_fits(f)
  BY DEF FlowOK
<1>2. /\ f.rx_avail \in 0 .. RxLen /\ f.rx_next_pos \in 0 .. RxLen - 1
      /\ f.tx_next_pos \in 0 .. TxLen - 1 /\ f.tx_head \in 0 .. TxLen - 1
      /\ f.tx_sent \in Nat /\ u \in Nat /\ f.tx_sent + u + y < TxLen
      /\ x \in 0 .. RxLen /\ b.tx_head \in 0 .. TxLen - 1
  <2>1. b.tx_head \in 0 .. TxLen - 1
    BY DEF Bump
  <2>2. u \in Nat /\ f.tx_sent + u + y < TxLen
    BY <1>1, FlowRanges, UnsentRange, Constants DEF unacked
  <2> QED BY <1>1, <2>1, <2>2, FlowRanges, Constants
<1>3. tail_pos(f) \in 0 .. RxLen - 1
  BY <1>2, Constants, CircFwdRange DEF tail_pos
<1>4. rx_freed(f, b.rx_tail) = z
  <2>1. rx_freed(f, b.rx_tail)
          = CircDist(tail_pos(f), CircFwd(tail_pos(f), x, RxLen), RxLen)
    BY DEF rx_freed, tail_pos
  <2> QED BY <1>2, <1>3, <2>1, Constants, CircDistMove
<1>5. z \in 0 .. RxLen /\ f.rx_avail + z \in 0 .. RxLen
  BY <1>2, Constants
<1> HIDE DEF z
<1>6. g \in FlowState
  <2>1. b.bump_seq \in SeqNo
    BY DEF Bump
  <2> QED BY <1>1, <1>2, <1>4, <1>5, <2>1, Zenon DEF FlowState, flow_bump
<1>7. /\ g.tx_head = b.tx_head /\ g.rx_avail = f.rx_avail + z
      /\ g.rx_next_pos = f.rx_next_pos /\ g.rx_next_seq = f.rx_next_seq
      /\ g.rx_ooo_start = f.rx_ooo_start /\ g.rx_ooo_len = f.rx_ooo_len
      /\ g.tx_sent = f.tx_sent /\ g.tx_next_pos = f.tx_next_pos
  BY <1>1, <1>4 DEF FlowState, flow_bump
<1> HIDE DEF g
<1>8. tail_pos(g) = CircFwd(tail_pos(f), z, RxLen)
  <2>1. f.rx_avail + z <= RxLen
    BY <1>5, Constants
  <2> QED BY <1>2, <1>5, <1>7, <2>1, Constants, CircFwdFwd DEF tail_pos
<1>9. tx_unsent(g, g.tx_head) = u + y
  <2>1. u \in 0 .. TxLen /\ y \in 0 .. TxLen /\ u + y <= TxLen
        /\ u + y \in 0 .. TxLen - 1
    <3> HIDE DEF u
    <3> QED BY <1>2, Constants
  <2>2. f.tx_head = CircFwd(f.tx_next_pos, u, TxLen)
    BY <1>2, Constants, CircDistRange DEF tx_unsent
  <2> HIDE DEF u
  <2>3. b.tx_head = CircFwd(f.tx_next_pos, u + y, TxLen)
    BY <1>2, <2>1, <2>2, Constants, CircFwdFwd
  <2>4. u + y # TxLen
    BY <2>1, Constants
  <2> QED BY <1>2, <1>7, <2>1, <2>3, <2>4, Constants, CircDistMove DEF tx_unsent
<1>10. unacked(g) = unacked(f) + y /\ unacked(g) < TxLen
  <2> HIDE DEF u
  <2>1. unacked(f) = f.tx_sent + u
    BY DEF unacked, u
  <2> QED BY <1>2, <1>7, <1>9, <2>1 DEF unacked
<1>11. ooo_fits(g)
  <2>1. CASE f.rx_ooo_len > 0
    <3>1. /\ U32(f.rx_ooo_start - f.rx_next_seq) > 0
          /\ U32(f.rx_ooo_start - f.rx_next_seq) + f.rx_ooo_len <= f.rx_avail
      BY <1>1, <2>1 DEF ooo_fits
    <3>2. U32(f.rx_ooo_start - f.rx_next_seq) \in Nat /\ f.rx_ooo_len \in Nat
      BY <1>1, FlowRanges, Constants DEF U32
    <3> QED BY <1>2, <1>5, <1>7, <3>1, <3>2, Constants DEF ooo_fits
  <2>2. CASE ~(f.rx_ooo_len > 0)
    BY <1>7, <2>2 DEF ooo_fits
  <2> QED BY <2>1, <2>2
<1>12. FlowOK(g)
  BY <1>6, <1>10, <1>11 DEF FlowOK, unacked
<1> QED BY <1>7, <1>8, <1>10, <1>12 DEF g, z

-----------------------------------------------------------------------------
(* Steps of the fast path *)

LEMMA TxavailNat ==
  ASSUME NEW f, FlowOK(f)
  PROVE  tcp_txavail(f, f.tx_head) \in Nat
  BY SentFlow

\* Credit added by differences covers what may be sent after a step, if it did
\* before.
LEMMA CreditCovers ==
  ASSUME IInv, NEW g, FlowOK(g)
  PROVE  credit(fs, g) \in Nat /\ credit(fs, g) >= tcp_txavail(g, g.tx_head)
<1>1. /\ qm \in Nat /\ qm >= tcp_txavail(fs, fs.tx_head)
      /\ tcp_txavail(fs, fs.tx_head) \in Nat
      /\ tcp_txavail(g, g.tx_head) \in Nat
  BY TxavailNat DEF IInv, TypeOK, QmanCovers
<1> QED BY <1>1 DEF credit

\* rx more bytes are in order, tx more are acknowledged.
HistStep(rx, tx) ==
  /\ hist' \in Indices
  /\ hist'.rcvd = hist.rcvd + rx /\ hist'.acked = hist.acked + tx
  /\ hist'.known = hist.known /\ hist'.freed = hist.freed
  /\ hist'.tail = hist.tail /\ hist'.head = hist.head
  /\ hist'.alloc = hist.alloc

\* What a step of the fast path that receives rx bytes and sees tx bytes
\* acknowledged leaves alone.
LEMMA FlowStep ==
  ASSUME IInv, NEW rx \in Nat, NEW tx \in Nat,
         FlowOK(fs'), tail_pos(fs') = tail_pos(fs), fs'.tx_head = fs.tx_head,
         fs'.rx_avail + rx = fs.rx_avail, unacked(fs') + tx = unacked(fs),
         HistStep(rx, tx), UNCHANGED <<conn, atx>>
  PROVE  RxOrder' /\ TxOrder' /\ ConnRx' /\ ConnTx' /\ AtxChain'
<1>1. /\ hist \in Indices /\ fs \in FlowState /\ fs' \in FlowState
  BY DEF IInv, TypeOK, FlowOK
<1>2. /\ hist' \in Indices
      /\ hist'.rcvd = hist.rcvd + rx /\ hist'.acked = hist.acked + tx
      /\ hist'.known = hist.known /\ hist'.freed = hist.freed
      /\ hist'.tail = hist.tail /\ hist'.head = hist.head
      /\ hist'.alloc = hist.alloc
  BY DEF HistStep
<1>3. nic_tail' = nic_tail
  BY <1>1, <1>2, FlowRanges, Constants DEF nic_tail, Indices
<1>4. nic_head' = nic_head
  <2>1. tx_unsent(fs, fs.tx_head) \in Nat /\ tx_unsent(fs', fs'.tx_head) \in Nat
    BY <1>1, UnsentRange, FlowRanges, Constants
  <2>2. fs.tx_sent \in Nat /\ fs'.tx_sent \in Nat /\ hist.acked \in Nat
    BY <1>1, FlowRanges DEF Indices
  <2> QED BY <1>2, <2>1, <2>2 DEF nic_head, unacked
<1>5. tail_pos(fs)' = tail_pos(fs)
  OBVIOUS
<1>6. RxOrder'
  BY <1>1, <1>2, <1>3 DEF IInv, RxOrder, Indices
<1>7. TxOrder'
  BY <1>1, <1>2, <1>4, Constants DEF IInv, TxOrder, Indices
<1>8. ConnRx'
  BY <1>2, <1>3, <1>5 DEF IInv, ConnRx
<1>9. ConnTx'
  BY <1>2, <1>4 DEF IInv, ConnTx
<1>10. AtxChain'
  BY <1>2, <1>3, <1>4, <1>5 DEF IInv, AtxChain
<1> QED BY <1>6, <1>7, <1>8, <1>9, <1>10

\* The notification of a step, if there is room for one, continues the chain.
LEMMA NotifyChain ==
  ASSUME IInv, NEW rx \in Nat, NEW tx \in Nat, notify(rx, tx),
         hist'.rcvd = hist.rcvd + rx, hist'.acked = hist.acked + tx,
         hist'.known = hist.known, hist'.tail = hist.tail
  PROVE  arx' \in Seq(Notification) /\ ArxChain'
<1> DEFINE e == [rx_bump |-> rx, tx_bump |-> tx,
                 rcvd |-> hist.rcvd + rx, acked |-> hist.acked + tx]
<1>1. /\ arx \in Seq(Notification) /\ ArxChain
      /\ hist.rcvd \in Nat /\ hist.acked \in Nat
      /\ hist.known \in Nat /\ hist.tail \in Nat
      /\ hist.known <= hist.rcvd /\ hist.tail <= hist.acked
  BY DEF IInv, TypeOK, RxOrder, TxOrder, Indices
<1>2. \A i \in 1 .. Len(arx) : /\ arx[i].rcvd \in Nat /\ arx[i].acked \in Nat
                               /\ arx[i].rx_bump \in Nat /\ arx[i].tx_bump \in Nat
  <2>1. \A i \in 1 .. Len(arx) : arx[i] \in Notification
    BY <1>1
  <2> QED BY <2>1 DEF Notification
<1>3. CASE arx' = arx
  <2> SUFFICES ASSUME NEW i \in 1 .. Len(arx)
               PROVE  /\ arx[i].rcvd <= hist'.rcvd /\ arx[i].acked <= hist'.acked
                      /\ (IF i = 1 THEN hist'.known ELSE arx[i - 1].rcvd)
                           + arx[i].rx_bump <= arx[i].rcvd
                      /\ (IF i = 1 THEN hist'.tail ELSE arx[i - 1].acked)
                           + arx[i].tx_bump <= arx[i].acked
    BY <1>1, <1>3 DEF ArxChain
  <2>1. /\ arx[i].rcvd <= hist.rcvd /\ arx[i].acked <= hist.acked
        /\ (IF i = 1 THEN hist.known ELSE arx[i - 1].rcvd)
             + arx[i].rx_bump <= arx[i].rcvd
        /\ (IF i = 1 THEN hist.tail ELSE arx[i - 1].acked)
             + arx[i].tx_bump <= arx[i].acked
    BY <1>1 DEF ArxChain
  <2>2. arx[i].rcvd \in Nat /\ arx[i].acked \in Nat
    BY <1>2
  <2> QED BY <1>1, <2>1, <2>2
<1>4. CASE arx' = Append(arx, e)
  <2>1. e \in Notification
    BY <1>1, SMTT(30) DEF Notification
  <2>2. /\ arx' \in Seq(Notification) /\ Len(arx') = Len(arx) + 1
        /\ \A i \in 1 .. Len(arx) : arx'[i] = arx[i]
        /\ arx'[Len(arx) + 1] = e
    BY <1>1, <1>4, <2>1
  <2>3. /\ e.rcvd = hist'.rcvd /\ e.acked = hist'.acked
        /\ e.rx_bump = rx /\ e.tx_bump = tx
    OBVIOUS
  <2> HIDE DEF e
  <2>4. ASSUME NEW i \in 1 .. Len(arx')
        PROVE  /\ arx'[i].rcvd <= hist'.rcvd /\ arx'[i].acked <= hist'.acked
               /\ (IF i = 1 THEN hist'.known ELSE arx'[i - 1].rcvd)
                    + arx'[i].rx_bump <= arx'[i].rcvd
               /\ (IF i = 1 THEN hist'.tail ELSE arx'[i - 1].acked)
                    + arx'[i].tx_bump <= arx'[i].acked
    <3>1. CASE i = Len(arx) + 1
      <4>1. CASE i = 1
        BY <1>1, <2>2, <2>3, <3>1, <4>1, SMTT(30)
      <4>2. CASE i # 1
        <5>1. i - 1 \in 1 .. Len(arx) /\ arx'[i - 1] = arx[i - 1]
          BY <1>1, <2>2, <3>1, <4>2, SMTT(30)
        <5>2. arx[i - 1].rcvd <= hist.rcvd /\ arx[i - 1].acked <= hist.acked
          BY <1>1, <5>1 DEF ArxChain
        <5>3. /\ arx'[i] = e
              /\ arx[i - 1].rcvd \in Nat /\ arx[i - 1].acked \in Nat
          BY <1>2, <2>2, <3>1, <5>1
        <5> DEFINE m == arx[i - 1]
        <5>4. /\ m.rcvd \in Nat /\ m.acked \in Nat
              /\ m.rcvd <= hist.rcvd /\ m.acked <= hist.acked
          BY <5>2, <5>3
        <5> HIDE DEF m
        <5>5. /\ m.rcvd + rx <= hist'.rcvd /\ m.acked + tx <= hist'.acked
              /\ hist'.rcvd <= hist'.rcvd /\ hist'.acked <= hist'.acked
          BY <1>1, <5>4, SMTT(30)
        <5> QED BY <2>3, <4>2, <5>1, <5>3, <5>5, Zenon DEF m
      <4> QED BY <4>1, <4>2
    <3>2. CASE i # Len(arx) + 1
      <4>1. i \in 1 .. Len(arx) /\ arx'[i] = arx[i]
        BY <1>1, <2>2, <3>2
      <4>2. i # 1 => arx'[i - 1] = arx[i - 1] /\ i - 1 \in 1 .. Len(arx)
        BY <1>1, <2>2, <4>1, SMTT(30)
      <4>3. /\ arx[i].rcvd <= hist.rcvd /\ arx[i].acked <= hist.acked
            /\ (IF i = 1 THEN hist.known ELSE arx[i - 1].rcvd) + arx[i].rx_bump
                 <= arx[i].rcvd
            /\ (IF i = 1 THEN hist.tail ELSE arx[i - 1].acked) + arx[i].tx_bump
                 <= arx[i].acked
        BY <1>1, <4>1 DEF ArxChain
      <4>4. arx[i].rcvd \in Nat /\ arx[i].acked \in Nat
        BY <1>2, <4>1
      <4>5. /\ (IF i = 1 THEN hist'.known ELSE arx'[i - 1].rcvd)
                 = (IF i = 1 THEN hist.known ELSE arx[i - 1].rcvd)
            /\ (IF i = 1 THEN hist'.tail ELSE arx'[i - 1].acked)
                 = (IF i = 1 THEN hist.tail ELSE arx[i - 1].acked)
        BY <4>2
      <4> QED BY <1>1, <4>1, <4>3, <4>4, <4>5, SMTT(30)
    <3> QED BY <3>1, <3>2
  <2>5. ArxChain'
    BY <2>4 DEF ArxChain
  <2> QED BY <2>2, <2>5
<1> QED BY <1>3, <1>4 DEF notify

\* Sending.
LEMMA QmanStep == IInv /\ fast_flows_qman => IInv'
<1> SUFFICES ASSUME IInv, fast_flows_qman PROVE IInv'
  OBVIOUS
<1> DEFINE n == tx_seglen(fs)
<1>1. FlowOK(fs) /\ hist \in Indices
  BY DEF IInv, TypeOK
<1>2. /\ fs' = flow_sent(fs, n) /\ qm' = qm - MinOf(qm, MSS)
      /\ UNCHANGED <<conn, kout, arx, atx, txbuf, rxbuf, hist>>
  BY DEF fast_flows_qman, queue_fire
<1>3. /\ FlowOK(fs') /\ unacked(fs') = unacked(fs)
      /\ fs'.tx_head = fs.tx_head /\ SameRx(fs, fs')
      /\ tcp_txavail(fs, fs.tx_head) \in Nat
      /\ n = MinOf(tcp_txavail(fs, fs.tx_head), MSS)
      /\ tcp_txavail(fs', fs'.tx_head) = tcp_txavail(fs, fs.tx_head) - n
  BY <1>1, <1>2, SentFlow
<1>4. unacked(fs) \in Nat /\ fs.rx_avail \in Nat
  BY <1>1, FlowRanges, UnsentRange, Constants DEF FlowOK, unacked
<1>5. HistStep(0, 0)
  BY <1>1, <1>2 DEF Indices, HistStep
<1>6. RxOrder' /\ TxOrder' /\ ConnRx' /\ ConnTx' /\ AtxChain'
  <2>1. fs'.rx_avail + 0 = fs.rx_avail /\ unacked(fs') + 0 = unacked(fs)
    BY <1>3, <1>4 DEF SameRx
  <2>2. tail_pos(fs') = tail_pos(fs)
    BY <1>3 DEF SameRx, tail_pos
  <2> QED BY <1>2, <1>3, <1>5, <2>1, <2>2, FlowStep
<1>7. ArxChain'
  BY <1>2 DEF IInv, ArxChain
<1>8. qm' \in Nat /\ QmanCovers'
  BY <1>2, <1>3, Constants DEF IInv, TypeOK, QmanCovers, MinOf
<1>9. TypeOK'
  BY <1>2, <1>3, <1>8 DEF IInv, TypeOK, FlowOK
<1> QED BY <1>3, <1>6, <1>7, <1>8, <1>9 DEF IInv

\* The kernel's request for a retransmission.
LEMMA RetransmitStep == IInv /\ fast_flows_retransmit => IInv'
<1> SUFFICES ASSUME IInv, fast_flows_retransmit PROVE IInv'
  OBVIOUS
<1>1. FlowOK(fs) /\ hist \in Indices
  BY DEF IInv, TypeOK
<1>2. /\ fs' = flow_reset_retransmit(fs) /\ qm' = credit(fs, fs')
      /\ UNCHANGED <<conn, kout, arx, atx, txbuf, rxbuf, hist>>
  BY DEF fast_flows_retransmit, issue_retransmits
<1>3. /\ FlowOK(fs') /\ unacked(fs') = unacked(fs)
      /\ fs'.tx_head = fs.tx_head /\ SameRx(fs, fs')
  BY <1>1, <1>2, ResetFlow
<1>4. unacked(fs) \in Nat /\ fs.rx_avail \in Nat
  BY <1>1, FlowRanges, UnsentRange, Constants DEF FlowOK, unacked
<1>5. HistStep(0, 0)
  BY <1>1, <1>2 DEF Indices, HistStep
<1>6. RxOrder' /\ TxOrder' /\ ConnRx' /\ ConnTx' /\ AtxChain'
  <2>1. fs'.rx_avail + 0 = fs.rx_avail /\ unacked(fs') + 0 = unacked(fs)
    BY <1>3, <1>4 DEF SameRx
  <2>2. tail_pos(fs') = tail_pos(fs)
    BY <1>3 DEF SameRx, tail_pos
  <2> QED BY <1>2, <1>3, <1>5, <2>1, <2>2, FlowStep
<1>7. ArxChain'
  BY <1>2 DEF IInv, ArxChain
<1>8. qm' \in Nat /\ QmanCovers'
  BY <1>2, <1>3, CreditCovers DEF QmanCovers
<1>9. TypeOK'
  BY <1>2, <1>3, <1>8 DEF IInv, TypeOK, FlowOK
<1> QED BY <1>3, <1>6, <1>7, <1>8, <1>9 DEF IInv

\* A segment for the slow path changes nothing but the flow's mark.
LEMMA SlowpathStep ==
  ASSUME IInv, NEW p, slowpath_packet(p)
  PROVE  IInv' /\ win_edge(fs') = win_edge(fs)
<1>1. FlowOK(fs) /\ hist \in Indices /\ fs \in FlowState
  BY DEF IInv, TypeOK
<1>2. /\ fs' = [fs EXCEPT !.slowpath = @ \/ p.kind = "other"]
      /\ UNCHANGED <<conn, kout, arx, atx, qm, txbuf, rxbuf, hist>>
  BY DEF slowpath_packet
<1>3. fs' \in FlowState
  <2>1. (fs.slowpath \/ p.kind = "other") \in BOOLEAN
    OBVIOUS
  <2> QED BY <1>1, <1>2, <2>1, Zenon DEF FlowState
<1>4. /\ SameRx(fs, fs') /\ SameTx(fs, fs')
      /\ fs'.rx_remote_avail = fs.rx_remote_avail
  BY <1>1, <1>2 DEF FlowState, SameRx, SameTx
<1>5. /\ unacked(fs') = unacked(fs) /\ tail_pos(fs') = tail_pos(fs)
      /\ tcp_txavail(fs', fs'.tx_head) = tcp_txavail(fs, fs.tx_head)
  BY <1>4 DEF SameRx, SameTx, unacked, tx_unsent, tail_pos, tcp_txavail
<1>6. FlowOK(fs')
  BY <1>1, <1>3, <1>4, <1>5 DEF FlowOK, unacked, ooo_fits, SameRx
<1>7. unacked(fs) \in Nat /\ fs.rx_avail \in Nat
  BY <1>1, FlowRanges, UnsentRange, Constants DEF FlowOK, unacked
<1>8. RxOrder' /\ TxOrder' /\ ConnRx' /\ ConnTx' /\ AtxChain'
  <2>1. fs'.rx_avail + 0 = fs.rx_avail /\ unacked(fs') + 0 = unacked(fs)
    BY <1>4, <1>5, <1>7 DEF SameRx
  <2>2. HistStep(0, 0)
    BY <1>1, <1>2 DEF Indices, HistStep
  <2> QED BY <1>2, <1>4, <1>5, <1>6, <2>1, <2>2, FlowStep DEF SameTx
<1>9. ArxChain' /\ QmanCovers'
  BY <1>2, <1>5 DEF IInv, ArxChain, QmanCovers
<1>10. TypeOK'
  BY <1>2, <1>3 DEF IInv, TypeOK
<1>11. win_edge(fs') = win_edge(fs)
  BY <1>4 DEF SameRx, win_edge
<1> QED BY <1>6, <1>8, <1>9, <1>10, <1>11 DEF IInv

\* Payload is copied inside the receive buffer, from inside the segment.
LEMMA WriteType ==
  ASSUME IInv, NEW p \in Segments, Len(p.data) < LenMod,
         ~TrimMisses(fs, p.seq, Len(p.data)),
         rx_stores(fs, p, rx_trim(fs, p))
  PROVE  rx_write(rxbuf, fs, p, rx_trim(fs, p)) \in [0 .. RxLen - 1 -> Int]
<1> DEFINE t == rx_trim(fs, p)
           n == pay_len(p, t)
           pos == CircFwd(fs.rx_next_pos, U32(pay_seq(p, t) - fs.rx_next_seq), RxLen)
<1>1. ~t.drop
  BY DEF rx_stores, rx_inorder, rx_ahead
<1>2. /\ t.trim_start \in Nat /\ t.trim_end \in Nat /\ n \in 0 .. Len(p.data)
      /\ n > 0 /\ pay_seq(p, t) \in SeqNo
      /\ U32(pay_seq(p, t) - fs.rx_next_seq) + n <= fs.rx_avail
  BY <1>1, PayloadFits DEF IInv, rx_stores
<1>3. /\ p.data \in Seq(Int) /\ rxbuf \in [0 .. RxLen - 1 -> Int]
      /\ fs.rx_next_pos \in 0 .. RxLen - 1 /\ fs.rx_avail \in 0 .. RxLen
      /\ fs.rx_next_seq \in SeqNo
  BY DEF IInv, TypeOK, FlowState, Segments
<1>4. n = Len(p.data) - (t.trim_start + t.trim_end)
  BY DEF pay_len
<1>5. pos \in 0 .. RxLen - 1
  <2>1. U32(pay_seq(p, t) - fs.rx_next_seq) \in 0 .. RxLen
    <3>1. U32(pay_seq(p, t) - fs.rx_next_seq) \in Nat
      BY <1>2, <1>3, SeqDistance, Constants DEF SeqNo
    <3>2. n \in Nat
      BY <1>2, <1>3
    <3> HIDE DEF n
    <3> QED BY <1>2, <1>3, <3>1, <3>2, Constants
  <2> QED BY <1>3, <2>1, Constants, CircFwdRange
<1> HIDE DEF n, pos, t
<1>6. ASSUME NEW i \in 0 .. RxLen - 1
      PROVE  (LET k == CircDist(pos, i, RxLen)
              IN  IF k < n THEN p.data[t.trim_start + k + 1] ELSE rxbuf[i]) \in Int
  <2> DEFINE k == CircDist(pos, i, RxLen)
  <2>1. k \in Nat
    <3>1. k \in 0 .. RxLen - 1
      BY <1>5, Constants, CircDistRange
    <3> HIDE DEF k
    <3> QED BY <3>1, Constants
  <2> HIDE DEF k
  <2>2. CASE k < n
    <3>1. Len(p.data) \in Nat /\ t.trim_start \in Nat /\ t.trim_end \in Nat
      BY <1>2, <1>3
    <3>2. t.trim_start + k + 1 \in 1 .. Len(p.data)
      BY <1>4, <2>1, <2>2, <3>1, SMTT(30)
    <3> QED BY <1>3, <2>2, <3>2 DEF k
  <2>3. CASE ~(k < n)
    BY <1>3, <2>3 DEF k
  <2> QED BY <2>2, <2>3
<1>7. rx_write(rxbuf, fs, p, t)
        = [i \in 0 .. RxLen - 1 |->
             LET k == CircDist(pos, i, RxLen)
             IN  IF k < n THEN p.data[t.trim_start + k + 1] ELSE rxbuf[i]]
  BY <1>3 DEF rx_write, pos, n
<1> QED BY <1>6, <1>7 DEF t

\* A segment for the fast path: its ack, then its payload.
LEMMA FastpathStep ==
  ASSUME IInv, NEW p \in Segments, Len(p.data) < LenMod,
         ~TrimMisses(fs, p.seq, Len(p.data)), fastpath_packet(p)
  PROVE  IInv' /\ win_edge(fs') = win_edge(fs)
<1> DEFINE f == rx_ack(fs, p)
           t == rx_trim(fs, p)
           g == IF third_dupack(fs, p) THEN f ELSE rx_data(f, p, t)
           rx == fs.rx_avail - g.rx_avail
           tx == tx_bump(fs, p)
<1>1. FlowOK(fs) /\ hist \in Indices
  BY DEF IInv, TypeOK
<1>2. /\ fs' = g /\ notify(rx, tx) /\ qm' = credit(fs, g)
      /\ hist' = [hist EXCEPT !.rcvd = @ + rx, !.acked = @ + tx]
      /\ rxbuf' = IF rx_stores(fs, p, t) THEN rx_write(rxbuf, fs, p, t) ELSE rxbuf
      /\ UNCHANGED <<conn, kout, atx, txbuf>>
  BY DEF fastpath_packet
<1>3. /\ FlowOK(f) /\ f.tx_head = fs.tx_head /\ SameRx(fs, f)
      /\ tx \in Nat /\ unacked(f) + tx = unacked(fs)
  BY <1>1, AckFlow
<1>4. t = rx_trim(f, p) /\ ~TrimMisses(f, p.seq, Len(p.data))
  BY <1>3 DEF rx_trim, tcp_trim_rxbuf, TrimMisses, SameRx
<1> HIDE DEF f, t, tx
<1>5. /\ FlowOK(g) /\ SameTx(f, g)
      /\ g.rx_avail <= f.rx_avail /\ same_end(f, g)
  <2>1. CASE third_dupack(fs, p)
    <3>1. g = f
      BY <2>1
    <3>2. f.rx_avail <= f.rx_avail
      BY <1>3, FlowRanges DEF FlowOK
    <3> QED BY <1>3, <3>1, <3>2 DEF SameTx, same_end
  <2>2. CASE ~third_dupack(fs, p)
    <3>1. g = rx_data(f, p, rx_trim(f, p))
      BY <1>4, <2>2
    <3> QED BY <1>3, <1>4, <3>1, DataFlow
  <2> QED BY <2>1, <2>2
<1> HIDE DEF g
<1>6. rx \in Nat /\ fs'.rx_avail + rx = fs.rx_avail
  <2>1. /\ fs.rx_avail \in Nat /\ g.rx_avail \in Nat /\ g.rx_avail <= fs.rx_avail
    BY <1>1, <1>3, <1>5, FlowRanges DEF FlowOK, SameRx
  <2> QED BY <1>2, <2>1
<1> HIDE DEF rx
<1>7. unacked(fs') + tx = unacked(fs) /\ fs'.tx_head = fs.tx_head
  BY <1>2, <1>3, <1>5 DEF SameTx, unacked, tx_unsent
<1>8. tail_pos(fs') = tail_pos(fs) /\ win_edge(fs') = win_edge(fs)
  BY <1>2, <1>3, <1>5 DEF SameRx, tail_pos, win_edge, same_end
<1>9. HistStep(rx, tx)
  <2>1. hist.rcvd + rx \in Nat /\ hist.acked + tx \in Nat
    BY <1>1, <1>3, <1>6 DEF Indices
  <2>2. hist' \in Indices
    BY <1>1, <1>2, <2>1, Zenon DEF Indices
  <2> QED BY <1>1, <1>2, <2>2 DEF Indices, HistStep
<1>10. FlowOK(fs')
  BY <1>2, <1>5
<1>11. RxOrder' /\ TxOrder' /\ ConnRx' /\ ConnTx' /\ AtxChain'
  BY <1>2, <1>3, <1>6, <1>7, <1>8, <1>9, <1>10, FlowStep
<1>12. arx' \in Seq(Notification) /\ ArxChain'
  BY <1>2, <1>3, <1>6, <1>9, NotifyChain DEF HistStep
<1>13. qm' \in Nat /\ QmanCovers'
  BY <1>2, <1>5, CreditCovers DEF QmanCovers
<1>14. rxbuf' \in [0 .. RxLen - 1 -> Int]
  BY <1>2, WriteType DEF IInv, TypeOK, t
<1>15. TypeOK'
  BY <1>2, <1>9, <1>10, <1>12, <1>13, <1>14 DEF IInv, TypeOK, FlowOK, HistStep
<1> QED BY <1>8, <1>10, <1>11, <1>12, <1>13, <1>15 DEF IInv

\* Whatever segment arrives that can be trimmed.
LEMMA PacketStep ==
  ASSUME IInv, NEW p \in Segments, Len(p.data) < LenMod,
         ~TrimMisses(fs, p.seq, Len(p.data)), fast_flows_packet(p)
  PROVE  IInv' /\ win_edge(fs') = win_edge(fs)
BY SlowpathStep, FastpathStep DEF fast_flows_packet

\* Whatever segment of the peer's stream arrives.
LEMMA NetworkStep == IInv /\ network_rx => IInv' /\ win_edge(fs') = win_edge(fs)
<1> SUFFICES ASSUME IInv, network_rx PROVE IInv' /\ win_edge(fs') = win_edge(fs)
  OBVIOUS
<1>1. PICK off \in Offsets, len \in Lens, a \in Acks, wnd \in Windows,
           kind \in {"ack", "plain", "syn", "other"} :
        LET seq == U32(fs.rx_next_seq + off)
            ack == U32(U32(fs.tx_next_seq - fs.tx_sent) + a)
            data == [i \in 1 .. len |-> hist.rcvd + off + i - 1]
        IN  /\ ~TrimMisses(fs, seq, len)
            /\ fast_flows_packet(Segment(kind, seq, ack, wnd, data))
  BY DEF network_rx
<1> DEFINE seq == U32(fs.rx_next_seq + off)
           ack == U32(U32(fs.tx_next_seq - fs.tx_sent) + a)
           data == [i \in 1 .. len |-> hist.rcvd + off + i - 1]
           p == Segment(kind, seq, ack, wnd, data)
<1>2. /\ off \in Int /\ -SeqMod <= off /\ off < SeqMod
      /\ a \in Int /\ -SeqMod <= a /\ a < SeqMod
      /\ len \in Nat /\ len < LenMod /\ wnd \in 0 .. LenMod - 1
  BY FastFlowAssumption, Constants
<1>3. /\ fs.rx_next_seq \in SeqNo /\ fs.tx_next_seq \in SeqNo
      /\ fs.tx_sent \in Nat /\ fs.tx_sent < TxLen /\ hist.rcvd \in Nat
  BY Constants, SMTT(30) DEF IInv, TypeOK, FlowState, Indices
<1>4. seq \in SeqNo
  BY <1>2, <1>3, Constants DEF U32, SeqNo
<1>5. ack \in SeqNo
  <2>1. U32(fs.tx_next_seq - fs.tx_sent) \in SeqNo
    BY <1>3, Constants DEF U32, SeqNo
  <2> QED BY <1>2, <2>1, Constants DEF U32, SeqNo
<1>6. data \in Seq(Int) /\ Len(data) = len
  BY <1>2, <1>3
<1> HIDE DEF seq, ack, data
<1>7. p \in Segments /\ p.seq = seq /\ p.data = data
  BY <1>2, <1>4, <1>5, <1>6 DEF Segment, Segments
<1>8. ~TrimMisses(fs, p.seq, Len(p.data)) /\ Len(p.data) < LenMod
  BY <1>1, <1>2, <1>6, <1>7 DEF seq
<1>9. fast_flows_packet(p)
  BY <1>1 DEF seq, ack, data
<1> HIDE DEF p
<1> QED BY <1>7, <1>8, <1>9, PacketStep

\* Numbers that the steps below reason with.
LEMMA Ranges ==
  ASSUME IInv
  PROVE  /\ hist.rcvd \in Nat /\ hist.known \in Nat /\ hist.freed \in Nat
         /\ hist.acked \in Nat /\ hist.tail \in Nat /\ hist.head \in Nat
         /\ hist.alloc \in Nat
         /\ fs.rx_avail \in Nat /\ fs.rx_avail <= RxLen
         /\ unacked(fs) \in Nat /\ unacked(fs) < TxLen
         /\ nic_tail = hist.rcvd + fs.rx_avail - RxLen
         /\ nic_head = hist.acked + unacked(fs)
         /\ tail_pos(fs) \in 0 .. RxLen - 1 /\ fs.tx_head \in 0 .. TxLen - 1
         /\ nic_tail <= hist.freed
         /\ hist.freed <= hist.known /\ hist.known <= hist.rcvd
         /\ hist.tail <= hist.acked /\ nic_head <= hist.head
         /\ hist.head <= hist.alloc /\ hist.alloc < hist.tail + TxLen
<1>1. fs \in FlowState /\ hist \in Indices /\ FlowOK(fs)
  BY DEF IInv, TypeOK
<1>2. tx_unsent(fs, fs.tx_head) \in Nat /\ fs.tx_sent \in Nat
  BY <1>1, FlowRanges, UnsentRange, Constants
<1>3. unacked(fs) \in Nat /\ unacked(fs) < TxLen
  BY <1>1, <1>2 DEF FlowOK, unacked
<1>4. nic_head = hist.acked + unacked(fs)
  BY <1>1, <1>2 DEF nic_head, unacked, Indices
<1>5. tail_pos(fs) \in 0 .. RxLen - 1
  BY <1>1, Constants, CircFwdRange DEF tail_pos, FlowState
<1>6. fs.rx_avail \in Nat /\ fs.rx_avail <= RxLen /\ fs.tx_head \in 0 .. TxLen - 1
  BY <1>1, FlowRanges
<1> QED BY <1>1, <1>3, <1>4, <1>5, <1>6 DEF IInv, RxOrder, TxOrder, nic_tail, Indices

\* A position that lies w bytes ahead lies w - d bytes ahead after d bytes.
LEMMA Rebase ==
  ASSUME NEW n \in Nat, NEW p \in 0 .. n - 1, NEW w \in Nat, NEW d \in Nat,
         d <= w, w <= n
  PROVE  CircFwd(CircFwd(p, d, n), w - d, n) = CircFwd(p, w, n)
<1>1. /\ d \in 0 .. n /\ w - d \in 0 .. n /\ d + (w - d) <= n /\ d + (w - d) = w
  OBVIOUS
<1> QED BY <1>1, CircFwdFwd

LEMMA BumpStep == IInv /\ flast_flows_bump => IInv'
<1> SUFFICES ASSUME IInv, flast_flows_bump PROVE IInv'
  OBVIOUS
<1> DEFINE b == Head(atx)
           g == flow_bump(fs, b)
           x == b.freed - nic_tail
           y == b.head - nic_head
           z == IF x = RxLen THEN 0 ELSE x
<1>1. /\ atx # << >> /\ atx' = Tail(atx)
      /\ UNCHANGED <<conn, kout, arx, txbuf, rxbuf, hist>>
      /\ (fs' = fs /\ qm' = qm) \/ (fs' = g /\ qm' = credit(fs, g))
  BY DEF flast_flows_bump, fast_appctx_poll
<1>2. atx \in Seq(Bump) /\ AtxChain /\ FlowOK(fs) /\ Len(atx) \in Nat
  BY DEF IInv, TypeOK
<1>3. /\ b \in Bump /\ b = atx[1] /\ 1 \in 1 .. Len(atx)
      /\ atx' \in Seq(Bump) /\ Len(atx') = Len(atx) - 1
      /\ \A i \in 1 .. Len(atx') : atx'[i] = atx[i + 1] /\ i + 1 \in 1 .. Len(atx)
  BY <1>1, <1>2
<1>4. ArxChain'
  BY <1>1 DEF IInv, ArxChain
<1>5. CASE fs' = fs /\ qm' = qm
  <2>1. nic_tail' = nic_tail /\ nic_head' = nic_head /\ tail_pos(fs') = tail_pos(fs)
    BY <1>1, <1>5 DEF nic_tail, nic_head
  <2>2. RxOrder' /\ TxOrder' /\ ConnRx' /\ ConnTx' /\ QmanCovers'
    BY <1>1, <1>5, <2>1 DEF IInv, RxOrder, TxOrder, ConnRx, ConnTx, QmanCovers
  <2>3. AtxChain'
    <3> SUFFICES ASSUME NEW i \in 1 .. Len(atx'), NEW j \in 1 .. i
                 PROVE  /\ nic_tail <= atx'[i].freed /\ atx'[i].freed <= hist.freed
                        /\ nic_head <= atx'[i].head /\ atx'[i].head <= hist.head
                        /\ atx'[i].rx_tail
                             = CircFwd(tail_pos(fs), atx'[i].freed - nic_tail, RxLen)
                        /\ atx'[i].tx_head
                             = CircFwd(fs.tx_head, atx'[i].head - nic_head, TxLen)
                        /\ atx'[j].freed <= atx'[i].freed
                        /\ atx'[j].head <= atx'[i].head
      BY <1>1, <1>5, <2>1 DEF AtxChain
    <3>1. j \in 1 .. Len(atx') /\ j + 1 \in 1 .. i + 1
      BY <1>2, <1>3
    <3>2. atx'[i] = atx[i + 1] /\ i + 1 \in 1 .. Len(atx) /\ atx'[j] = atx[j + 1]
      BY <1>3, <3>1
    <3> QED BY <1>2, <3>1, <3>2 DEF AtxChain
  <2>4. TypeOK'
    BY <1>1, <1>3, <1>5 DEF IInv, TypeOK
  <2>5. FlowOK(fs')
    BY <1>2, <1>5
  <2> QED BY <1>4, <2>2, <2>3, <2>4, <2>5 DEF IInv
<1>6. CASE fs' = g /\ qm' = credit(fs, g)
  <2>1. /\ nic_tail <= b.freed /\ b.freed <= hist.freed
        /\ nic_head <= b.head /\ b.head <= hist.head
        /\ b.rx_tail = CircFwd(tail_pos(fs), x, RxLen)
        /\ b.tx_head = CircFwd(fs.tx_head, y, TxLen)
    BY <1>2, <1>3 DEF AtxChain
  <2>2. b.freed \in Nat /\ b.head \in Nat
    BY <1>3 DEF Bump
  <2> HIDE DEF b
  <2>3. x \in Nat /\ fs.rx_avail + x <= RxLen /\ b.freed = nic_tail + x
    BY <2>1, <2>2, Ranges, Constants
  <2>4. y \in Nat /\ unacked(fs) + y < TxLen /\ b.head = nic_head + y
    BY <2>1, <2>2, Ranges, Constants
  <2> HIDE DEF x, y
  <2>5. /\ FlowOK(g) /\ g.tx_head = b.tx_head /\ unacked(g) = unacked(fs) + y
        /\ g.rx_avail = fs.rx_avail + z
        /\ tail_pos(g) = CircFwd(tail_pos(fs), z, RxLen)
    BY <1>2, <1>3, <2>1, <2>3, <2>4, BumpFlow
  <2> HIDE DEF g
  <2>6. z \in Nat /\ z <= x /\ (z = x \/ x = RxLen)
    BY <2>3, Constants
  <2> HIDE DEF z
  <2>7. nic_tail' = nic_tail + z
    <3>1. nic_tail' = hist.rcvd + fs'.rx_avail - RxLen
      BY <1>1 DEF nic_tail
    <3>2. fs'.rx_avail = fs.rx_avail + z
      BY <1>6, <2>5
    <3> QED BY <2>6, <3>1, <3>2, Ranges, Constants
  <2>8. nic_head' = nic_head + y
    <3>1. g.tx_sent \in Nat /\ tx_unsent(g, g.tx_head) \in Nat
      BY <2>5, FlowRanges, UnsentRange, Constants DEF FlowOK
    <3>2. nic_head' = hist.acked + unacked(g)
      BY <1>1, <1>6, <3>1, Ranges, SMTT(30) DEF nic_head, unacked
    <3> QED BY <2>4, <2>5, <3>2, Ranges
  <2>9. ASSUME NEW v \in Nat, b.freed <= v, v <= hist.freed
        PROVE  /\ nic_tail' <= v
               /\ CircFwd(tail_pos(g), v - nic_tail', RxLen)
                    = CircFwd(tail_pos(fs), v - nic_tail, RxLen)
    <3>1. /\ v - nic_tail \in Nat /\ z <= v - nic_tail /\ v - nic_tail <= RxLen
          /\ v - nic_tail' = (v - nic_tail) - z /\ nic_tail' <= v
      BY <2>3, <2>6, <2>7, <2>9, Ranges, Constants
    <3>2. tail_pos(fs) \in 0 .. RxLen - 1
      BY Ranges
    <3> QED BY <2>5, <2>6, <3>1, <3>2, Rebase, Constants
  <2>10. ASSUME NEW v \in Nat, b.head <= v, v <= hist.head
         PROVE  /\ nic_head' <= v
                /\ CircFwd(g.tx_head, v - nic_head', TxLen)
                     = CircFwd(fs.tx_head, v - nic_head, TxLen)
    <3>1. /\ v - nic_head \in Nat /\ y <= v - nic_head /\ v - nic_head <= TxLen
          /\ v - nic_head' = (v - nic_head) - y /\ nic_head' <= v
      BY <2>4, <2>8, <2>10, Ranges, Constants
    <3>2. fs.tx_head \in 0 .. TxLen - 1
      BY Ranges
    <3> QED BY <2>1, <2>4, <2>5, <3>1, <3>2, Rebase, Constants
  <2>11. hist.freed \in Nat /\ hist.head \in Nat
    BY Ranges
  <2>12. /\ nic_tail' <= hist.freed /\ nic_head' <= hist.head
         /\ CircFwd(tail_pos(g), hist.freed - nic_tail', RxLen)
              = CircFwd(tail_pos(fs), hist.freed - nic_tail, RxLen)
         /\ CircFwd(g.tx_head, hist.head - nic_head', TxLen)
              = CircFwd(fs.tx_head, hist.head - nic_head, TxLen)
    BY <2>1, <2>9, <2>10, <2>11
  <2>13. RxOrder' /\ TxOrder'
    BY <1>1, <2>12 DEF IInv, RxOrder, TxOrder
  <2>14. ConnRx' /\ ConnTx'
    BY <1>1, <1>6, <2>12 DEF IInv, ConnRx, ConnTx
  <2>15. AtxChain'
    <3> SUFFICES ASSUME NEW i \in 1 .. Len(atx'), NEW j \in 1 .. i
                 PROVE  /\ nic_tail' <= atx'[i].freed /\ atx'[i].freed <= hist.freed
                        /\ nic_head' <= atx'[i].head /\ atx'[i].head <= hist.head
                        /\ atx'[i].rx_tail
                             = CircFwd(tail_pos(fs'), atx'[i].freed - nic_tail', RxLen)
                        /\ atx'[i].tx_head
                             = CircFwd(fs'.tx_head, atx'[i].head - nic_head', TxLen)
                        /\ atx'[j].freed <= atx'[i].freed
                        /\ atx'[j].head <= atx'[i].head
      <4>1. hist' = hist
        BY <1>1
      <4> QED BY <4>1 DEF AtxChain
    <3>1. j \in 1 .. Len(atx') /\ j + 1 \in 1 .. i + 1 /\ 1 \in 1 .. i + 1
      BY <1>2, <1>3
    <3>2. atx'[i] = atx[i + 1] /\ i + 1 \in 1 .. Len(atx) /\ atx'[j] = atx[j + 1]
      BY <1>3, <3>1
    <3>3. /\ atx[i + 1].freed <= hist.freed /\ atx[i + 1].head <= hist.head
          /\ b.freed <= atx[i + 1].freed /\ b.head <= atx[i + 1].head
          /\ atx[j + 1].freed <= atx[i + 1].freed
          /\ atx[j + 1].head <= atx[i + 1].head
          /\ atx[i + 1].rx_tail
               = CircFwd(tail_pos(fs), atx[i + 1].freed - nic_tail, RxLen)
          /\ atx[i + 1].tx_head
               = CircFwd(fs.tx_head, atx[i + 1].head - nic_head, TxLen)
      BY <1>2, <1>3, <3>1, <3>2 DEF AtxChain
    <3>4. atx[i + 1].freed \in Nat /\ atx[i + 1].head \in Nat
      <4>1. atx[i + 1] \in Bump
        BY <1>2, <3>2
      <4> QED BY <4>1 DEF Bump
    <3> QED BY <1>6, <2>9, <2>10, <3>2, <3>3, <3>4
  <2>16. qm' \in Nat /\ QmanCovers'
    BY <1>6, <2>5, CreditCovers DEF QmanCovers
  <2>17. TypeOK' /\ FlowOK(fs')
    BY <1>1, <1>3, <1>6, <2>5, <2>16 DEF IInv, TypeOK, FlowOK
  <2> QED BY <1>4, <2>13, <2>14, <2>15, <2>16, <2>17 DEF IInv
<1> QED BY <1>1, <1>5, <1>6
-----------------------------------------------------------------------------
(* Steps of the kernel and of the application library *)

LEMMA OpenedStep == IInv /\ appif_conn_opened => IInv'
<1> SUFFICES ASSUME IInv, appif_conn_opened PROVE IInv'
  OBVIOUS
<1>1. /\ kout' \in BOOLEAN
      /\ UNCHANGED <<fs, conn, arx, atx, qm, txbuf, rxbuf, hist>>
  BY DEF appif_conn_opened
<1>2. TypeOK' /\ FlowOK(fs')
  BY <1>1 DEF IInv, TypeOK
<1>3. RxOrder' /\ TxOrder' /\ ConnRx' /\ ConnTx'
  BY <1>1 DEF IInv, RxOrder, TxOrder, ConnRx, ConnTx, nic_tail, nic_head
<1>4. ArxChain' /\ AtxChain' /\ QmanCovers'
  BY <1>1 DEF IInv, ArxChain, AtxChain, QmanCovers, nic_tail, nic_head
<1> QED BY <1>2, <1>3, <1>4 DEF IInv

\* What no step of the library changes.
LEMMA LibraryFrame ==
  ASSUME IInv, UNCHANGED <<fs, qm>>,
         hist'.rcvd = hist.rcvd, hist'.acked = hist.acked
  PROVE  /\ FlowOK(fs') /\ QmanCovers' /\ tail_pos(fs') = tail_pos(fs)
         /\ nic_tail' = nic_tail /\ nic_head' = nic_head
  BY DEF IInv, QmanCovers, nic_tail, nic_head

LEMMA AtxFrame ==
  ASSUME IInv, UNCHANGED <<fs, qm, atx>>,
         hist'.rcvd = hist.rcvd, hist'.acked = hist.acked,
         hist'.freed \in Nat, hist'.freed >= hist.freed,
         hist'.head \in Nat, hist'.head >= hist.head
  PROVE  AtxChain'
<1>1. AtxChain /\ atx \in Seq(Bump)
  BY DEF IInv, TypeOK
<1>2. /\ nic_tail' = nic_tail /\ nic_head' = nic_head
      /\ tail_pos(fs') = tail_pos(fs) /\ fs' = fs /\ atx' = atx
  BY LibraryFrame
<1> SUFFICES ASSUME NEW i \in 1 .. Len(atx)
             PROVE  atx[i].freed <= hist'.freed /\ atx[i].head <= hist'.head
  BY <1>1, <1>2 DEF AtxChain
<1>3. atx[i].freed \in Nat /\ atx[i].head \in Nat
  <2>1. atx[i] \in Bump
    BY <1>1
  <2> QED BY <2>1 DEF Bump
<1>4. atx[i].freed <= hist.freed /\ atx[i].head <= hist.head
  BY <1>1 DEF AtxChain
<1>5. hist.freed \in Nat /\ hist.head \in Nat
  BY Ranges
<1> QED BY <1>3, <1>4, <1>5

\* A poll starts; it may see the event that the connection is open.
LEMMA PollStep == IInv /\ context_poll => IInv'
<1> SUFFICES ASSUME IInv, context_poll PROVE IInv'
  OBVIOUS
<1> DEFINE st == IF ~kout THEN conn.status
                 ELSE IF conn.rxb_head < RxLen THEN "open" ELSE "aborted"
<1>1. /\ kout' = FALSE /\ conn' = [conn EXCEPT !.polling = TRUE, !.status = st]
      /\ conn.status # "aborted"
      /\ UNCHANGED <<fs, arx, atx, qm, txbuf, rxbuf, hist>>
  BY DEF context_poll
<1>2. conn \in Connection
  BY DEF IInv, TypeOK
<1>3. st \in {"requested", "open", "aborted"} /\ TRUE \in BOOLEAN
  BY <1>2 DEF Connection
<1>4. /\ conn'.status = st /\ conn'.rxb_head = conn.rxb_head
      /\ conn'.rxb_tail = conn.rxb_tail /\ conn'.txb_head = conn.txb_head
      /\ conn'.txb_head_alloc = conn.txb_head_alloc
      /\ conn'.txb_tail = conn.txb_tail
  BY <1>1, <1>2 DEF Connection
<1>5. /\ conn'.status = "requested" => conn.status = "requested"
      /\ conn'.status = "open" =>
           conn.status = "open" \/ (conn.status = "requested" /\ conn.rxb_head < RxLen)
  BY <1>1, <1>2, <1>4 DEF Connection
<1>6. conn' \in Connection
  <2> HIDE DEF st
  <2> QED BY <1>1, <1>2, <1>3, Zenon DEF Connection
<1> HIDE DEF st
<1>7. /\ nic_tail' = nic_tail /\ nic_head' = nic_head
      /\ tail_pos(fs') = tail_pos(fs) /\ FlowOK(fs') /\ QmanCovers'
  BY <1>1, LibraryFrame
<1>8. conn.status = "requested" /\ conn.rxb_head < RxLen =>
        conn.rxb_head = CircFwd(conn.rxb_tail, hist.known - hist.freed, RxLen)
  <2> SUFFICES ASSUME conn.status = "requested", conn.rxb_head < RxLen
               PROVE  conn.rxb_head
                        = CircFwd(conn.rxb_tail, hist.known - hist.freed, RxLen)
    OBVIOUS
  <2>1. conn.rxb_head = hist.known /\ conn.rxb_tail = 0 /\ hist.freed = 0
    BY DEF IInv, ConnRx
  <2> QED BY <2>1, Ranges, Constants DEF CircFwd
<1>9. ConnRx'
  <2>1. ConnRx
    BY DEF IInv
  <2> QED BY <1>1, <1>4, <1>5, <1>7, <1>8, <2>1 DEF ConnRx
<1>10. ConnTx' /\ RxOrder' /\ TxOrder'
  BY <1>1, <1>4, <1>5, <1>7 DEF IInv, ConnTx, RxOrder, TxOrder
<1>11. ArxChain' /\ AtxChain'
  BY <1>1, <1>7 DEF IInv, ArxChain, AtxChain
<1>12. TypeOK'
  BY <1>1, <1>6 DEF IInv, TypeOK
<1> QED BY <1>7, <1>9, <1>10, <1>11, <1>12 DEF IInv
\* A notification moves the library's positions by what it counts.
LEMMA ConnupdateStep == IInv /\ event_arx_connupdate => IInv'
<1> SUFFICES ASSUME IInv, event_arx_connupdate PROVE IInv'
  OBVIOUS
<1> DEFINE e == Head(arx)
<1>1. /\ arx # << >> /\ arx' = Tail(arx) /\ conn.status # "aborted"
      /\ hist' = [hist EXCEPT !.known = @ + e.rx_bump, !.tail = @ + e.tx_bump]
      /\ UNCHANGED <<fs, kout, atx, qm, txbuf, rxbuf>>
  BY DEF event_arx_connupdate
<1>2. arx \in Seq(Notification) /\ conn \in Connection /\ hist \in Indices
  BY DEF IInv, TypeOK
<1>3. /\ e \in Notification /\ e = arx[1] /\ 1 \in 1 .. Len(arx)
      /\ arx' \in Seq(Notification)
      /\ \A i \in 1 .. Len(arx') : arx'[i] = arx[i + 1] /\ i + 1 \in 1 .. Len(arx)
  BY <1>1, <1>2
<1>4. /\ e.rx_bump \in Nat /\ e.tx_bump \in Nat /\ e.rcvd \in Nat /\ e.acked \in Nat
  BY <1>3 DEF Notification
<1>5. /\ e.rcvd <= hist.rcvd /\ e.acked <= hist.acked
      /\ hist.known + e.rx_bump <= e.rcvd /\ hist.tail + e.tx_bump <= e.acked
  BY <1>3 DEF IInv, ArxChain
<1>6. hist' \in Indices
  <2>1. hist.known + e.rx_bump \in Nat /\ hist.tail + e.tx_bump \in Nat
    BY <1>4, Ranges
  <2> QED BY <1>1, <1>2, <2>1, Zenon DEF Indices
<1>7. /\ hist'.known = hist.known + e.rx_bump /\ hist'.tail = hist.tail + e.tx_bump
      /\ hist'.rcvd = hist.rcvd /\ hist'.acked = hist.acked
      /\ hist'.freed = hist.freed /\ hist'.head = hist.head
      /\ hist'.alloc = hist.alloc
  BY <1>1, <1>2 DEF Indices
<1>8. ArxChain'
  <2> SUFFICES ASSUME NEW i \in 1 .. Len(arx')
               PROVE  /\ arx'[i].rcvd <= hist.rcvd /\ arx'[i].acked <= hist.acked
                      /\ (IF i = 1 THEN hist'.known ELSE arx'[i - 1].rcvd)
                           + arx'[i].rx_bump <= arx'[i].rcvd
                      /\ (IF i = 1 THEN hist'.tail ELSE arx'[i - 1].acked)
                           + arx'[i].tx_bump <= arx'[i].acked
    BY <1>7 DEF ArxChain
  <2>1. i \in Nat /\ i + 1 # 1 /\ i + 1 \in 1 .. Len(arx) /\ i + 1 - 1 = i
        /\ i \in 1 .. Len(arx)
    BY <1>2, <1>3
  <2> DEFINE m == arx[i]
             n == arx[i + 1]
  <2>2. arx'[i] = n
    BY <1>3
  <2>3. m \in Notification /\ n \in Notification
    BY <1>2, <2>1
  <2>4. /\ n.rcvd <= hist.rcvd /\ n.acked <= hist.acked
        /\ m.rcvd + n.rx_bump <= n.rcvd /\ m.acked + n.tx_bump <= n.acked
    BY <2>1 DEF IInv, ArxChain
  <2>5. i = 1 => m = e
    BY <1>3
  <2>6. i # 1 => arx'[i - 1] = m
    <3> SUFFICES ASSUME i # 1 PROVE arx'[i - 1] = m
      OBVIOUS
    <3>1. i - 1 \in 1 .. Len(arx') /\ i - 1 + 1 = i
      BY <1>1, <1>2
    <3> QED BY <1>3, <3>1
  <2> HIDE DEF m, n
  <2>7. /\ m.rcvd \in Nat /\ m.acked \in Nat /\ n.rcvd \in Nat /\ n.acked \in Nat
        /\ n.rx_bump \in Nat /\ n.tx_bump \in Nat
    BY <2>3 DEF Notification
  <2>8. CASE i = 1
    <3>1. e = m
      BY <2>5, <2>8
    <3>2. hist'.known <= m.rcvd /\ hist'.tail <= m.acked
      BY <1>5, <1>7, <3>1
    <3>3. hist'.known \in Nat /\ hist'.tail \in Nat
      BY <1>6 DEF Indices
    <3>4. /\ hist'.known + n.rx_bump <= n.rcvd /\ hist'.tail + n.tx_bump <= n.acked
      BY <2>4, <2>7, <3>2, <3>3, SMTT(30)
    <3> QED BY <2>2, <2>4, <2>8, <3>4
  <2>9. CASE i # 1
    BY <2>2, <2>4, <2>6, <2>9
  <2> QED BY <2>8, <2>9
<1> HIDE DEF e
<1>9. /\ nic_tail' = nic_tail /\ nic_head' = nic_head
      /\ tail_pos(fs') = tail_pos(fs) /\ FlowOK(fs') /\ QmanCovers'
  BY <1>1, <1>7, LibraryFrame
<1>10. /\ hist'.known <= hist.rcvd /\ hist.freed <= hist'.known
       /\ hist'.tail <= hist.acked /\ hist.alloc < hist'.tail + TxLen
  BY <1>4, <1>5, <1>7, Ranges, Constants
<1>11. RxOrder' /\ TxOrder'
  BY <1>7, <1>9, <1>10 DEF IInv, RxOrder, TxOrder
<1>12. AtxChain'
  <2>1. hist.freed \in Nat /\ hist.head \in Nat /\ hist.freed >= hist.freed
        /\ hist.head >= hist.head
    BY Ranges
  <2> QED BY <1>1, <1>7, <2>1, AtxFrame
<1>13. hist'.known - hist.freed \in 0 .. RxLen
  BY <1>4, <1>5, <1>7, <1>10, Ranges, Constants
<1>14. /\ conn.rxb_tail \in 0 .. RxLen - 1 /\ conn.txb_tail \in 0 .. TxLen - 1
       /\ conn.rxb_head \in 0 .. RxLen
  BY <1>2 DEF Connection
<1>15. e.rx_bump \in 0 .. RxLen /\ e.tx_bump \in 0 .. hist.alloc - hist.tail
       /\ hist.alloc - hist.tail \in 0 .. TxLen - 1
  BY <1>4, <1>5, Ranges, Constants
<1>16. CASE conn.status = "open"
  <2>1. conn' = [conn EXCEPT !.rxb_head = CircFwd(@, e.rx_bump, RxLen),
                             !.txb_tail = CircFwd(@, e.tx_bump, TxLen)]
    BY <1>16 DEF event_arx_connupdate, e
  <2>2. conn.rxb_head = CircFwd(conn.rxb_tail, hist.known - hist.freed, RxLen)
    BY <1>16 DEF IInv, ConnRx
  <2>3. /\ conn.rxb_head \in 0 .. RxLen - 1
        /\ CircFwd(conn.rxb_head, e.rx_bump, RxLen)
             = CircFwd(conn.rxb_tail, hist'.known - hist.freed, RxLen)
    <3> DEFINE k == hist.known - hist.freed
               d == e.rx_bump
    <3>1. /\ k \in 0 .. RxLen /\ d \in 0 .. RxLen /\ k + d <= RxLen
          /\ k + d = hist'.known - hist.freed
      BY <1>4, <1>7, <1>13, <1>15, Ranges, Constants
    <3>2. conn.rxb_head = CircFwd(conn.rxb_tail, k, RxLen)
      BY <2>2
    <3> HIDE DEF k, d
    <3>3. CircFwd(conn.rxb_tail, k, RxLen) \in 0 .. RxLen - 1
      BY <1>14, <3>1, Constants, CircFwdRange
    <3>4. CircFwd(CircFwd(conn.rxb_tail, k, RxLen), d, RxLen)
            = CircFwd(conn.rxb_tail, k + d, RxLen)
      BY <1>14, <3>1, Constants, CircFwdFwd
    <3> QED BY <3>1, <3>2, <3>3, <3>4 DEF d
  <2>4. CircFwd(conn.rxb_head, e.rx_bump, RxLen) \in 0 .. RxLen
    <3> DEFINE d == e.rx_bump
               h == conn.rxb_head
    <3>1. d \in 0 .. RxLen /\ h \in 0 .. RxLen - 1
      BY <1>15, <2>3
    <3> HIDE DEF d, h
    <3>2. CircFwd(h, d, RxLen) \in 0 .. RxLen - 1
      BY <3>1, Constants, CircFwdRange
    <3>3. CircFwd(h, d, RxLen) \in 0 .. RxLen
      BY <3>2, Constants
    <3> QED BY <3>3 DEF d, h
  <2>5. e.tx_bump \in 0 .. TxLen
    BY <1>15, Ranges, Constants
  <2>6. CircFwd(conn.txb_tail, e.tx_bump, TxLen) \in 0 .. TxLen - 1
    BY <1>14, <2>5, Constants, CircFwdRange
  <2>7. conn' \in Connection
    BY <1>2, <2>1, <2>4, <2>6, Zenon DEF Connection
  <2>8. /\ conn'.rxb_head = CircFwd(conn.rxb_head, e.rx_bump, RxLen)
        /\ conn'.txb_tail = CircFwd(conn.txb_tail, e.tx_bump, TxLen)
        /\ conn'.rxb_tail = conn.rxb_tail /\ conn'.txb_head = conn.txb_head
        /\ conn'.txb_head_alloc = conn.txb_head_alloc /\ conn'.status = "open"
    BY <1>2, <1>16, <2>1 DEF Connection
  <2>9. conn.txb_head_alloc = CircFwd(conn'.txb_tail, hist.alloc - hist'.tail, TxLen)
    <3>1. conn.txb_head_alloc = CircFwd(conn.txb_tail, hist.alloc - hist.tail, TxLen)
      BY DEF IInv, ConnTx
    <3>2. /\ hist.alloc - hist.tail \in Nat /\ hist.alloc - hist.tail <= TxLen
          /\ e.tx_bump <= hist.alloc - hist.tail
          /\ hist.alloc - hist'.tail = (hist.alloc - hist.tail) - e.tx_bump
      BY <1>4, <1>7, <1>15, Ranges, Constants
    <3> DEFINE w == hist.alloc - hist.tail
               d == e.tx_bump
    <3>3. w \in Nat /\ d \in Nat /\ d <= w /\ w <= TxLen
      BY <1>4, <3>2
    <3> HIDE DEF w, d
    <3>4. CircFwd(CircFwd(conn.txb_tail, d, TxLen), w - d, TxLen)
            = CircFwd(conn.txb_tail, w, TxLen)
      BY <1>14, <3>3, Constants, Rebase
    <3> QED BY <2>8, <3>1, <3>2, <3>4 DEF w, d
  <2>10. ConnRx'
    <3>1. conn.rxb_tail = CircFwd(tail_pos(fs), hist.freed - nic_tail, RxLen)
      BY DEF IInv, ConnRx
    <3> QED BY <1>7, <1>9, <2>3, <2>8, <3>1 DEF ConnRx
  <2>11. ConnTx'
    BY <1>1, <1>7, <1>9, <2>8, <2>9 DEF IInv, ConnTx
  <2>12. TypeOK'
    BY <1>1, <1>3, <1>6, <2>7 DEF IInv, TypeOK
  <2> QED BY <1>8, <1>9, <1>11, <1>12, <2>10, <2>11, <2>12 DEF IInv
<1>17. CASE conn.status = "requested"
  <2>1. conn' = [conn EXCEPT !.rxb_head = @ + e.rx_bump]
    BY <1>17 DEF event_arx_connupdate, e
  <2>2. conn.rxb_head = hist.known /\ conn.rxb_tail = 0 /\ hist.freed = 0
    BY <1>17 DEF IInv, ConnRx
  <2>3. conn.rxb_head + e.rx_bump \in 0 .. RxLen
    BY <1>4, <1>7, <1>13, <2>2, Ranges
  <2>4. conn' \in Connection
    BY <1>2, <2>1, <2>3, Zenon DEF Connection
  <2>5. /\ conn'.rxb_head = conn.rxb_head + e.rx_bump
        /\ conn'.txb_tail = conn.txb_tail
        /\ conn'.rxb_tail = conn.rxb_tail /\ conn'.txb_head = conn.txb_head
        /\ conn'.txb_head_alloc = conn.txb_head_alloc /\ conn'.status = "requested"
    BY <1>2, <1>17, <2>1 DEF Connection
  <2>6. hist.alloc = 0
    BY <1>17 DEF IInv, ConnTx
  <2>7. e.tx_bump = 0 /\ hist'.tail = hist.tail
    BY <1>4, <1>7, <1>15, <2>6, Ranges
  <2>8. ConnRx'
    <3>1. conn.rxb_tail = CircFwd(tail_pos(fs), hist.freed - nic_tail, RxLen)
      BY DEF IInv, ConnRx
    <3>2. conn'.rxb_head = hist'.known
      BY <1>7, <2>2, <2>5
    <3> QED BY <1>7, <1>9, <2>2, <2>5, <3>1, <3>2 DEF ConnRx
  <2>9. ConnTx'
    <3>1. /\ hist'.tail = hist.tail /\ hist'.head = hist.head
          /\ hist'.alloc = hist.alloc /\ fs' = fs /\ nic_head' = nic_head
      BY <1>1, <1>7, <1>9, <2>7
    <3>2. ConnTx
      BY DEF IInv
    <3> QED BY <2>5, <2>6, <3>1, <3>2 DEF ConnTx
  <2>10. TypeOK'
    BY <1>1, <1>3, <1>6, <2>4 DEF IInv, TypeOK
  <2> QED BY <1>8, <1>9, <1>11, <1>12, <2>8, <2>9, <2>10 DEF IInv
<1> QED BY <1>1, <1>2, <1>16, <1>17 DEF Connection
\* A bump carries the library's positions.
LEMMA ConnsBumpStep == IInv /\ conns_bump => IInv'
<1> SUFFICES ASSUME IInv, conns_bump PROVE IInv'
  OBVIOUS
<1> DEFINE b == [rx_tail |-> conn.rxb_tail, tx_head |-> conn.txb_head,
                 bump_seq |-> conn.bump_seq,
                 freed |-> hist.freed, head |-> hist.head]
<1>1. UNCHANGED <<fs, kout, arx, qm, txbuf, rxbuf, hist>>
  BY DEF conns_bump
<1>2. atx \in Seq(Bump) /\ conn \in Connection /\ hist \in Indices /\ AtxChain
  BY DEF IInv, TypeOK
<1>3. /\ nic_tail' = nic_tail /\ nic_head' = nic_head
      /\ tail_pos(fs') = tail_pos(fs) /\ FlowOK(fs') /\ QmanCovers'
  BY <1>1, LibraryFrame
<1>4. RxOrder' /\ TxOrder' /\ ArxChain'
  BY <1>1, <1>3 DEF IInv, RxOrder, TxOrder, ArxChain
<1>5. /\ conn' \in Connection
      /\ conn'.status = conn.status /\ conn'.rxb_head = conn.rxb_head
      /\ conn'.rxb_tail = conn.rxb_tail /\ conn'.txb_head = conn.txb_head
      /\ conn'.txb_head_alloc = conn.txb_head_alloc
      /\ conn'.txb_tail = conn.txb_tail
  <2>1. CASE conn' = [conn EXCEPT !.polling = FALSE]
    <3>1. FALSE \in BOOLEAN
      OBVIOUS
    <3>2. conn' \in Connection
      BY <1>2, <2>1, <3>1, Zenon DEF Connection
    <3> QED BY <1>2, <2>1, <3>2 DEF Connection
  <2>2. CASE conn' = [conn EXCEPT !.polling = FALSE, !.bump_pending = FALSE,
                                  !.bump_seq = U32(@ + 1),
                                  !.rxb_nictail = conn.rxb_tail]
    <3>1. /\ FALSE \in BOOLEAN /\ conn.rxb_tail \in 0 .. RxLen - 1
      BY <1>2 DEF Connection
    <3>2. U32(conn.bump_seq + 1) \in SeqNo
      BY <1>2, Constants DEF Connection, U32, SeqNo
    <3>3. conn' \in Connection
      BY <1>2, <2>2, <3>1, <3>2, Zenon DEF Connection
    <3> QED BY <1>2, <2>2, <3>3 DEF Connection
  <2> QED BY <2>1, <2>2 DEF conns_bump
<1>6. ConnRx' /\ ConnTx'
  BY <1>1, <1>3, <1>5 DEF IInv, ConnRx, ConnTx
<1>7. b \in Bump
  BY <1>2 DEF Bump, Connection, Indices
<1>8. CASE atx' = Append(atx, b)
  <2>1. /\ b.freed = hist.freed /\ b.head = hist.head
        /\ b.rx_tail = CircFwd(tail_pos(fs), hist.freed - nic_tail, RxLen)
        /\ b.tx_head = CircFwd(fs.tx_head, hist.head - nic_head, TxLen)
    BY DEF IInv, ConnRx, ConnTx
  <2>2. /\ nic_tail <= hist.freed /\ nic_head <= hist.head
        /\ hist.freed <= hist.freed /\ hist.head <= hist.head
    BY Ranges
  <2> HIDE DEF b
  <2>3. /\ atx' \in Seq(Bump) /\ Len(atx) \in Nat
        /\ 1 .. Len(atx') = 1 .. Len(atx) \cup {Len(atx) + 1}
        /\ atx'[Len(atx) + 1] = b
        /\ \A i \in 1 .. Len(atx) : atx'[i] = atx[i]
    BY <1>2, <1>7, <1>8
  <2>4. ASSUME NEW i \in 1 .. Len(atx'), NEW j \in 1 .. i
        PROVE  /\ nic_tail <= atx'[i].freed /\ atx'[i].freed <= hist.freed
               /\ nic_head <= atx'[i].head /\ atx'[i].head <= hist.head
               /\ atx'[i].rx_tail
                    = CircFwd(tail_pos(fs), atx'[i].freed - nic_tail, RxLen)
               /\ atx'[i].tx_head
                    = CircFwd(fs.tx_head, atx'[i].head - nic_head, TxLen)
               /\ atx'[j].freed <= atx'[i].freed /\ atx'[j].head <= atx'[i].head
    <3>1. CASE i \in 1 .. Len(atx)
      <4>1. j \in 1 .. Len(atx)
        BY <2>3, <3>1
      <4>2. atx'[i] = atx[i] /\ atx'[j] = atx[j]
        BY <2>3, <3>1, <4>1
      <4> QED BY <1>2, <3>1, <4>2 DEF AtxChain
    <3>2. CASE i = Len(atx) + 1
      <4>1. atx'[i] = b
        BY <2>3, <3>2
      <4>2. atx'[j].freed <= hist.freed /\ atx'[j].head <= hist.head
        <5>1. CASE j = i
          BY <2>1, <2>2, <4>1, <5>1
        <5>2. CASE j # i
          <6>1. j \in 1 .. Len(atx)
            BY <2>3, <3>2, <5>2
          <6> QED BY <1>2, <2>3, <6>1 DEF AtxChain
        <5> QED BY <5>1, <5>2
      <4> QED BY <2>1, <2>2, <4>1, <4>2
    <3> QED BY <2>3, <3>1, <3>2
  <2>5. AtxChain'
    <3>1. hist' = hist /\ fs' = fs
      BY <1>1
    <3> QED BY <1>3, <2>4, <3>1 DEF AtxChain
  <2>6. TypeOK'
    BY <1>1, <1>5, <2>3 DEF IInv, TypeOK
  <2> QED BY <1>3, <1>4, <1>6, <2>5, <2>6 DEF IInv
<1>9. CASE atx' = atx
  <2>1. AtxChain'
    BY <1>1, <1>2, <1>3, <1>9 DEF AtxChain
  <2>2. TypeOK'
    BY <1>1, <1>5, <1>9 DEF IInv, TypeOK
  <2> QED BY <1>3, <1>4, <1>6, <2>1, <2>2 DEF IInv
<1> QED BY <1>8, <1>9 DEF conns_bump

\* Freeing received bytes.
LEMMA RxDoneStep ==
  ASSUME IInv, NEW len \in Nat, connection_rx_done(len)
  PROVE  IInv'
<1> DEFINE bp == conn.bump_pending \/
                 U32(conn.rxb_head - conn.rxb_nictail) % RxLen >= RxLen \div 4
<1>1. /\ conn.status = "open" /\ len <= conn_rx_recvdbytes
      /\ conn' = [conn EXCEPT !.rxb_tail = CircFwd(@, len, RxLen),
                              !.bump_pending = bp]
      /\ hist' = [hist EXCEPT !.freed = @ + len]
      /\ UNCHANGED <<fs, kout, arx, atx, qm, txbuf, rxbuf>>
  BY DEF connection_rx_done, user
<1>2. conn \in Connection /\ hist \in Indices
  BY DEF IInv, TypeOK
<1>3. bp \in BOOLEAN
  OBVIOUS
<1> HIDE DEF bp
<1> DEFINE k == hist.known - hist.freed
<1>4. conn.rxb_tail \in 0 .. RxLen - 1
  BY <1>2 DEF Connection
<1>5. k \in 0 .. RxLen
  BY Ranges, Constants
<1>6. conn.rxb_head = CircFwd(conn.rxb_tail, k, RxLen)
  BY <1>1 DEF IInv, ConnRx
<1>7. conn_rx_recvdbytes = IF k = RxLen THEN 0 ELSE k
  <2> HIDE DEF k
  <2> QED BY <1>4, <1>5, <1>6, Constants, CircDistMove DEF conn_rx_recvdbytes
<1>8. len <= k
  <2> HIDE DEF k
  <2> QED BY <1>1, <1>5, <1>7, Constants
<1>9. hist' \in Indices
  <2>1. hist.freed + len \in Nat
    BY Ranges
  <2> QED BY <1>1, <1>2, <2>1, Zenon DEF Indices
<1>10. /\ hist'.freed = hist.freed + len /\ hist'.known = hist.known
       /\ hist'.rcvd = hist.rcvd /\ hist'.acked = hist.acked
       /\ hist'.tail = hist.tail /\ hist'.head = hist.head
       /\ hist'.alloc = hist.alloc
  BY <1>1, <1>2 DEF Indices
<1>11. /\ nic_tail' = nic_tail /\ nic_head' = nic_head
       /\ tail_pos(fs') = tail_pos(fs) /\ FlowOK(fs') /\ QmanCovers'
  BY <1>1, <1>10, LibraryFrame
<1>12. /\ hist.freed <= hist'.freed /\ hist'.freed <= hist.known
       /\ nic_tail <= hist'.freed /\ hist'.freed \in Nat
  BY <1>8, <1>10, Ranges, Constants
<1>13. RxOrder' /\ TxOrder'
  BY <1>10, <1>11, <1>12 DEF IInv, RxOrder, TxOrder
<1>14. AtxChain'
  <2>1. /\ hist'.head \in Nat /\ hist'.head >= hist.head
        /\ hist'.freed >= hist.freed
    BY <1>10, <1>12, Ranges
  <2> QED BY <1>1, <1>10, <1>12, <2>1, AtxFrame
<1>15. ArxChain'
  BY <1>1, <1>10 DEF IInv, ArxChain
<1>16. CircFwd(conn.rxb_tail, len, RxLen) \in 0 .. RxLen - 1
  <2> HIDE DEF k
  <2>1. len \in 0 .. RxLen
    BY <1>5, <1>8, Constants
  <2> QED BY <1>4, <2>1, Constants, CircFwdRange
<1>17. conn' \in Connection
  BY <1>1, <1>2, <1>3, <1>16, Zenon DEF Connection
<1>18. /\ conn'.rxb_tail = CircFwd(conn.rxb_tail, len, RxLen)
       /\ conn'.rxb_head = conn.rxb_head /\ conn'.status = "open"
       /\ conn'.txb_head = conn.txb_head /\ conn'.txb_tail = conn.txb_tail
       /\ conn'.txb_head_alloc = conn.txb_head_alloc
  BY <1>1, <1>2 DEF Connection
<1>19. conn'.rxb_tail = CircFwd(tail_pos(fs), hist'.freed - nic_tail, RxLen)
  <2> DEFINE d == hist.freed - nic_tail
  <2>1. /\ d \in 0 .. RxLen /\ len \in 0 .. RxLen /\ d + len <= RxLen
        /\ d + len = hist'.freed - nic_tail
    BY <1>8, <1>10, Ranges, Constants
  <2>2. conn.rxb_tail = CircFwd(tail_pos(fs), d, RxLen)
    BY DEF IInv, ConnRx
  <2>3. tail_pos(fs) \in 0 .. RxLen - 1
    BY Ranges
  <2> HIDE DEF d
  <2>4. CircFwd(CircFwd(tail_pos(fs), d, RxLen), len, RxLen)
          = CircFwd(tail_pos(fs), d + len, RxLen)
    BY <2>1, <2>3, Constants, CircFwdFwd
  <2> QED BY <1>18, <2>1, <2>2, <2>4
<1>20. conn'.rxb_head = CircFwd(conn'.rxb_tail, hist'.known - hist'.freed, RxLen)
  <2>1. hist'.known - hist'.freed = k - len
    BY <1>10, Ranges
  <2>2. k \in Nat /\ k <= RxLen
    BY <1>5, Constants
  <2> HIDE DEF k
  <2>3. CircFwd(CircFwd(conn.rxb_tail, len, RxLen), k - len, RxLen)
          = CircFwd(conn.rxb_tail, k, RxLen)
    BY <1>4, <1>8, <2>2, Constants, Rebase
  <2> QED BY <1>6, <1>18, <2>1, <2>3
<1>21. ConnRx'
  BY <1>11, <1>18, <1>19, <1>20 DEF ConnRx
<1>22. ConnTx'
  BY <1>1, <1>10, <1>11, <1>18 DEF IInv, ConnTx
<1>23. TypeOK'
  BY <1>1, <1>9, <1>17 DEF IInv, TypeOK
<1> QED BY <1>11, <1>13, <1>14, <1>15, <1>21, <1>22, <1>23 DEF IInv
\* Filling the transmit buffer.
LEMMA TxAllocStep ==
  ASSUME IInv, NEW len \in Nat, NEW pieces, connection_tx_alloc(len, pieces)
  PROVE  IInv'
<1> DEFINE n == tx_allocated(len, pieces)
           w == hist.alloc - hist.tail
           v == hist.alloc - hist.head
<1>1. /\ conn.status = "open"
      /\ conn' = [conn EXCEPT !.txb_head_alloc = CircFwd(@, n, TxLen)]
      /\ txbuf' = [i \in DOMAIN txbuf |->
                     LET k == CircDist(conn.txb_head_alloc, i, TxLen)
                     IN  IF k < n THEN hist.alloc + k ELSE txbuf[i]]
      /\ hist' = [hist EXCEPT !.alloc = @ + n]
      /\ UNCHANGED <<fs, kout, arx, atx, qm, rxbuf>>
  BY DEF connection_tx_alloc, user
<1>2. /\ conn \in Connection /\ hist \in Indices
      /\ txbuf \in [0 .. TxLen - 1 -> Int]
  BY DEF IInv, TypeOK
<1>3. /\ conn.txb_head \in 0 .. TxLen - 1 /\ conn.txb_tail \in 0 .. TxLen - 1
      /\ conn.txb_head_alloc \in 0 .. TxLen - 1
  BY <1>2 DEF Connection
<1>4. w \in 0 .. TxLen - 1 /\ v \in 0 .. w
  BY Ranges, Constants
<1>5. /\ conn.txb_head_alloc = CircFwd(conn.txb_tail, w, TxLen)
      /\ conn.txb_head_alloc = CircFwd(conn.txb_head, v, TxLen)
  BY DEF IInv, ConnTx
<1>6. conn_tx_allocbytes = TxLen - 1 - w
  <2> HIDE DEF w, v
  <2>1. w \in 0 .. TxLen /\ w # TxLen
    BY <1>4, Constants
  <2>2. CircDist(conn.txb_tail, CircFwd(conn.txb_tail, w, TxLen), TxLen) = w
    BY <1>3, <2>1, Constants, CircDistMove
  <2> QED BY <1>5, <2>2 DEF conn_tx_allocbytes
<1>7. n \in Nat /\ w + n < TxLen
  <2> HIDE DEF w, v
  <2> QED BY <1>3, <1>4, <1>6, Constants DEF tx_allocated, MinOf
<1> HIDE DEF n
<1>8. hist' \in Indices
  <2>1. hist.alloc + n \in Nat
    BY <1>7, Ranges
  <2> QED BY <1>1, <1>2, <2>1, Zenon DEF Indices
<1>9. /\ hist'.alloc = hist.alloc + n /\ hist'.freed = hist.freed
      /\ hist'.known = hist.known /\ hist'.rcvd = hist.rcvd
      /\ hist'.acked = hist.acked /\ hist'.tail = hist.tail
      /\ hist'.head = hist.head
  BY <1>1, <1>2 DEF Indices
<1>10. /\ nic_tail' = nic_tail /\ nic_head' = nic_head
       /\ tail_pos(fs') = tail_pos(fs) /\ FlowOK(fs') /\ QmanCovers'
  BY <1>1, <1>9, LibraryFrame
<1>11. /\ hist.head <= hist'.alloc /\ hist'.alloc < hist.tail + TxLen
       /\ hist'.alloc - hist.tail = w + n /\ hist'.alloc - hist.head = v + n
  BY <1>7, <1>9, Ranges, Constants
<1>12. RxOrder' /\ TxOrder'
  BY <1>9, <1>10, <1>11 DEF IInv, RxOrder, TxOrder
<1>13. AtxChain'
  <2>1. /\ hist'.head \in Nat /\ hist'.head >= hist.head
        /\ hist'.freed \in Nat /\ hist'.freed >= hist.freed
    BY <1>9, Ranges
  <2> QED BY <1>1, <1>9, <2>1, AtxFrame
<1>14. ArxChain'
  BY <1>1, <1>9 DEF IInv, ArxChain
<1> HIDE DEF w, v
<1>15. /\ w \in 0 .. TxLen /\ v \in 0 .. TxLen /\ n \in 0 .. TxLen
       /\ w + n <= TxLen /\ v + n <= TxLen
  BY <1>4, <1>7, Constants
<1>16. CircFwd(conn.txb_head_alloc, n, TxLen) \in 0 .. TxLen - 1
  BY <1>3, <1>15, Constants, CircFwdRange
<1>17. conn' \in Connection
  BY <1>1, <1>2, <1>16, Zenon DEF Connection
<1>18. /\ conn'.txb_head_alloc = CircFwd(conn.txb_head_alloc, n, TxLen)
       /\ conn'.rxb_head = conn.rxb_head /\ conn'.status = "open"
       /\ conn'.txb_head = conn.txb_head /\ conn'.txb_tail = conn.txb_tail
       /\ conn'.rxb_tail = conn.rxb_tail
  BY <1>1, <1>2 DEF Connection
<1>19. /\ CircFwd(conn.txb_head_alloc, n, TxLen) = CircFwd(conn.txb_tail, w + n, TxLen)
       /\ CircFwd(conn.txb_head_alloc, n, TxLen) = CircFwd(conn.txb_head, v + n, TxLen)
  <2>1. CircFwd(CircFwd(conn.txb_tail, w, TxLen), n, TxLen)
          = CircFwd(conn.txb_tail, w + n, TxLen)
    BY <1>3, <1>15, Constants, CircFwdFwd
  <2>2. CircFwd(CircFwd(conn.txb_head, v, TxLen), n, TxLen)
          = CircFwd(conn.txb_head, v + n, TxLen)
    BY <1>3, <1>15, Constants, CircFwdFwd
  <2> QED BY <1>5, <2>1, <2>2
<1>20. ConnRx'
  BY <1>1, <1>9, <1>10, <1>18 DEF IInv, ConnRx
<1>21. ConnTx'
  <2>1. conn.txb_head = CircFwd(fs.tx_head, hist.head - nic_head, TxLen)
    BY DEF IInv, ConnTx
  <2> QED BY <1>1, <1>9, <1>10, <1>11, <1>18, <1>19, <2>1 DEF ConnTx
<1>22. txbuf' \in [0 .. TxLen - 1 -> Int]
  <2> SUFFICES ASSUME NEW i \in 0 .. TxLen - 1
               PROVE  (IF CircDist(conn.txb_head_alloc, i, TxLen) < n
                       THEN hist.alloc + CircDist(conn.txb_head_alloc, i, TxLen)
                       ELSE txbuf[i]) \in Int
    BY <1>1, <1>2
  <2>1. CircDist(conn.txb_head_alloc, i, TxLen) \in Int
    BY <1>3, Constants DEF CircDist
  <2> QED BY <1>2, <2>1, Ranges, SMTT(30)
<1>23. TypeOK'
  BY <1>1, <1>8, <1>17, <1>22 DEF IInv, TypeOK
<1> QED BY <1>10, <1>12, <1>13, <1>14, <1>20, <1>21, <1>23 DEF IInv

\* Sending what was filled.
LEMMA TxSendStep ==
  ASSUME IInv, NEW len \in Nat, connection_tx_send(len)
  PROVE  IInv'
<1> DEFINE v == hist.alloc - hist.head
           d == hist.head - nic_head
<1>1. /\ conn.status = "open" /\ len <= conn_tx_sendbytes
      /\ conn' = [conn EXCEPT !.txb_head = CircFwd(@, len, TxLen),
                              !.bump_pending = TRUE]
      /\ hist' = [hist EXCEPT !.head = @ + len]
      /\ UNCHANGED <<fs, kout, arx, atx, qm, txbuf, rxbuf>>
  BY DEF connection_tx_send, user
<1>2. conn \in Connection /\ hist \in Indices
  BY DEF IInv, TypeOK
<1>3. conn.txb_head \in 0 .. TxLen - 1
  BY <1>2 DEF Connection
<1>4. v \in 0 .. TxLen - 1 /\ d \in Nat /\ d + v < TxLen
  BY Ranges, Constants
<1>5. /\ conn.txb_head_alloc = CircFwd(conn.txb_head, v, TxLen)
      /\ conn.txb_head = CircFwd(fs.tx_head, d, TxLen)
  BY DEF IInv, ConnTx
<1>6. len <= v
  <2> HIDE DEF v, d
  <2>1. v \in 0 .. TxLen /\ v # TxLen
    BY <1>4, Constants
  <2>2. CircDist(conn.txb_head, CircFwd(conn.txb_head, v, TxLen), TxLen) = v
    BY <1>3, <2>1, Constants, CircDistMove
  <2> QED BY <1>1, <1>5, <2>2 DEF conn_tx_sendbytes
<1>7. hist' \in Indices
  <2>1. hist.head + len \in Nat
    BY Ranges
  <2> QED BY <1>1, <1>2, <2>1, Zenon DEF Indices
<1>8. /\ hist'.head = hist.head + len /\ hist'.freed = hist.freed
      /\ hist'.known = hist.known /\ hist'.rcvd = hist.rcvd
      /\ hist'.acked = hist.acked /\ hist'.tail = hist.tail
      /\ hist'.alloc = hist.alloc
  BY <1>1, <1>2 DEF Indices
<1>9. /\ nic_tail' = nic_tail /\ nic_head' = nic_head
      /\ tail_pos(fs') = tail_pos(fs) /\ FlowOK(fs') /\ QmanCovers'
  BY <1>1, <1>8, LibraryFrame
<1>10. /\ hist.head <= hist'.head /\ hist'.head <= hist.alloc
       /\ nic_head <= hist'.head /\ hist'.head \in Nat
       /\ hist.alloc - hist'.head = v - len /\ hist'.head - nic_head = d + len
  BY <1>6, <1>8, Ranges, Constants
<1>11. RxOrder' /\ TxOrder'
  BY <1>8, <1>9, <1>10 DEF IInv, RxOrder, TxOrder
<1>12. AtxChain'
  <2>1. /\ hist'.freed \in Nat /\ hist'.freed >= hist.freed
        /\ hist'.head >= hist.head
    BY <1>8, <1>10, Ranges
  <2> QED BY <1>1, <1>8, <1>10, <2>1, AtxFrame
<1>13. ArxChain'
  BY <1>1, <1>8 DEF IInv, ArxChain
<1>14. fs.tx_head \in 0 .. TxLen - 1
  BY Ranges
<1> HIDE DEF v, d
<1>15. /\ len \in 0 .. TxLen /\ d \in 0 .. TxLen /\ d + len <= TxLen
       /\ v \in Nat /\ v <= TxLen
  BY <1>4, <1>6, Constants
<1>16. CircFwd(conn.txb_head, len, TxLen) \in 0 .. TxLen - 1
  BY <1>3, <1>15, Constants, CircFwdRange
<1>17. conn' \in Connection
  <2>1. TRUE \in BOOLEAN
    OBVIOUS
  <2> QED BY <1>1, <1>2, <1>16, <2>1, Zenon DEF Connection
<1>18. /\ conn'.txb_head = CircFwd(conn.txb_head, len, TxLen)
       /\ conn'.rxb_head = conn.rxb_head /\ conn'.status = "open"
       /\ conn'.txb_tail = conn.txb_tail /\ conn'.rxb_tail = conn.rxb_tail
       /\ conn'.txb_head_alloc = conn.txb_head_alloc
  BY <1>1, <1>2 DEF Connection
<1>19. CircFwd(conn.txb_head, len, TxLen) = CircFwd(fs.tx_head, d + len, TxLen)
  <2>1. CircFwd(CircFwd(fs.tx_head, d, TxLen), len, TxLen)
          = CircFwd(fs.tx_head, d + len, TxLen)
    BY <1>14, <1>15, Constants, CircFwdFwd
  <2> QED BY <1>5, <2>1
<1>20. conn.txb_head_alloc = CircFwd(CircFwd(conn.txb_head, len, TxLen), v - len, TxLen)
  BY <1>3, <1>5, <1>6, <1>15, Constants, Rebase
<1>21. ConnRx'
  BY <1>1, <1>8, <1>9, <1>18 DEF IInv, ConnRx
<1>22. ConnTx'
  <2>1. conn.txb_head_alloc = CircFwd(conn.txb_tail, hist.alloc - hist.tail, TxLen)
    BY DEF IInv, ConnTx
  <2> QED BY <1>1, <1>8, <1>9, <1>10, <1>18, <1>19, <1>20, <2>1 DEF ConnTx
<1>23. TypeOK'
  BY <1>1, <1>7, <1>17 DEF IInv, TypeOK
<1> QED BY <1>9, <1>11, <1>12, <1>13, <1>21, <1>22, <1>23 DEF IInv
-----------------------------------------------------------------------------
(* The specification *)

LEMMA InitWithIInv ==
  ASSUME NEW status \in {"requested", "open"}, InitWith(status)
  PROVE  IInv
<1>1. /\ fs = FlowInit /\ conn = [connection_init EXCEPT !.status = status]
      /\ kout = FALSE /\ arx = << >> /\ atx = << >> /\ qm = 0
      /\ txbuf = [i \in 0 .. TxLen - 1 |-> NoByte]
      /\ rxbuf = [i \in 0 .. RxLen - 1 |-> NoByte]
      /\ hist = [rcvd |-> 0, known |-> 0, freed |-> 0,
                 acked |-> 0, tail |-> 0, head |-> 0, alloc |-> 0]
  BY DEF InitWith
<1>2. fs \in FlowState
  <2>1. /\ RxLen \in 0 .. RxLen /\ 0 \in 0 .. RxLen - 1 /\ RemoteIsn \in SeqNo
        /\ RxLen \in SeqNo /\ 0 \in 0 .. 2 /\ 0 \in SeqNo /\ 0 \in 0 .. RxLen
        /\ 0 \in 0 .. TxLen - 1 /\ LocalIsn \in SeqNo /\ FALSE \in BOOLEAN
    BY Constants, FastFlowAssumption DEF SeqNo
  <2> QED BY <1>1, <2>1, Zenon DEF FlowInit, FlowState
<1>3. conn = [status |-> status, polling |-> FALSE, bump_pending |-> FALSE,
              bump_seq |-> 0, rxb_head |-> 0, rxb_tail |-> 0, rxb_nictail |-> 0,
              txb_head |-> 0, txb_head_alloc |-> 0, txb_tail |-> 0]
  BY <1>1 DEF connection_init
<1>4. conn \in Connection
  <2>1. /\ status \in {"requested", "open", "aborted"} /\ FALSE \in BOOLEAN
        /\ 0 \in SeqNo /\ 0 \in 0 .. RxLen /\ 0 \in 0 .. RxLen - 1
        /\ 0 \in 0 .. TxLen - 1
    BY Constants DEF SeqNo
  <2> QED BY <1>3, <2>1, Zenon DEF Connection
<1>5. TypeOK
  <2>1. txbuf \in [0 .. TxLen - 1 -> Int] /\ rxbuf \in [0 .. RxLen - 1 -> Int]
    BY <1>1 DEF NoByte
  <2>2. hist \in Indices
    BY <1>1 DEF Indices
  <2>3. arx \in Seq(Notification) /\ atx \in Seq(Bump)
    BY <1>1
  <2>4. kout \in BOOLEAN /\ qm \in Nat
    BY <1>1
  <2> QED BY <1>2, <1>4, <2>1, <2>2, <2>3, <2>4 DEF TypeOK
<1>6. /\ fs.rx_avail = RxLen /\ fs.rx_next_pos = 0 /\ fs.rx_ooo_len = 0
      /\ fs.tx_sent = 0 /\ fs.tx_next_pos = 0 /\ fs.tx_head = 0
      /\ fs.rx_remote_avail = RxLen
  BY <1>1 DEF FlowInit
<1>7. /\ hist.rcvd = 0 /\ hist.known = 0 /\ hist.freed = 0 /\ hist.acked = 0
      /\ hist.tail = 0 /\ hist.head = 0 /\ hist.alloc = 0
  BY <1>1
<1>8. tx_unsent(fs, fs.tx_head) = 0 /\ nic_tail = 0 /\ nic_head = 0
  BY <1>6, <1>7, Constants DEF tx_unsent, CircDist, nic_tail, nic_head
<1>9. tail_pos(fs) = 0
  BY <1>6, Constants DEF tail_pos, CircFwd
<1>10. FlowOK(fs)
  BY <1>2, <1>6, <1>8, Constants DEF FlowOK, ooo_fits
<1>11. RxOrder /\ TxOrder
  BY <1>7, <1>8, Constants DEF RxOrder, TxOrder
<1>12. ConnRx /\ ConnTx
  <2>1. /\ conn.rxb_head = 0 /\ conn.rxb_tail = 0
        /\ conn.txb_head = 0 /\ conn.txb_head_alloc = 0 /\ conn.txb_tail = 0
    BY <1>3
  <2>2. CircFwd(0, 0, RxLen) = 0 /\ CircFwd(0, 0, TxLen) = 0
    BY Constants DEF CircFwd
  <2>3. 0 - 0 = 0
    OBVIOUS
  <2> QED BY <1>6, <1>7, <1>8, <1>9, <2>1, <2>2, <2>3 DEF ConnRx, ConnTx
<1>13. ArxChain /\ AtxChain
  BY <1>1 DEF ArxChain, AtxChain
<1>14. QmanCovers
  BY <1>1, <1>6, <1>8, Constants DEF QmanCovers, tcp_txavail, MinOf, U32
<1> QED BY <1>5, <1>10, <1>11, <1>12, <1>13, <1>14 DEF IInv

LEMMA InitIInv == Init => IInv
  BY InitWithIInv DEF Init

LEMMA LibraryStep == IInv /\ Library => IInv'
<1> SUFFICES ASSUME IInv, Library PROVE IInv'
  OBVIOUS
<1>1. RxChunks \subseteq Nat /\ TxChunks \subseteq Nat
  BY FastFlowAssumption
<1>2. CASE context_poll
  BY <1>2, PollStep
<1>3. CASE event_arx_connupdate
  BY <1>3, ConnupdateStep
<1>4. CASE conns_bump
  BY <1>4, ConnsBumpStep
<1>5. CASE \E len \in RxChunks : connection_rx_done(len)
  BY <1>1, <1>5, RxDoneStep
<1>6. ASSUME NEW len \in TxChunks, NEW pieces \in {1, 2},
             connection_tx_alloc(len, pieces)
      PROVE  IInv'
  BY <1>1, <1>6, TxAllocStep
<1>7. ASSUME NEW len \in TxChunks, connection_tx_send(len)
      PROVE  IInv'
  BY <1>1, <1>7, TxSendStep
<1> QED BY <1>2, <1>3, <1>4, <1>5, <1>6, <1>7 DEF Library

LEMMA StutterStep == IInv /\ UNCHANGED vars => IInv'
<1> SUFFICES ASSUME IInv, UNCHANGED vars PROVE IInv'
  OBVIOUS
<1>1. UNCHANGED <<fs, conn, kout, arx, atx, qm, txbuf, rxbuf, hist>>
  BY DEF vars
<1>2. TypeOK' /\ FlowOK(fs')
  BY <1>1 DEF IInv, TypeOK
<1>3. RxOrder' /\ TxOrder' /\ ConnRx' /\ ConnTx'
  BY <1>1 DEF IInv, RxOrder, TxOrder, ConnRx, ConnTx, nic_tail, nic_head
<1>4. ArxChain' /\ AtxChain' /\ QmanCovers'
  BY <1>1 DEF IInv, ArxChain, AtxChain, QmanCovers, nic_tail, nic_head
<1> QED BY <1>2, <1>3, <1>4 DEF IInv

LEMMA NextStep == IInv /\ [Next]_vars => IInv'
  BY NetworkStep, BumpStep, QmanStep, RetransmitStep, OpenedStep, LibraryStep,
     StutterStep DEF Next

\* The invariant that relates the positions in the flow state, in the library's
\* connection and in the two queues holds of every behaviour.
THEOREM Invariance == Spec => []IInv
  BY InitIInv, NextStep, PTL DEF Spec

\* No counter of the flow state wraps and no position leaves its buffer,
\* whatever segments, acks, windows and library calls occur.
THEOREM TypeCorrect == Spec => []TypeOK
<1>1. IInv => TypeOK
  BY DEF IInv
<1> QED BY <1>1, Invariance, PTL

\* The fast path never stores into a byte of the receive buffer that the
\* application has not freed, lost notifications and old bumps included.
THEOREM NoOverrun == Spec => []RxNoOverrun
<1>1. IInv => RxNoOverrun
  BY DEF IInv, RxOrder, RxNoOverrun
<1> QED BY <1>1, Invariance, PTL

\* The out-of-order interval stays inside the free part of the receive buffer.
THEOREM OooFits == Spec => []OooInWindow
<1>1. IInv => OooInWindow
  BY DEF IInv, FlowOK, OooInWindow
<1> QED BY <1>1, Invariance, PTL

\* A byte of the transmit buffer is reused only after it was acknowledged.
THEOREM NoReuse == Spec => []TxNoReuse
<1>1. IInv => TxNoReuse
  BY DEF IInv, TxOrder, TxNoReuse
<1> QED BY <1>1, Invariance, PTL

\* The queue manager holds credit for every byte that could be sent.
THEOREM NoLostWakeup == Spec => []QmanCovers
<1>1. IInv => QmanCovers
  BY DEF IInv
<1> QED BY <1>1, Invariance, PTL

\* The assertion of event_arx_connupdate on tx_bump never fails.
THEOREM TxBumpAssertion == Spec => []NoEarlyTxBump
<1>1. IInv => NoEarlyTxBump
  <2> SUFFICES ASSUME IInv, conn.status = "requested", NEW i \in 1 .. Len(arx)
               PROVE  arx[i].tx_bump = 0
    <3>1. arx \in Seq(Notification) => DOMAIN arx = 1 .. Len(arx)
      OBVIOUS
    <3> QED BY <3>1 DEF NoEarlyTxBump, IInv, TypeOK
  <2>1. arx \in Seq(Notification) /\ ArxChain
    BY DEF IInv, TypeOK
  <2>2. hist.alloc = 0
    BY DEF IInv, ConnTx
  <2>3. hist.acked = 0
    BY <2>2, Ranges
  <2> DEFINE m == IF i = 1 THEN hist.tail ELSE arx[i - 1].acked
             e == arx[i]
  <2>4. m \in Nat
    <3>1. CASE i = 1
      BY <3>1, Ranges
    <3>2. CASE i # 1
      <4>1. arx[i - 1] \in Notification
        BY <2>1, <3>2
      <4> QED BY <3>2, <4>1 DEF Notification
    <3> QED BY <3>1, <3>2
  <2>5. e.acked \in Nat /\ e.tx_bump \in Nat
    <3>1. arx[i] \in Notification
      BY <2>1
    <3> QED BY <3>1 DEF Notification
  <2>6. e.acked <= hist.acked /\ m + e.tx_bump <= e.acked
    BY <2>1 DEF ArxChain
  <2> HIDE DEF m
  <2>7. e.tx_bump = 0
    <3> HIDE DEF e
    <3> QED BY <2>3, <2>4, <2>5, <2>6
  <2> QED BY <2>7
<1> QED BY <1>1, Invariance, PTL

\* The right edge of the window that the flow advertises never moves back: bytes
\* leave rx_avail as they enter rx_next_seq, and bumps only add to rx_avail.
THEOREM WindowMonotone == Spec => WindowNeverShrinks
<1> DEFINE W == U32(win_edge(fs') - win_edge(fs)) <= RxLen
<1>1. ASSUME IInv, IInv', [Next]_vars
      PROVE  W
  <2>1. fs \in FlowState /\ fs' \in FlowState
    BY <1>1 DEF IInv, TypeOK
  <2>2. /\ fs.rx_avail \in Nat /\ fs.rx_avail <= RxLen
        /\ fs'.rx_avail \in Nat /\ fs'.rx_avail <= RxLen
        /\ fs.rx_next_seq \in SeqNo
    BY <2>1, FlowRanges DEF FlowState
  <2>3. win_edge(fs') = win_edge(fs) => W
    <3>1. win_edge(fs) \in SeqNo
      BY <2>2, Constants DEF win_edge, U32, SeqNo
    <3>2. U32(win_edge(fs) - win_edge(fs)) = 0
      BY <3>1, Constants DEF U32, SeqNo
    <3> QED BY <3>2, Constants
  <2>4. CASE network_rx
    BY <1>1, <2>3, <2>4, NetworkStep
  <2>5. CASE flast_flows_bump
    <3> DEFINE d == rx_freed(fs, Head(atx).rx_tail)
    <3>1. Head(atx) \in Bump
      BY <1>1, <2>5 DEF IInv, TypeOK, flast_flows_bump, fast_appctx_poll
    <3>2. d \in Nat /\ d <= RxLen
      <4>1. Head(atx).rx_tail \in 0 .. RxLen - 1
        BY <3>1 DEF Bump
      <4>2. tail_pos(fs) \in 0 .. RxLen - 1
        BY <1>1, Ranges
      <4>3. CircDist(tail_pos(fs), Head(atx).rx_tail, RxLen) \in 0 .. RxLen - 1
        BY <4>1, <4>2, Constants, CircDistRange
      <4>4. d = CircDist(tail_pos(fs), Head(atx).rx_tail, RxLen)
        BY DEF rx_freed, tail_pos
      <4> HIDE DEF d
      <4> QED BY <4>3, <4>4, Constants
    <3>3. fs' = fs \/ fs' = flow_bump(fs, Head(atx))
      BY <2>5 DEF flast_flows_bump, fast_appctx_poll
    <3>4. \/ fs' = fs
          \/ fs'.rx_next_seq = fs.rx_next_seq /\ fs'.rx_avail = fs.rx_avail + d
      BY <2>1, <3>3 DEF flow_bump, FlowState
    <3> HIDE DEF d
    <3>5. CASE fs' = fs
      BY <2>3, <3>5
    <3>6. CASE fs'.rx_next_seq = fs.rx_next_seq /\ fs'.rx_avail = fs.rx_avail + d
      <4>1. U32(win_edge(fs') - win_edge(fs)) = d
        <5> DEFINE s == fs.rx_next_seq
                   a == fs.rx_avail
        <5>1. s \in Nat /\ s < SeqMod /\ a \in Nat /\ a + d <= RxLen
          BY <2>2, <3>6, Constants DEF SeqNo
        <5>2. win_edge(fs) = U32(s + a) /\ win_edge(fs') = U32(s + (a + d))
          BY <3>6 DEF win_edge
        <5> HIDE DEF s, a
        <5>3. U32(U32(s + (a + d)) - U32(s + a)) = d
          BY <3>2, <5>1, Constants DEF U32
        <5> QED BY <5>2, <5>3
      <4> QED BY <3>2, <4>1
    <3> QED BY <3>4, <3>5, <3>6
  <2>6. CASE fast_flows_qman
    BY <2>1, <2>3, <2>6 DEF fast_flows_qman, flow_sent, FlowState, win_edge
  <2>7. CASE fast_flows_retransmit
    BY <2>1, <2>3, <2>7
    DEF fast_flows_retransmit, flow_reset_retransmit, FlowState, win_edge
  <2>8. CASE UNCHANGED fs
    BY <2>3, <2>8
  <2>9. appif_conn_opened \/ Library \/ UNCHANGED vars => UNCHANGED fs
    BY DEF appif_conn_opened, Library, context_poll, event_arx_connupdate,
           conns_bump, connection_rx_done, connection_tx_alloc,
           connection_tx_send, vars
  <2> HIDE DEF W
  <2> QED BY <1>1, <2>4, <2>5, <2>6, <2>7, <2>8, <2>9 DEF Next
<1>2. IInv /\ IInv' /\ [Next]_vars => [W]_vars
  BY <1>1
<1> QED BY <1>2, Invariance, PTL DEF Spec, WindowNeverShrinks
-----------------------------------------------------------------------------
(* The transmit buffer *)

\* Position of the first unacknowledged byte.
first_pos(f) == CircBack(f.tx_next_pos, f.tx_sent, TxLen)

\* Every byte the application has filled in and the peer has not acknowledged
\* is where the positions say.
TxFilled ==
  \A i \in hist.acked .. hist.alloc - 1 :
    txbuf[CircFwd(first_pos(fs), i - hist.acked, TxLen)] = i

LEMMA FirstRange ==
  ASSUME NEW f \in FlowState
  PROVE  /\ first_pos(f) \in 0 .. TxLen - 1
         /\ CircFwd(first_pos(f), f.tx_sent, TxLen) = f.tx_next_pos
<1>1. f.tx_next_pos \in 0 .. TxLen - 1 /\ f.tx_sent \in 0 .. TxLen - 1
  BY DEF FlowState
<1> QED BY <1>1, Constants DEF first_pos, CircBack, CircFwd

\* Sending, and starting again, leave the first unacknowledged byte where it is.
LEMMA ResetFirst ==
  ASSUME NEW f \in FlowState
  PROVE  first_pos(flow_reset_retransmit(f)) = first_pos(f)
<1>1. /\ flow_reset_retransmit(f).tx_sent = 0
      /\ flow_reset_retransmit(f).tx_next_pos = first_pos(f)
  BY DEF FlowState, flow_reset_retransmit, first_pos
<1>2. first_pos(f) \in 0 .. TxLen - 1
  BY FirstRange
<1>3. CircBack(first_pos(f), 0, TxLen) = first_pos(f)
  BY <1>2, Constants DEF CircBack
<1> QED BY <1>1, <1>3 DEF first_pos

LEMMA SentFirst ==
  ASSUME NEW f, FlowOK(f)
  PROVE  first_pos(flow_sent(f, tx_seglen(f))) = first_pos(f)
<1> DEFINE n == tx_seglen(f)
           g == flow_sent(f, n)
<1>1. f \in FlowState /\ g \in FlowState /\ FlowOK(g)
  BY SentFlow DEF FlowOK
<1>2. /\ f.tx_next_pos \in 0 .. TxLen - 1 /\ f.tx_sent \in 0 .. TxLen - 1
      /\ g.tx_sent \in 0 .. TxLen - 1
  BY <1>1 DEF FlowState
<1>3. n \in Nat
  BY SentFlow, Constants DEF MinOf
<1>4. g.tx_sent = f.tx_sent + n /\ g.tx_next_pos = CircFwd(f.tx_next_pos, n, TxLen)
  BY <1>1 DEF FlowState, flow_sent
<1> HIDE DEF n, g
<1>5. CircBack(CircFwd(f.tx_next_pos, n, TxLen), f.tx_sent + n, TxLen)
        = CircBack(f.tx_next_pos, f.tx_sent, TxLen)
  BY <1>2, <1>3, <1>4, Constants DEF CircBack, CircFwd
<1> QED BY <1>4, <1>5 DEF first_pos, g, n

\* An ack moves it on by the bytes it acknowledges, those that were sent before
\* a retransmission reset included.
LEMMA AckFirst ==
  ASSUME NEW f, FlowOK(f), NEW p \in Segments
  PROVE  first_pos(rx_ack(f, p)) = CircFwd(first_pos(f), tx_bump(f, p), TxLen)
<1> DEFINE g == rx_ack(f, p)
           b == rxack_bump(f, p.ack)
           future == IF b <= f.tx_sent THEN 0 ELSE b - f.tx_sent
<1>1. f \in FlowState /\ unacked(f) < TxLen
  BY DEF FlowOK, unacked
<1>2. /\ first_pos(f) \in 0 .. TxLen - 1
      /\ CircFwd(first_pos(f), 0, TxLen) = first_pos(f)
  BY <1>1, FirstRange, CircNoMove, Constants
<1>3. ASSUME g.tx_sent = f.tx_sent, g.tx_next_pos = f.tx_next_pos, tx_bump(f, p) = 0
      PROVE  first_pos(g) = CircFwd(first_pos(f), tx_bump(f, p), TxLen)
  BY <1>2, <1>3 DEF first_pos
<1>4. CASE ~ack_valid(f, p)
  BY <1>3, <1>4 DEF rx_ack, tx_bump
<1>5. CASE ack_valid(f, p) /\ b = 0
  <2>1. tx_bump(f, p) = 0
    BY <1>5 DEF tx_bump
  <2>2. CASE third_dupack(f, p)
    <3>1. g = flow_reset_retransmit(f)
      BY <1>5, <2>2 DEF rx_ack
    <3> QED BY <1>1, <1>2, <2>1, <3>1, ResetFirst
  <2>3. CASE ~third_dupack(f, p)
    <3>1. g \in {[f EXCEPT !.rx_dupack_cnt = @ + 1], f}
      BY <1>5, <2>3 DEF rx_ack
    <3>2. g.tx_sent = f.tx_sent /\ g.tx_next_pos = f.tx_next_pos
      BY <1>1, <3>1 DEF FlowState
    <3> QED BY <1>3, <2>1, <3>2
  <2> QED BY <2>2, <2>3
<1>6. CASE ack_valid(f, p) /\ b # 0
  <2>0. tx_unsent(f, f.tx_head) \in 0 .. TxLen - 1
    BY <1>1, UnsentRange DEF FlowState
  <2>1. b \in Nat /\ b <= unacked(f) /\ tx_bump(f, p) = b
    BY <1>1, <1>6, <2>0, RxackInBuffer, Constants
       DEF FlowState, ack_valid, tx_bump, unacked, Segments
  <2>2. g = [f EXCEPT !.tx_sent       = IF b <= @ THEN @ - b ELSE 0,
                      !.tx_next_seq   = U32(@ + future),
                      !.tx_next_pos   = CircFwd(@, future, TxLen),
                      !.rx_dupack_cnt = 0]
    BY <1>6 DEF rx_ack, third_dupack
  <2> HIDE DEF b, g
  <2>3. /\ g.tx_sent = (IF b <= f.tx_sent THEN f.tx_sent - b ELSE 0)
        /\ g.tx_next_pos = CircFwd(f.tx_next_pos, future, TxLen)
    BY <1>1, <2>2 DEF FlowState
  <2>4. /\ f.tx_next_pos \in 0 .. TxLen - 1 /\ f.tx_sent \in 0 .. TxLen - 1
        /\ b < TxLen
    BY <1>1, <2>0, <2>1, Constants DEF FlowState, unacked
  <2>5. CircBack(CircFwd(f.tx_next_pos, future, TxLen),
                 IF b <= f.tx_sent THEN f.tx_sent - b ELSE 0, TxLen)
          = CircFwd(CircBack(f.tx_next_pos, f.tx_sent, TxLen), b, TxLen)
    BY <2>1, <2>4, Constants DEF CircBack, CircFwd
  <2> QED BY <2>1, <2>3, <2>5 DEF first_pos, g
<1> QED BY <1>4, <1>5, <1>6

\* Acknowledged bytes are forgotten, the others stay.
LEMMA TxShift ==
  ASSUME IInv, TxFilled, NEW b \in Nat, b <= unacked(fs),
         first_pos(fs') = CircFwd(first_pos(fs), b, TxLen),
         hist'.acked = hist.acked + b, hist'.alloc = hist.alloc, txbuf' = txbuf
  PROVE  TxFilled'
<1> SUFFICES ASSUME NEW i \in hist'.acked .. hist'.alloc - 1
             PROVE  txbuf[CircFwd(first_pos(fs'), i - hist'.acked, TxLen)] = i
  BY DEF TxFilled
<1>1. /\ i \in hist.acked .. hist.alloc - 1 /\ b <= i - hist.acked
      /\ i - hist.acked \in Nat /\ i - hist.acked <= TxLen
      /\ i - hist'.acked = (i - hist.acked) - b
  BY Ranges, Constants
<1>2. first_pos(fs) \in 0 .. TxLen - 1
  BY FirstRange DEF IInv, TypeOK
<1>3. CircFwd(first_pos(fs'), i - hist'.acked, TxLen)
        = CircFwd(first_pos(fs), i - hist.acked, TxLen)
  <2> DEFINE w == i - hist.acked
  <2> HIDE DEF w
  <2>1. CircFwd(CircFwd(first_pos(fs), b, TxLen), w - b, TxLen)
          = CircFwd(first_pos(fs), w, TxLen)
    BY <1>1, <1>2, Constants, Rebase DEF w
  <2> QED BY <1>1, <2>1 DEF w
<1> QED BY <1>1, <1>3 DEF TxFilled

LEMMA InitTxFilled == ASSUME NEW status, InitWith(status) PROVE TxFilled
  BY DEF InitWith, TxFilled

\* A step that leaves the first byte, the indices and the buffer alone.
LEMMA TxFrame ==
  ASSUME IInv, TxFilled, first_pos(fs') = first_pos(fs),
         hist'.acked = hist.acked, hist'.alloc = hist.alloc, txbuf' = txbuf
  PROVE  TxFilled'
  BY DEF TxFilled

\* The application fills in bytes behind those it has allocated before, none of
\* which is still unacknowledged.
LEMMA TxAllocFilled ==
  ASSUME IInv, TxFilled, NEW len \in Nat, NEW pieces,
         connection_tx_alloc(len, pieces)
  PROVE  TxFilled'
<1> DEFINE n == tx_allocated(len, pieces)
           q == first_pos(fs)
           a == hist.alloc - hist.acked
           w == hist.alloc - hist.tail
<1>1. /\ txbuf' = [i \in DOMAIN txbuf |->
                     LET k == CircDist(conn.txb_head_alloc, i, TxLen)
                     IN  IF k < n THEN hist.alloc + k ELSE txbuf[i]]
      /\ hist' = [hist EXCEPT !.alloc = @ + n] /\ fs' = fs
  BY DEF connection_tx_alloc
<1>2. /\ conn \in Connection /\ hist \in Indices /\ fs \in FlowState
      /\ txbuf \in [0 .. TxLen - 1 -> Int]
  BY DEF IInv, TypeOK
<1>3. q \in 0 .. TxLen - 1 /\ CircFwd(q, fs.tx_sent, TxLen) = fs.tx_next_pos
  BY <1>2, FirstRange
<1>4. a \in Nat /\ w \in Nat /\ a <= w /\ w < TxLen
  <2>1. hist.acked <= hist.alloc
    BY Ranges
  <2> QED BY <2>1, Ranges, Constants
<1>5. n \in Nat /\ w + n < TxLen
  <2>1. /\ conn.txb_head_alloc \in 0 .. TxLen - 1 /\ conn.txb_tail \in 0 .. TxLen - 1
        /\ conn.txb_head_alloc = CircFwd(conn.txb_tail, w, TxLen)
    BY <1>2 DEF IInv, ConnTx, Connection
  <2> HIDE DEF w
  <2>2. CircDist(conn.txb_tail, CircFwd(conn.txb_tail, w, TxLen), TxLen) = w
    BY <1>4, <2>1, Constants, CircDistMove
  <2>3. conn_tx_allocbytes = TxLen - 1 - w
    BY <2>1, <2>2 DEF conn_tx_allocbytes
  <2> QED BY <1>4, <2>1, <2>3, Constants DEF tx_allocated, MinOf
<1>6. conn.txb_head_alloc = CircFwd(q, a, TxLen)
  <2> DEFINE s == fs.tx_sent
             u == tx_unsent(fs, fs.tx_head)
             d == hist.head - nic_head
             v == hist.alloc - hist.head
  <2>1. /\ s \in Nat /\ u \in Nat /\ d \in Nat /\ v \in Nat /\ s + u + d + v = a
    <3>1. s \in Nat /\ u \in Nat /\ unacked(fs) = s + u
      BY <1>2, FlowRanges, UnsentRange, Constants DEF unacked
    <3> HIDE DEF s, u
    <3>2. /\ hist.acked \in Nat /\ hist.head \in Nat /\ hist.alloc \in Nat
          /\ nic_head = hist.acked + unacked(fs)
          /\ nic_head <= hist.head /\ hist.head <= hist.alloc
      BY Ranges
    <3> QED BY <3>1, <3>2
  <2>2. /\ fs.tx_next_pos \in 0 .. TxLen - 1 /\ fs.tx_head \in 0 .. TxLen - 1
        /\ CircFwd(fs.tx_next_pos, u, TxLen) = fs.tx_head
    <3>1. fs.tx_next_pos \in 0 .. TxLen - 1 /\ fs.tx_head \in 0 .. TxLen - 1
      BY <1>2 DEF FlowState
    <3> QED BY <3>1, CircDistRange, Constants DEF tx_unsent
  <2>3. /\ conn.txb_head = CircFwd(fs.tx_head, d, TxLen)
        /\ conn.txb_head_alloc = CircFwd(conn.txb_head, v, TxLen)
    BY DEF IInv, ConnTx
  <2> HIDE DEF s, u, d, v, a, q
  <2>4. CircFwd(CircFwd(CircFwd(CircFwd(q, s, TxLen), u, TxLen), d, TxLen), v, TxLen)
          = CircFwd(q, s + u + d + v, TxLen)
    BY <1>3, <1>4, <2>1, Constants DEF CircFwd
  <2> QED BY <1>3, <2>1, <2>2, <2>3, <2>4 DEF s
<1> HIDE DEF n, q
<1>7. hist'.acked = hist.acked /\ hist'.alloc = hist.alloc + n
  BY <1>1, <1>2 DEF Indices
<1> SUFFICES ASSUME NEW i \in hist'.acked .. hist'.alloc - 1
             PROVE  txbuf'[CircFwd(q, i - hist.acked, TxLen)] = i
  BY <1>1, <1>7 DEF TxFilled, q
<1> DEFINE e == i - hist.acked
           j == CircFwd(q, e, TxLen)
           k == CircDist(conn.txb_head_alloc, j, TxLen)
<1>8. /\ hist.acked \in Nat /\ hist.alloc \in Nat /\ i \in Int
      /\ e \in Nat /\ e < a + n
  BY <1>5, <1>7, Ranges
<1>9. j \in 0 .. TxLen - 1 /\ k = IF e >= a THEN e - a ELSE TxLen - (a - e)
  <2> HIDE DEF a, e, w
  <2> QED BY <1>3, <1>4, <1>5, <1>6, <1>8, Constants DEF CircFwd, CircDist
<1>10. txbuf'[j] = IF k < n THEN hist.alloc + k ELSE txbuf[j]
  BY <1>1, <1>2, <1>9
<1>11. CASE e >= a
  BY <1>5, <1>8, <1>9, <1>10, <1>11, Ranges
<1>12. CASE ~(e >= a)
  <2>1. ~(k < n) /\ i \in hist.acked .. hist.alloc - 1
    BY <1>4, <1>5, <1>8, <1>9, <1>12, Constants
  <2>2. txbuf[j] = i
    BY <2>1 DEF TxFilled, q
  <2> QED BY <1>10, <2>1, <2>2
<1> QED BY <1>11, <1>12

\* How far from the next byte expected a segment may start, see SegmentLifetime.
Lifetime == RxLen - SeqMod + 1 .. SeqMod - LenMod

\* The segments that the network delivers: payload of the peer's stream, off
\* bytes from the next byte expected.
Delivered(p, off) ==
  /\ p \in Segments /\ Len(p.data) < LenMod /\ off \in Lifetime
  /\ ~TrimMisses(fs, p.seq, Len(p.data))
  /\ p.seq = U32(fs.rx_next_seq + off)
  /\ \A j \in 1 .. Len(p.data) : p.data[j] = hist.rcvd + off + j - 1

LEMMA NetworkDelivers ==
  ASSUME IInv, network_rx
  PROVE  \E p, off : Delivered(p, off) /\ fast_flows_packet(p)
<1>1. PICK off \in Offsets, len \in Lens, a \in Acks, wnd \in Windows,
           kind \in {"ack", "plain", "syn", "other"} :
        LET seq == U32(fs.rx_next_seq + off)
            ack == U32(U32(fs.tx_next_seq - fs.tx_sent) + a)
            data == [i \in 1 .. len |-> hist.rcvd + off + i - 1]
        IN  /\ ~TrimMisses(fs, seq, len)
            /\ fast_flows_packet(Segment(kind, seq, ack, wnd, data))
  BY DEF network_rx
<1> DEFINE seq == U32(fs.rx_next_seq + off)
           ack == U32(U32(fs.tx_next_seq - fs.tx_sent) + a)
           data == [i \in 1 .. len |-> hist.rcvd + off + i - 1]
           p == Segment(kind, seq, ack, wnd, data)
<1>2. /\ off \in Int /\ -SeqMod <= off /\ off < SeqMod
      /\ a \in Int /\ -SeqMod <= a /\ a < SeqMod
      /\ len \in Nat /\ len < LenMod /\ wnd \in 0 .. LenMod - 1
  BY FastFlowAssumption, Constants
<1>3. /\ fs.rx_next_seq \in SeqNo /\ fs.tx_next_seq \in SeqNo
      /\ fs.tx_sent \in Nat /\ fs.tx_sent < TxLen /\ hist.rcvd \in Nat
  BY Constants, SMTT(30) DEF IInv, TypeOK, FlowState, Indices
<1>4. seq \in SeqNo
  BY <1>2, <1>3, Constants DEF U32, SeqNo
<1>5. ack \in SeqNo
  <2>1. U32(fs.tx_next_seq - fs.tx_sent) \in SeqNo
    BY <1>3, Constants DEF U32, SeqNo
  <2> QED BY <1>2, <2>1, Constants DEF U32, SeqNo
<1>6. /\ data \in Seq(Int) /\ Len(data) = len
      /\ \A j \in 1 .. Len(data) : data[j] = hist.rcvd + off + j - 1
  BY <1>2, <1>3
<1> HIDE DEF seq, ack, data
<1>7. p \in Segments /\ p.seq = seq /\ p.data = data
  BY <1>2, <1>4, <1>5, <1>6 DEF Segment, Segments
<1>8. fast_flows_packet(p)
  BY <1>1 DEF seq, ack, data
<1> HIDE DEF p
<1>9. Delivered(p, off)
  <2>1. off \in Lifetime
    BY SegmentLifetime DEF Lifetime
  <2> QED BY <1>1, <1>2, <1>6, <1>7, <2>1 DEF Delivered, seq
<1> QED BY <1>8, <1>9

\* What a segment does to the flow state: its ack, then its payload.
LEMMA FastpathFlow ==
  ASSUME IInv, NEW p, NEW off, Delivered(p, off), fastpath_packet(p)
  PROVE  LET f == rx_ack(fs, p)
             t == rx_trim(f, p)
         IN  /\ FlowOK(f) /\ SameRx(fs, f) /\ t = rx_trim(fs, p)
             /\ ~TrimMisses(f, p.seq, Len(p.data))
             /\ fs' = IF third_dupack(fs, p) THEN f ELSE rx_data(f, p, t)
             /\ SameTx(f, fs')
<1> DEFINE f == rx_ack(fs, p)
           t == rx_trim(f, p)
<1>1. /\ FlowOK(fs) /\ p \in Segments /\ Len(p.data) < LenMod
      /\ ~TrimMisses(fs, p.seq, Len(p.data))
  BY DEF IInv, Delivered
<1>2. FlowOK(f) /\ SameRx(fs, f)
  BY <1>1, AckFlow
<1>3. t = rx_trim(fs, p) /\ ~TrimMisses(f, p.seq, Len(p.data))
  BY <1>1, <1>2 DEF rx_trim, tcp_trim_rxbuf, TrimMisses, SameRx
<1>4. fs' = IF third_dupack(fs, p) THEN f ELSE rx_data(f, p, rx_trim(fs, p))
  BY DEF fastpath_packet
<1>5. fs' = IF third_dupack(fs, p) THEN f ELSE rx_data(f, p, t)
  BY <1>3, <1>4
<1>6. SameTx(f, rx_data(f, p, t))
  BY <1>1, <1>2, <1>3, DataFlow
<1>7. SameTx(f, fs')
  BY <1>5, <1>6 DEF SameTx
<1> QED BY <1>2, <1>3, <1>5, <1>7

LEMMA TxPacket ==
  ASSUME IInv, TxFilled, NEW p, NEW off, Delivered(p, off), fast_flows_packet(p)
  PROVE  TxFilled'
<1>1. Delivered(p, off) /\ (slowpath_packet(p) \/ fastpath_packet(p))
  BY DEF fast_flows_packet
<1>2. CASE slowpath_packet(p)
  <2>1. /\ fs' = [fs EXCEPT !.slowpath = @ \/ p.kind = "other"]
        /\ UNCHANGED <<txbuf, hist>>
    BY <1>2 DEF slowpath_packet
  <2>2. first_pos(fs') = first_pos(fs)
    BY <2>1 DEF IInv, TypeOK, FlowState, first_pos
  <2> QED BY <2>1, <2>2, TxFrame
<1>3. CASE fastpath_packet(p)
  <2> DEFINE b == tx_bump(fs, p)
  <2>1. txbuf' = txbuf /\ hist'.acked = hist.acked + b /\ hist'.alloc = hist.alloc
    BY <1>3 DEF fastpath_packet, IInv, TypeOK, Indices
  <2>2. SameTx(rx_ack(fs, p), fs')
    BY <1>1, <1>3, FastpathFlow
  <2>3. first_pos(fs') = CircFwd(first_pos(fs), b, TxLen)
    BY <1>1, <2>2, AckFirst DEF IInv, Delivered, SameTx, first_pos
  <2>4. b \in Nat /\ b <= unacked(fs)
    <3>1. /\ b \in Nat /\ FlowOK(rx_ack(fs, p))
          /\ unacked(rx_ack(fs, p)) + b = unacked(fs)
      BY <1>1, AckFlow DEF IInv, Delivered
    <3>2. unacked(rx_ack(fs, p)) \in Nat
      BY <3>1, FlowRanges, UnsentRange, Constants DEF FlowOK, unacked
    <3> HIDE DEF b
    <3> QED BY <3>1, <3>2
  <2> HIDE DEF b
  <2> QED BY <2>1, <2>3, <2>4, TxShift
<1> QED BY <1>1, <1>2, <1>3

\* Bytes filled in stay where they are until they are acknowledged, whatever
\* step is taken.
LEMMA TxFilledStep == IInv /\ TxFilled /\ [Next]_vars => TxFilled'
<1> SUFFICES ASSUME IInv, TxFilled, [Next]_vars PROVE TxFilled'
  OBVIOUS
<1>0. fs \in FlowState /\ hist \in Indices /\ FlowOK(fs)
  BY DEF IInv, TypeOK
<1>1. CASE network_rx
  BY <1>1, NetworkDelivers, TxPacket
<1>2. CASE flast_flows_bump
  <2>1. first_pos(fs') = first_pos(fs)
    BY <1>0, <1>2 DEF flast_flows_bump, flow_bump, FlowState, first_pos
  <2> QED BY <1>2, <2>1, TxFrame DEF flast_flows_bump
<1>3. CASE fast_flows_qman
  BY <1>0, <1>3, SentFirst, TxFrame DEF fast_flows_qman
<1>4. CASE fast_flows_retransmit
  BY <1>0, <1>4, ResetFirst, TxFrame DEF fast_flows_retransmit
<1>5. CASE UNCHANGED <<fs, txbuf, hist>>
  BY <1>5, TxFrame
<1>6. CASE event_arx_connupdate
  BY <1>0, <1>6, TxFrame DEF event_arx_connupdate, Indices
<1>7. ASSUME NEW len \in RxChunks, connection_rx_done(len) PROVE TxFilled'
  BY <1>0, <1>7, TxFrame DEF connection_rx_done, Indices
<1>8. ASSUME NEW len \in TxChunks, connection_tx_send(len) PROVE TxFilled'
  BY <1>0, <1>8, TxFrame DEF connection_tx_send, Indices
<1>9. ASSUME NEW len \in TxChunks, NEW pieces \in {1, 2},
             connection_tx_alloc(len, pieces)
      PROVE  TxFilled'
  <2>1. len \in Nat
    BY FastFlowAssumption
  <2> QED BY <1>9, <2>1, TxAllocFilled
<1>10. CASE appif_conn_opened \/ context_poll \/ conns_bump \/ UNCHANGED vars
  BY <1>5, <1>10 DEF appif_conn_opened, context_poll, conns_bump, vars
<1> QED BY <1>1, <1>2, <1>3, <1>4, <1>6, <1>7, <1>8, <1>9, <1>10 DEF Next, Library

\* What the application hands over for sending is in the transmit buffer, byte
\* for byte and where the fast path reads it, until the peer has acknowledged
\* it: a retransmission sends what was sent before.
THEOREM TxIntact == Spec => []TxContent
<1>1. Init => TxFilled
  BY InitTxFilled DEF Init
<1>2. IInv /\ TxFilled => TxContent
  <2> SUFFICES ASSUME IInv, TxFilled, NEW i \in hist.acked .. hist.head - 1
               PROVE  txbuf[CircFwd(first_pos(fs), i - hist.acked, TxLen)] = i
    BY DEF TxContent, first_pos
  <2>1. i \in hist.acked .. hist.alloc - 1
    BY Ranges
  <2> QED BY <2>1 DEF TxFilled
<1> QED BY <1>1, <1>2, TxFilledStep, InitIInv, NextStep, PTL DEF Spec

-----------------------------------------------------------------------------
(* The receive buffer *)

\* Position of the byte that lies k bytes after the next one expected, or -k
\* bytes before it.
byte_pos(f, k) == IF k < 0 THEN CircBack(f.rx_next_pos, -k, RxLen)
                           ELSE CircFwd(f.rx_next_pos, k, RxLen)

\* The byte belongs to the out-of-order interval, or to the payload stored.
InOoo(f, k) ==
  LET off == U32(f.rx_ooo_start - f.rx_next_seq)
  IN  off <= k /\ k < off + f.rx_ooo_len
pay_off(f, p, t) == U32(pay_seq(p, t) - f.rx_next_seq)
InPay(f, p, t, k) == pay_off(f, p, t) <= k /\ k < pay_off(f, p, t) + pay_len(p, t)

\* The fast path stores the payload, the third duplicate ack apart.
Takes(f, p, t) == /\ pay_len(p, t) > 0
                  /\ rx_inorder(f, p, t) \/ (rx_ahead(f, p, t) /\ ooo_takes(f, p, t))

\* Where a flow state g with `a' more bytes in order keeps the bytes it has: each
\* was there before, or is payload of the segment.
HeldFrom(f, g, p, t, a) ==
  /\ g.rx_next_pos = CircFwd(f.rx_next_pos, a, RxLen)
  /\ \A k \in 0 .. a - 1 : InOoo(f, k) \/ (Takes(f, p, t) /\ InPay(f, p, t, k))
  /\ \A k \in Nat : InOoo(g, k) =>
       InOoo(f, k + a) \/ (Takes(f, p, t) /\ InPay(f, p, t, k + a))

\* In-order payload of n bytes, and the out-of-order interval that it may reach.
LEMMA CatchupHeld ==
  ASSUME NEW f, FlowOK(f), NEW n \in 0 .. f.rx_avail, n < LenMod, n > 0
  PROVE  LET g == rx_catchup(rx_advance(f, n))
             a == f.rx_avail - g.rx_avail
         IN  /\ a \in Nat /\ g.rx_next_pos = CircFwd(f.rx_next_pos, a, RxLen)
             /\ \A k \in 0 .. a - 1 : InOoo(f, k) \/ k < n
             /\ \A k \in Nat : InOoo(g, k) => InOoo(f, k + a)
<1> DEFINE h == rx_advance(f, n)
           g == rx_catchup(h)
           a == f.rx_avail - g.rx_avail
           o == U32(f.rx_ooo_start - f.rx_next_seq)
           d == o - n
           t == tcp_trim_rxbuf(h, h.rx_ooo_start, h.rx_ooo_len)
           start == U32(h.rx_ooo_start + t.trim_start)
           len == h.rx_ooo_len - (t.trim_start + t.trim_end)
<1>1. f \in FlowState /\ ooo_fits(f)
  BY DEF FlowOK
<1>2. /\ h \in FlowState /\ h.rx_avail = f.rx_avail - n
      /\ h.rx_next_seq = U32(f.rx_next_seq + n)
      /\ h.rx_ooo_start = f.rx_ooo_start /\ h.rx_ooo_len = f.rx_ooo_len
      /\ h.rx_next_pos = CircFwd(f.rx_next_pos, n, RxLen)
  BY <1>1, AdvanceFlow DEF rx_advance, FlowState
<1>3. /\ f.rx_avail \in Nat /\ f.rx_avail <= RxLen /\ n \in Nat /\ n <= RxLen
      /\ f.rx_next_seq \in SeqNo /\ f.rx_ooo_start \in SeqNo /\ h.rx_next_seq \in SeqNo
      /\ f.rx_ooo_len \in Nat /\ o \in SeqNo /\ f.rx_next_pos \in 0 .. RxLen - 1
  BY <1>1, <1>2, FlowRanges, SeqDistance, Constants DEF FlowState
<1>0. U32(g.rx_ooo_start - g.rx_next_seq) \in SeqNo
  <2>1. g \in FlowState
    BY CatchupFlow DEF FlowOK
  <2> HIDE DEF g
  <2> QED BY <2>1, SeqDistance DEF FlowState
<1>4. ASSUME g.rx_avail = h.rx_avail, g.rx_next_pos = h.rx_next_pos,
             g.rx_ooo_len = 0
      PROVE  /\ a \in Nat /\ g.rx_next_pos = CircFwd(f.rx_next_pos, a, RxLen)
             /\ \A k \in 0 .. a - 1 : InOoo(f, k) \/ k < n
             /\ \A k \in Nat : InOoo(g, k) => InOoo(f, k + a)
  <2> HIDE DEF g
  <2>1. a = n
    BY <1>2, <1>3, <1>4
  <2>2. \A k \in Nat : ~InOoo(g, k)
    BY <1>0, <1>4, Constants DEF InOoo, SeqNo
  <2> QED BY <1>2, <1>3, <1>4, <2>1, <2>2
<1>5. CASE h.rx_ooo_len = 0
  <2>1. g = h
    BY <1>5 DEF rx_catchup
  <2> QED BY <1>4, <1>5, <2>1
<1>6. CASE h.rx_ooo_len # 0 /\ t.drop
  <2>1. g = [h EXCEPT !.rx_ooo_len = 0]
    BY <1>6 DEF rx_catchup
  <2>2. g.rx_ooo_len = 0 /\ g.rx_avail = h.rx_avail /\ g.rx_next_pos = h.rx_next_pos
    BY <1>2, <2>1 DEF FlowState
  <2> QED BY <1>4, <2>2
<1>7. CASE h.rx_ooo_len # 0 /\ ~t.drop
  <2>1. /\ d \in Int /\ -LenMod < d /\ h.rx_ooo_len \in Nat \ {0}
        /\ d + h.rx_ooo_len <= h.rx_avail /\ 0 < o
        /\ h.rx_ooo_start = U32(h.rx_next_seq + d)
    <3>1. o > 0 /\ o + f.rx_ooo_len <= f.rx_avail
      BY <1>1, <1>2, <1>3, <1>7 DEF ooo_fits
    <3> QED BY <1>2, <1>3, <1>7, <3>1, Constants DEF U32, SeqNo
  <2>2. /\ t.trim_end = 0 /\ t.trim_start = IF d < 0 THEN -d ELSE 0
        /\ 0 <= d + h.rx_ooo_len
    BY <1>2, <1>7, <2>1, TrimOoo DEF FlowState
  <2>3. o \in Nat /\ o <= RxLen
    BY <1>2, <1>3, <2>1, Constants DEF SeqNo
  <2> HIDE DEF t, h, o
  <2>4. /\ start = U32(h.rx_next_seq + (IF d < 0 THEN 0 ELSE d))
        /\ len = h.rx_ooo_len - (IF d < 0 THEN -d ELSE 0) /\ len \in Nat
    BY <1>2, <1>3, <2>1, <2>2, Constants DEF U32, SeqNo
  <2> HIDE DEF start, len
  <2>5. CASE len > 0 /\ start = h.rx_next_seq
    <3> DEFINE m == rx_advance(h, len)
    <3>1. g = [m EXCEPT !.rx_ooo_start = start, !.rx_ooo_len = 0]
      BY <1>7, <2>5 DEF rx_catchup, t, start, len
    <3>2. d <= 0
      BY <1>3, <2>1, <2>3, <2>4, <2>5, Constants DEF U32, SeqNo
    <3>3. len = o + f.rx_ooo_len - n /\ len <= h.rx_avail
      BY <1>2, <1>3, <2>1, <2>3, <2>4, <3>2
    <3>4. /\ g.rx_ooo_len = 0 /\ g.rx_avail = h.rx_avail - len
          /\ g.rx_next_pos = CircFwd(h.rx_next_pos, len, RxLen)
      BY <1>2, <3>1 DEF FlowState, rx_advance
    <3> HIDE DEF g, m
    <3>5. a = n + len
      BY <1>2, <1>3, <2>4, <3>4
    <3>6. CircFwd(CircFwd(f.rx_next_pos, n, RxLen), len, RxLen)
            = CircFwd(f.rx_next_pos, n + len, RxLen)
      <4>1. n \in 0 .. RxLen /\ len \in 0 .. RxLen /\ n + len <= RxLen
        BY <1>2, <1>3, <2>4, <3>3, Constants
      <4> QED BY <1>3, <4>1, CircFwdFwd, Constants
    <3>7. \A k \in Nat : ~InOoo(g, k)
      BY <1>0, <3>4, Constants DEF InOoo, SeqNo, h
    <3>8. \A k \in 0 .. a - 1 : InOoo(f, k) \/ k < n
      BY <1>3, <2>3, <2>4, <3>2, <3>3, <3>5 DEF InOoo, o
    <3> QED BY <1>2, <1>3, <2>4, <3>4, <3>5, <3>6, <3>7, <3>8 DEF g, h
  <2>6. CASE ~(len > 0 /\ start = h.rx_next_seq)
    <3>1. g = [h EXCEPT !.rx_ooo_start = start, !.rx_ooo_len = len]
      BY <1>7, <2>6 DEF rx_catchup, t, start, len
    <3>2. /\ g.rx_ooo_len = len /\ g.rx_ooo_start = start
          /\ g.rx_avail = h.rx_avail /\ g.rx_next_pos = h.rx_next_pos
          /\ g.rx_next_seq = h.rx_next_seq
      BY <1>2, <3>1 DEF FlowState
    <3>3. CASE len = 0
      BY <1>4, <3>2, <3>3 DEF h
    <3>4. CASE len # 0
      <4>1. d > 0 /\ len = f.rx_ooo_len
        BY <1>2, <1>3, <2>1, <2>4, <2>6, <3>4, Constants DEF U32, SeqNo
      <4>2. U32(g.rx_ooo_start - g.rx_next_seq) = d
        BY <1>3, <2>3, <2>4, <3>2, <4>1, Constants DEF U32, SeqNo
      <4> HIDE DEF g
      <4>3. a = n
        BY <1>2, <1>3, <3>2
      <4>4. \A k \in Nat : InOoo(g, k) => InOoo(f, k + a)
        BY <1>3, <2>3, <3>2, <4>1, <4>2, <4>3 DEF InOoo, o
      <4> QED BY <1>2, <1>3, <3>2, <4>3, <4>4 DEF g, h
    <3> QED BY <3>3, <3>4
  <2> QED BY <2>5, <2>6
<1> QED BY <1>5, <1>6, <1>7

LEMMA SameHeld ==
  ASSUME NEW f \in FlowState, NEW g, NEW p, NEW t, SameRx(f, g)
  PROVE  HeldFrom(f, g, p, t, 0)
<1>1. \A k : InOoo(g, k) <=> InOoo(f, k)
  BY DEF InOoo, SameRx
<1>2. CircFwd(f.rx_next_pos, 0, RxLen) = f.rx_next_pos
  BY CircNoMove, Constants DEF FlowState
<1>3. g.rx_next_pos = f.rx_next_pos
  BY DEF SameRx
<1> QED BY <1>1, <1>2, <1>3 DEF HeldFrom

\* A payload that lies ahead joins the out-of-order interval without a gap.
LEMMA OooHeld ==
  ASSUME NEW f, FlowOK(f), NEW p \in Segments, Len(p.data) < LenMod,
         ~TrimMisses(f, p.seq, Len(p.data)), ~rx_inorder(f, p, rx_trim(f, p)),
         rx_ahead(f, p, rx_trim(f, p)), ooo_takes(f, p, rx_trim(f, p))
  PROVE  /\ rx_ooo(f, p, rx_trim(f, p)).rx_avail = f.rx_avail
         /\ HeldFrom(f, rx_ooo(f, p, rx_trim(f, p)), p, rx_trim(f, p), 0)
<1> DEFINE t == rx_trim(f, p)
           g == rx_ooo(f, p, t)
           n == pay_len(p, t)
           s == pay_seq(p, t)
           off == U32(s - f.rx_next_seq)
           o == U32(f.rx_ooo_start - f.rx_next_seq)
<1>1. f \in FlowState /\ ooo_fits(f)
  BY DEF FlowOK
<1>2. ~t.drop /\ n > 0
  BY DEF rx_ahead
<1>3. n \in Nat /\ s \in SeqNo /\ off + n <= f.rx_avail
  BY <1>2, PayloadFits DEF Segments
<1>4. /\ f.rx_avail \in Nat /\ f.rx_avail <= RxLen
      /\ f.rx_next_seq \in SeqNo /\ f.rx_ooo_start \in SeqNo
      /\ f.rx_ooo_len \in Nat /\ o \in SeqNo /\ off \in SeqNo
      /\ CircFwd(f.rx_next_pos, 0, RxLen) = f.rx_next_pos
  BY <1>1, <1>3, FlowRanges, SeqDistance, CircNoMove, Constants DEF FlowState
<1>5. Takes(f, p, t)
  BY <1>2 DEF Takes
<1>6. \A k \in Nat : InPay(f, p, t, k) <=> off <= k /\ k < off + n
  BY DEF InPay, pay_off
<1> HIDE DEF t, n, s
<1>7. /\ g.rx_next_pos = f.rx_next_pos /\ g.rx_next_seq = f.rx_next_seq
      /\ g.rx_avail = f.rx_avail
  BY <1>1 DEF FlowState, rx_ooo
<1>8. \A k \in Nat : InOoo(g, k) => InOoo(f, k) \/ InPay(f, p, t, k)
  <2>1. CASE f.rx_ooo_len = 0
    <3>1. g.rx_ooo_start = s /\ g.rx_ooo_len = n
      BY <1>1, <2>1 DEF FlowState, rx_ooo, s, n
    <3> HIDE DEF g
    <3> QED BY <1>6, <1>7, <3>1 DEF InOoo
  <2>2. CASE f.rx_ooo_len # 0
    <3>1. 0 < o /\ o + f.rx_ooo_len <= f.rx_avail
      BY <1>1, <1>4, <2>2 DEF ooo_fits
    <3>2. \A k \in Nat : InOoo(f, k) <=> o <= k /\ k < o + f.rx_ooo_len
      BY DEF InOoo
    <3>3. CASE ooo_below(f, p, t)
      <4>1. g.rx_ooo_start = s /\ g.rx_ooo_len = f.rx_ooo_len + n
        BY <1>1, <2>2, <3>3 DEF FlowState, rx_ooo, s, n
      <4>2. o = off + n
        <5>1. U32(s + n) = f.rx_ooo_start
          BY <3>3 DEF ooo_below, s, n
        <5>2. off + n < SeqMod
          BY <1>3, <1>4, Constants DEF SeqNo
        <5> QED BY <1>3, <1>4, <5>1, <5>2, SeqDistance
      <4> HIDE DEF g, o
      <4>3. \A k \in Nat : InOoo(g, k) => off <= k /\ k < off + f.rx_ooo_len + n
        BY <1>3, <1>4, <1>7, <4>1, Constants DEF InOoo, SeqNo
      <4> HIDE DEF off
      <4> QED BY <1>3, <1>4, <1>6, <3>2, <4>2, <4>3, Constants DEF SeqNo
    <3>4. CASE ~ooo_below(f, p, t)
      <4>1. g.rx_ooo_start = f.rx_ooo_start /\ g.rx_ooo_len = f.rx_ooo_len + n
        BY <1>1, <2>2, <3>4 DEF FlowState, rx_ooo, n
      <4>2. off = o + f.rx_ooo_len
        <5>1. U32(f.rx_ooo_start + f.rx_ooo_len) = s
          BY <2>2, <3>4 DEF ooo_takes, ooo_above, s, t
        <5>2. o + f.rx_ooo_len < SeqMod
          BY <1>4, <3>1, Constants DEF SeqNo
        <5> QED BY <1>3, <1>4, <5>1, <5>2, SeqDistance
      <4> HIDE DEF g, off
      <4>3. \A k \in Nat : InOoo(g, k) => o <= k /\ k < o + (f.rx_ooo_len + n)
        BY <1>7, <4>1 DEF InOoo
      <4> HIDE DEF o
      <4> QED BY <1>3, <1>4, <1>6, <3>2, <4>2, <4>3, Constants DEF SeqNo
    <3> QED BY <3>3, <3>4
  <2> QED BY <2>1, <2>2
<1> HIDE DEF g
<1>9. \A k \in Nat : k + 0 = k
  OBVIOUS
<1>10. HeldFrom(f, g, p, t, 0)
  BY <1>4, <1>5, <1>7, <1>8, <1>9 DEF HeldFrom
<1> QED BY <1>7, <1>10 DEF g, t

\* Every byte that the flow state holds after a segment was held before it, or
\* is payload that is stored.
LEMMA DataHeld ==
  ASSUME NEW f, FlowOK(f), NEW p \in Segments, Len(p.data) < LenMod,
         ~TrimMisses(f, p.seq, Len(p.data))
  PROVE  LET t == rx_trim(f, p)
             g == rx_data(f, p, t)
         IN  /\ f.rx_avail - g.rx_avail \in Nat
             /\ HeldFrom(f, g, p, t, f.rx_avail - g.rx_avail)
<1> DEFINE t == rx_trim(f, p)
           g == rx_data(f, p, t)
           a == f.rx_avail - g.rx_avail
           n == pay_len(p, t)
<1>1. f \in FlowState /\ unacked(f) < TxLen /\ ooo_fits(f)
  BY DEF FlowOK, unacked
<1>2. f.rx_avail \in Nat /\ f.rx_next_seq \in SeqNo
  BY <1>1, FlowRanges DEF FlowState
<1>3. ASSUME SameRx(f, g) PROVE a \in Nat /\ HeldFrom(f, g, p, t, a)
  <2>1. a = 0
    BY <1>2, <1>3 DEF SameRx
  <2> QED BY <1>1, <1>3, <2>1, SameHeld
<1>4. CASE rx_inorder(f, p, t)
  <2> DEFINE h == [f EXCEPT !.rx_remote_avail = p.wnd]
  <2>1. g = IF n > 0 THEN rx_catchup(rx_advance(h, n)) ELSE h
    BY <1>4 DEF rx_data, rx_next
  <2>2. h \in FlowState
    <3>1. p.wnd \in SeqNo
      BY Constants DEF Segments, SeqNo
    <3> QED BY <1>1, <3>1, Zenon DEF FlowState
  <2>3. SameRx(f, h) /\ SameTx(f, h)
    BY <1>1 DEF FlowState, SameRx, SameTx
  <2> HIDE DEF h, g
  <2>4. FlowOK(h)
    BY <1>1, <2>2, <2>3 DEF FlowOK, unacked, tx_unsent, ooo_fits, SameRx, SameTx
  <2>5. CASE n > 0
    <3>1. ~t.drop /\ pay_seq(p, t) = f.rx_next_seq
      BY <1>4 DEF rx_inorder
    <3>2. pay_off(f, p, t) = 0
      BY <1>2, <3>1, SeqDistance DEF pay_off
    <3>3. n \in 0 .. h.rx_avail /\ n < LenMod
      <4>1. n \in 0 .. Len(p.data) /\ pay_off(f, p, t) + n <= f.rx_avail
        BY <2>5, <3>1, PayloadFits DEF pay_off
      <4>2. Len(p.data) \in Nat /\ h.rx_avail = f.rx_avail
        BY <2>3 DEF Segments, SameRx
      <4> HIDE DEF n
      <4> QED BY <1>2, <3>2, <4>1, <4>2, Constants
    <3>4. Takes(f, p, t) /\ \A k \in Nat : k < n => InPay(f, p, t, k)
      <4>1. n \in Nat
        BY <3>3, <1>2, <2>3 DEF SameRx
      <4>2. Takes(f, p, t)
        BY <1>4, <2>5 DEF Takes
      <4> QED BY <3>2, <4>1, <4>2 DEF InPay
    <3>5. \A k : InOoo(h, k) <=> InOoo(f, k)
      BY <2>3 DEF InOoo, SameRx
    <3> HIDE DEF n, t
    <3>6. /\ h.rx_avail - g.rx_avail \in Nat
          /\ g.rx_next_pos = CircFwd(h.rx_next_pos, h.rx_avail - g.rx_avail, RxLen)
          /\ \A k \in 0 .. (h.rx_avail - g.rx_avail) - 1 : InOoo(h, k) \/ k < n
          /\ \A k \in Nat : InOoo(g, k) => InOoo(h, k + (h.rx_avail - g.rx_avail))
      BY <2>1, <2>4, <2>5, <3>3, CatchupHeld
    <3>7. /\ a \in Nat /\ g.rx_next_pos = CircFwd(f.rx_next_pos, a, RxLen)
          /\ \A k \in 0 .. a - 1 : InOoo(f, k) \/ k < n
          /\ \A k \in Nat : InOoo(g, k) => InOoo(f, k + a)
      BY <2>3, <3>5, <3>6 DEF SameRx
    <3> HIDE DEF a
    <3>8. HeldFrom(f, g, p, t, a)
      BY <3>4, <3>7 DEF HeldFrom
    <3> QED BY <3>7, <3>8 DEF a, g, t
  <2>6. CASE ~(n > 0)
    BY <1>3, <2>1, <2>3, <2>6 DEF g
  <2> QED BY <2>5, <2>6
<1>5. CASE ~rx_inorder(f, p, t) /\ rx_ahead(f, p, t) /\ ooo_takes(f, p, t)
  <2>1. g = rx_ooo(f, p, t)
    BY <1>5 DEF rx_data
  <2>2. g.rx_avail = f.rx_avail /\ HeldFrom(f, g, p, t, 0)
    BY <1>5, <2>1, OooHeld
  <2>3. a = 0
    BY <1>2, <2>2
  <2> QED BY <2>2, <2>3
<1>6. CASE ~rx_inorder(f, p, t) /\ ~(rx_ahead(f, p, t) /\ ooo_takes(f, p, t))
  <2>1. g = f
    BY <1>6 DEF rx_data
  <2> QED BY <1>3, <2>1 DEF SameRx
<1> QED BY <1>4, <1>5, <1>6

\* The position of a byte moves with the next byte expected.
LEMMA BytePosShift ==
  ASSUME NEW f \in FlowState, NEW g, NEW a \in Nat, a <= RxLen,
         g.rx_next_pos = CircFwd(f.rx_next_pos, a, RxLen),
         NEW k \in Int, -RxLen <= k, k + a <= RxLen
  PROVE  byte_pos(g, k) = byte_pos(f, k + a)
<1>1. f.rx_next_pos \in 0 .. RxLen - 1
  BY DEF FlowState
<1> QED BY <1>1, Constants DEF byte_pos, CircFwd, CircBack

\* The distance from the start of a payload to a byte of the buffer.
LEMMA BytePosDist ==
  ASSUME NEW f \in FlowState, NEW o \in Nat, NEW k \in Int, o < f.rx_avail,
         f.rx_avail - RxLen <= k, k < f.rx_avail
  PROVE  /\ byte_pos(f, k) \in 0 .. RxLen - 1
         /\ CircDist(CircFwd(f.rx_next_pos, o, RxLen), byte_pos(f, k), RxLen)
              = IF o <= k THEN k - o ELSE k - o + RxLen
<1>1. /\ f.rx_next_pos \in 0 .. RxLen - 1 /\ f.rx_avail \in Nat
      /\ f.rx_avail <= RxLen
  BY FlowRanges
<1>2. CASE k < 0
  BY <1>1, <1>2, Constants DEF byte_pos, CircFwd, CircBack, CircDist
<1>3. CASE ~(k < 0)
  BY <1>1, <1>3, Constants DEF byte_pos, CircFwd, CircDist
<1> QED BY <1>2, <1>3

\* What is taken of a segment, and where in the stream it lies.
LEMMA PayAt ==
  ASSUME IInv, NEW p, NEW off, Delivered(p, off), Takes(fs, p, rx_trim(fs, p))
  PROVE  LET t == rx_trim(fs, p)
             n == pay_len(p, t)
             o == pay_off(fs, p, t)
         IN  /\ t.trim_start \in Nat /\ n \in Nat /\ n > 0 /\ o \in Nat /\ o <= RxLen
             /\ t.trim_start + n <= Len(p.data) /\ o + n <= fs.rx_avail
             /\ o = off + t.trim_start
<1> DEFINE t == rx_trim(fs, p)
           n == pay_len(p, t)
           o == pay_off(fs, p, t)
<1>1. /\ p \in Segments /\ Len(p.data) < LenMod /\ ~TrimMisses(fs, p.seq, Len(p.data))
      /\ off \in Lifetime /\ p.seq = U32(fs.rx_next_seq + off)
      /\ \A m \in 1 .. Len(p.data) : p.data[m] = hist.rcvd + off + m - 1
  BY DEF Delivered
<1>2. ~t.drop /\ n > 0
  BY DEF Takes, rx_inorder, rx_ahead
<1>3. /\ t.trim_start \in Nat /\ t.trim_end \in Nat /\ n \in 0 .. Len(p.data)
      /\ pay_seq(p, t) \in SeqNo /\ o + n <= fs.rx_avail
  BY <1>1, <1>2, PayloadFits DEF IInv, pay_off
<1>4. /\ p.seq \in SeqNo /\ Len(p.data) \in Nat /\ hist.rcvd \in Nat
      /\ fs.rx_next_seq \in SeqNo /\ fs.rx_next_pos \in 0 .. RxLen - 1
      /\ fs.rx_avail \in Nat /\ fs.rx_avail <= RxLen
      /\ rxbuf \in [0 .. RxLen - 1 -> Int]
  <2>1. /\ fs \in FlowState /\ hist \in Indices /\ rxbuf \in [0 .. RxLen - 1 -> Int]
    BY DEF IInv, TypeOK
  <2>2. p.seq \in SeqNo /\ Len(p.data) \in Nat
    BY <1>1 DEF Segments
  <2> QED BY <2>1, <2>2, FlowRanges DEF FlowState, Indices
<1>5. n = Len(p.data) - (t.trim_start + t.trim_end)
  BY DEF pay_len
<1>6. n \in Nat /\ t.trim_start + n <= Len(p.data)
  BY <1>3, <1>4, <1>5
<1> HIDE DEF n, t
<1>7. o \in Nat /\ o <= RxLen
  <2>1. o \in SeqNo
    BY <1>3, <1>4, SeqDistance DEF pay_off
  <2> HIDE DEF o
  <2> QED BY <1>3, <1>4, <1>6, <2>1, Constants DEF SeqNo
<1>8. o = off + t.trim_start
  <2>1. off \in Int /\ RxLen - SeqMod < off /\ off <= SeqMod - LenMod
    BY <1>1, Constants DEF Lifetime
  <2>2. o = U32(U32(p.seq + t.trim_start) - fs.rx_next_seq)
    BY DEF pay_off, pay_seq
  <2> DEFINE s == t.trim_start
  <2>3. s \in Nat /\ s < LenMod
    BY <1>1, <1>2, <1>3, <1>4, <1>6, Constants
  <2>4. o = U32(U32(p.seq + s) - fs.rx_next_seq)
    BY <2>2
  <2> HIDE DEF s, o
  <2>5. /\ fs.rx_next_seq \in Nat /\ fs.rx_next_seq < SeqMod
        /\ p.seq = U32(fs.rx_next_seq + off)
    BY <1>1, <1>4, Constants DEF SeqNo
  <2>6. o - (off + s) \in {-SeqMod, 0, SeqMod}
    BY <1>7, <2>1, <2>3, <2>4, <2>5, Constants DEF U32
  <2>7. -SeqMod < o - (off + s) /\ o - (off + s) < SeqMod
    BY <1>7, <2>1, <2>3, Constants
  <2>8. o = off + s
    BY <1>7, <2>1, <2>3, <2>6, <2>7, Constants
  <2> QED BY <2>8 DEF s
<1> QED BY <1>2, <1>3, <1>6, <1>7, <1>8 DEF n, t

\* Storing payload puts each of its bytes where it belongs, and leaves every
\* other byte of the buffer alone.
LEMMA WriteHeld ==
  ASSUME IInv, NEW p, NEW off, Delivered(p, off), Takes(fs, p, rx_trim(fs, p)),
         NEW k \in Int, fs.rx_avail - RxLen <= k, k < fs.rx_avail
  PROVE  rx_write(rxbuf, fs, p, rx_trim(fs, p))[byte_pos(fs, k)]
           = IF InPay(fs, p, rx_trim(fs, p), k) THEN hist.rcvd + k
                                                ELSE rxbuf[byte_pos(fs, k)]
<1> DEFINE t == rx_trim(fs, p)
           n == pay_len(p, t)
           o == pay_off(fs, p, t)
           pos == CircFwd(fs.rx_next_pos, o, RxLen)
           j == byte_pos(fs, k)
           e == CircDist(pos, j, RxLen)
<1>1. /\ p \in Segments /\ Len(p.data) < LenMod /\ ~TrimMisses(fs, p.seq, Len(p.data))
      /\ off \in Lifetime /\ p.seq = U32(fs.rx_next_seq + off)
      /\ \A m \in 1 .. Len(p.data) : p.data[m] = hist.rcvd + off + m - 1
  BY DEF Delivered
<1>4. /\ p.seq \in SeqNo /\ Len(p.data) \in Nat /\ hist.rcvd \in Nat
      /\ fs.rx_next_seq \in SeqNo /\ fs.rx_next_pos \in 0 .. RxLen - 1
      /\ fs.rx_avail \in Nat /\ fs.rx_avail <= RxLen
      /\ rxbuf \in [0 .. RxLen - 1 -> Int]
  <2>1. /\ fs \in FlowState /\ hist \in Indices /\ rxbuf \in [0 .. RxLen - 1 -> Int]
    BY DEF IInv, TypeOK
  <2>2. p.seq \in SeqNo /\ Len(p.data) \in Nat
    BY <1>1 DEF Segments
  <2> QED BY <2>1, <2>2, FlowRanges DEF FlowState, Indices
<1>5. /\ t.trim_start \in Nat /\ n \in Nat /\ n > 0 /\ o \in Nat /\ o <= RxLen
      /\ t.trim_start + n <= Len(p.data) /\ o + n <= fs.rx_avail
      /\ o = off + t.trim_start
  BY PayAt
<1> HIDE DEF n, t
<1> HIDE DEF o
<1>0. /\ o + n <= fs.rx_avail /\ t.trim_start \in Nat /\ off \in Int /\ 0 < n
  BY <1>1, <1>5, Constants DEF Lifetime
<1>9. /\ j \in 0 .. RxLen - 1 /\ e \in Nat
      /\ e = IF o <= k THEN k - o ELSE k - o + RxLen
  <2>1. fs \in FlowState
    BY DEF IInv, TypeOK
  <2>2. o < fs.rx_avail
    BY <1>0, <1>4, <1>5
  <2>3. /\ j \in 0 .. RxLen - 1
        /\ e = IF o <= k THEN k - o ELSE k - o + RxLen
    BY <1>5, <2>1, <2>2, BytePosDist
  <2> HIDE DEF e, j
  <2> QED BY <1>4, <1>5, <2>2, <2>3, Constants, SMTT(30)
<1> HIDE DEF j, e
<1>10. rx_write(rxbuf, fs, p, t)[j]
         = IF e < n THEN p.data[t.trim_start + e + 1] ELSE rxbuf[j]
  BY <1>4, <1>9 DEF rx_write, pos, o, n, e, pay_off
<1>11. e < n <=> InPay(fs, p, t, k)
  <2>1. InPay(fs, p, t, k) <=> o <= k /\ k < o + n
    BY DEF InPay, o, n
  <2>2. PICK ra \in Nat : ra = fs.rx_avail
    BY <1>4
  <2>3. /\ o \in Nat /\ n \in Nat /\ e \in Nat /\ o + n <= ra /\ ra - RxLen <= k /\ RxLen \in Nat
        /\ e = IF o <= k THEN k - o ELSE k - o + RxLen
    BY <1>0, <1>5, <1>9, <2>2, Constants
  <2> HIDE DEF pos
  <2>4. CASE o <= k
    BY <2>1, <2>3, <2>4
  <2>5. CASE ~(o <= k)
    <3>1. e >= n
      BY <2>3, <2>5
    <3> QED BY <2>1, <2>3, <2>5, <3>1
  <2> QED BY <2>4, <2>5
<1>12. e < n => p.data[t.trim_start + e + 1] = hist.rcvd + k
  <2> SUFFICES ASSUME e < n PROVE p.data[t.trim_start + e + 1] = hist.rcvd + k
    OBVIOUS
  <2> DEFINE b == t.trim_start
             m == b + e + 1
  <2>1. b \in Nat /\ b + n <= Len(p.data) /\ o = off + b
    BY <1>0, <1>5
  <2> HIDE DEF b
  <2>2. PICK ra \in Nat, l \in Nat : ra = fs.rx_avail /\ l = Len(p.data)
    BY <1>4
  <2>3. /\ o \in Nat /\ n \in Nat /\ e \in Nat /\ o + n <= ra /\ ra <= RxLen
        /\ ra - RxLen <= k /\ RxLen \in Nat /\ b + n <= l
        /\ e = IF o <= k THEN k - o ELSE k - o + RxLen
    BY <1>0, <1>4, <1>5, <1>9, <2>1, <2>2, Constants
  <2> HIDE DEF pos, o, n, e
  <2>4. e = k - o
    BY <2>3
  <2>5. m \in 1 .. l
    BY <2>1, <2>3
  <2>6. p.data[m] = hist.rcvd + off + m - 1
    BY <1>1, <2>2, <2>5
  <2>7. hist.rcvd + off + m - 1 = hist.rcvd + k
    <3>1. PICK hr \in Nat : hr = hist.rcvd
      BY <1>4
    <3>2. off + m - 1 = k /\ off \in Int /\ m \in Int
      BY <1>0, <2>1, <2>3, <2>4
    <3> HIDE DEF m
    <3> QED BY <3>1, <3>2
  <2> QED BY <2>6, <2>7 DEF b
<1> QED BY <1>10, <1>11, <1>12 DEF j, t

\* Bytes received and not freed, and bytes received ahead of a gap, are where
\* the positions say.
RxHeld ==
  /\ \A k \in hist.freed - hist.rcvd .. -1 : rxbuf[byte_pos(fs, k)] = hist.rcvd + k
  /\ \A k \in Nat : InOoo(fs, k) => rxbuf[byte_pos(fs, k)] = hist.rcvd + k

\* A step that leaves the next byte expected and the interval alone.
LEMMA RxFrame ==
  ASSUME IInv, RxHeld, rxbuf' = rxbuf, hist'.rcvd = hist.rcvd,
         hist'.freed \in Nat, hist.freed <= hist'.freed,
         fs'.rx_next_pos = fs.rx_next_pos, fs'.rx_next_seq = fs.rx_next_seq,
         fs'.rx_ooo_start = fs.rx_ooo_start, fs'.rx_ooo_len = fs.rx_ooo_len
  PROVE  RxHeld'
<1>1. \A k : byte_pos(fs', k) = byte_pos(fs, k) /\ (InOoo(fs', k) <=> InOoo(fs, k))
  BY DEF byte_pos, InOoo
<1>2. \A k \in hist'.freed - hist.rcvd .. -1 : k \in hist.freed - hist.rcvd .. -1
  BY Ranges
<1> QED BY <1>1, <1>2 DEF RxHeld

\* A segment whose payload is taken, or dropped.
LEMMA RxData ==
  ASSUME IInv, IInv', RxHeld, NEW p, NEW off, Delivered(p, off),
         NEW a \in Nat, fs'.rx_avail + a = fs.rx_avail,
         HeldFrom(fs, fs', p, rx_trim(fs, p), a),
         rxbuf' = IF Takes(fs, p, rx_trim(fs, p))
                  THEN rx_write(rxbuf, fs, p, rx_trim(fs, p)) ELSE rxbuf,
         hist'.rcvd = hist.rcvd + a, hist'.freed = hist.freed
  PROVE  RxHeld'
<1> DEFINE t == rx_trim(fs, p)
           New(k) == Takes(fs, p, t) /\ InPay(fs, p, t, k)
<1>1. /\ fs \in FlowState /\ fs' \in FlowState
      /\ hist.rcvd \in Nat /\ hist.freed \in Nat
      /\ fs.rx_avail \in Nat /\ fs.rx_avail <= RxLen /\ fs'.rx_avail \in Nat
      /\ hist.rcvd + fs.rx_avail - RxLen <= hist.freed /\ hist.freed <= hist.rcvd
      /\ ooo_fits(fs')
  <2>1. fs \in FlowState /\ fs' \in FlowState /\ ooo_fits(fs')
    BY DEF IInv, TypeOK, FlowOK
  <2> QED BY <2>1, Ranges, FlowRanges
<1>2. ASSUME NEW k \in Int, fs.rx_avail - RxLen <= k, k < fs.rx_avail
      PROVE  rxbuf'[byte_pos(fs, k)] = IF New(k) THEN hist.rcvd + k
                                       ELSE rxbuf[byte_pos(fs, k)]
  BY <1>2, WriteHeld
<1>3. ASSUME NEW k \in Int, -RxLen <= k, k < fs'.rx_avail,
             fs.rx_avail - RxLen <= k + a,
             New(k + a) \/ rxbuf[byte_pos(fs, k + a)] = hist.rcvd + (k + a)
      PROVE  rxbuf'[byte_pos(fs', k)] = hist'.rcvd + k
  <2>1. k + a \in Int /\ k + a < fs.rx_avail /\ k + a <= RxLen /\ a <= RxLen
    BY <1>1, <1>3, Constants
  <2>2. byte_pos(fs', k) = byte_pos(fs, k + a)
    BY <1>1, <1>3, <2>1, BytePosShift DEF HeldFrom
  <2>3. rxbuf'[byte_pos(fs, k + a)] = hist.rcvd + (k + a)
    BY <1>2, <1>3, <2>1
  <2> QED BY <1>1, <2>2, <2>3
<1>4. ASSUME NEW k \in hist'.freed - hist'.rcvd .. -1
      PROVE  rxbuf'[byte_pos(fs', k)] = hist'.rcvd + k
  <2>1. /\ k \in Int /\ -RxLen <= k /\ k < fs'.rx_avail
        /\ fs.rx_avail - RxLen <= k + a
    BY <1>1, Constants
  <2>2. CASE k + a < 0
    <3>1. k + a \in hist.freed - hist.rcvd .. -1
      BY <1>1, <2>2
    <3> QED BY <1>3, <2>1, <3>1 DEF RxHeld
  <2>3. CASE ~(k + a < 0)
    <3>1. k + a \in 0 .. a - 1 /\ k + a \in Nat
      BY <1>1, <2>3
    <3>2. InOoo(fs, k + a) \/ New(k + a)
      BY <3>1 DEF HeldFrom
    <3> QED BY <1>3, <2>1, <3>1, <3>2 DEF RxHeld
  <2> QED BY <2>2, <2>3
<1>5. ASSUME NEW k \in Nat, InOoo(fs', k)
      PROVE  rxbuf'[byte_pos(fs', k)] = hist'.rcvd + k
  <2>1. k < fs'.rx_avail
    <3> DEFINE o == U32(fs'.rx_ooo_start - fs'.rx_next_seq)
    <3>1. o \in SeqNo /\ fs'.rx_ooo_len \in Nat
      BY <1>1, SeqDistance, FlowRanges DEF FlowState
    <3>2. o <= k /\ k < o + fs'.rx_ooo_len
      BY <1>5 DEF InOoo
    <3>3. fs'.rx_ooo_len > 0 => o + fs'.rx_ooo_len <= fs'.rx_avail
      BY <1>1 DEF ooo_fits
    <3> HIDE DEF o
    <3> QED BY <1>1, <3>1, <3>2, <3>3, Constants DEF SeqNo
  <2>2. InOoo(fs, k + a) \/ New(k + a)
    BY <1>5 DEF HeldFrom
  <2>3. -RxLen <= k /\ fs.rx_avail - RxLen <= k + a /\ k + a \in Nat
    BY <1>1, Constants
  <2> QED BY <1>3, <2>1, <2>2, <2>3 DEF RxHeld
<1> QED BY <1>4, <1>5 DEF RxHeld

\* What the fast path makes of a segment, and where the bytes it then holds come
\* from.
LEMMA PacketHeld ==
  ASSUME IInv, NEW p, NEW off, Delivered(p, off), fastpath_packet(p)
  PROVE  \E a \in Nat :
           /\ fs'.rx_avail + a = fs.rx_avail
           /\ HeldFrom(fs, fs', p, rx_trim(fs, p), a)
           /\ hist'.rcvd = hist.rcvd + a /\ hist'.freed = hist.freed
<1> DEFINE f == rx_ack(fs, p)
           t == rx_trim(fs, p)
           a == fs.rx_avail - fs'.rx_avail
<1>0. fs \in FlowState /\ hist \in Indices
  BY DEF IInv, TypeOK
<1>1. /\ FlowOK(f) /\ SameRx(fs, f) /\ t = rx_trim(f, p)
      /\ ~TrimMisses(f, p.seq, Len(p.data))
      /\ fs' = IF third_dupack(fs, p) THEN f ELSE rx_data(f, p, t)
  BY FastpathFlow
<1>2. IInv'
  BY PacketStep DEF Delivered, fast_flows_packet
<1>3. hist'.rcvd = hist.rcvd + a /\ hist'.freed = hist.freed
  BY <1>0 DEF fastpath_packet, Indices
<1>4. fs'.rx_avail + a = fs.rx_avail
  BY <1>0, <1>2, FlowRanges DEF IInv, TypeOK
<1>5. CASE third_dupack(fs, p)
  <2>1. SameRx(fs, fs')
    BY <1>1, <1>5
  <2>2. a = 0
    BY <1>0, <2>1, FlowRanges DEF SameRx
  <2>3. HeldFrom(fs, fs', p, t, 0)
    BY <1>0, <2>1, SameHeld
  <2> QED BY <1>3, <1>4, <2>2, <2>3
<1>6. CASE ~third_dupack(fs, p)
  <2>1. fs' = rx_data(f, p, rx_trim(f, p))
    BY <1>1, <1>6
  <2>2. /\ f.rx_avail - fs'.rx_avail \in Nat
        /\ HeldFrom(f, fs', p, rx_trim(f, p), f.rx_avail - fs'.rx_avail)
    BY <1>1, <2>1, DataHeld DEF Delivered
  <2>3. a \in Nat /\ HeldFrom(f, fs', p, t, a)
    BY <1>1, <2>2 DEF SameRx
  <2>4. /\ f.rx_next_pos = fs.rx_next_pos
        /\ \A k : InOoo(f, k) <=> InOoo(fs, k)
        /\ \A k : InPay(f, p, t, k) <=> InPay(fs, p, t, k)
        /\ Takes(f, p, t) <=> Takes(fs, p, t)
    BY <1>1 DEF SameRx, InOoo, InPay, pay_off, Takes, rx_inorder, rx_ahead,
                ooo_takes, ooo_below, ooo_above
  <2> HIDE DEF a, t, f
  <2>5. HeldFrom(fs, fs', p, t, a)
    BY <2>3, <2>4 DEF HeldFrom
  <2> QED BY <1>3, <1>4, <2>3, <2>5 DEF t
<1> QED BY <1>5, <1>6

LEMMA RxPacket ==
  ASSUME IInv, RxHeld, NEW p, NEW off, Delivered(p, off), fast_flows_packet(p)
  PROVE  RxHeld'
<1>0. fs \in FlowState /\ hist \in Indices
  BY DEF IInv, TypeOK
<1>1. Delivered(p, off) /\ (slowpath_packet(p) \/ fastpath_packet(p))
  BY DEF fast_flows_packet
<1>2. CASE slowpath_packet(p)
  <2>1. /\ fs' = [fs EXCEPT !.slowpath = @ \/ p.kind = "other"]
        /\ UNCHANGED <<rxbuf, hist>>
    BY <1>2 DEF slowpath_packet
  <2>2. /\ fs'.rx_next_pos = fs.rx_next_pos /\ fs'.rx_next_seq = fs.rx_next_seq
        /\ fs'.rx_ooo_start = fs.rx_ooo_start /\ fs'.rx_ooo_len = fs.rx_ooo_len
    BY <1>0, <2>1 DEF FlowState
  <2> QED BY <1>0, <2>1, <2>2, RxFrame, Ranges
<1>3. CASE fastpath_packet(p)
  <2> DEFINE t == rx_trim(fs, p)
  <2>1. PICK a \in Nat :
          /\ fs'.rx_avail + a = fs.rx_avail /\ HeldFrom(fs, fs', p, t, a)
          /\ hist'.rcvd = hist.rcvd + a /\ hist'.freed = hist.freed
    BY <1>1, <1>3, PacketHeld
  <2>2. IInv'
    BY <1>1, PacketStep DEF Delivered
  <2>3. rxbuf' = IF rx_stores(fs, p, t) THEN rx_write(rxbuf, fs, p, t) ELSE rxbuf
    BY <1>3 DEF fastpath_packet
  <2>4. CASE third_dupack(fs, p)
    <3>1. ~rx_stores(fs, p, t)
      BY <2>4 DEF rx_stores
    <3>2. SameRx(fs, fs')
      BY <1>1, <1>3, <2>4, FastpathFlow
    <3>3. hist'.rcvd = hist.rcvd
      <4>1. fs'.rx_avail = fs.rx_avail /\ fs.rx_avail \in Nat /\ hist.rcvd \in Nat
        BY <1>0, <3>2, FlowRanges DEF SameRx, Indices
      <4> QED BY <2>1, <4>1
    <3> QED BY <2>1, <2>3, <3>1, <3>2, <3>3, RxFrame, Ranges DEF SameRx
  <2>5. CASE ~third_dupack(fs, p)
    <3>1. rx_stores(fs, p, t) <=> Takes(fs, p, t)
      BY <2>5 DEF rx_stores, Takes
    <3> QED BY <1>1, <2>1, <2>2, <2>3, <3>1, RxData
  <2> QED BY <2>4, <2>5
<1> QED BY <1>1, <1>2, <1>3

\* Received bytes stay where they are until they are freed, whatever step is
\* taken.
LEMMA RxHeldStep == IInv /\ RxHeld /\ [Next]_vars => RxHeld'
<1> SUFFICES ASSUME IInv, RxHeld, [Next]_vars PROVE RxHeld'
  OBVIOUS
<1>0. fs \in FlowState /\ hist \in Indices /\ hist.freed \in Nat /\ hist.rcvd \in Nat
  BY DEF IInv, TypeOK, Indices
<1>1. CASE network_rx
  BY <1>1, NetworkDelivers, RxPacket
<1>2. ASSUME fs'.rx_next_pos = fs.rx_next_pos, fs'.rx_next_seq = fs.rx_next_seq,
             fs'.rx_ooo_start = fs.rx_ooo_start, fs'.rx_ooo_len = fs.rx_ooo_len,
             UNCHANGED <<rxbuf, hist>>
      PROVE  RxHeld'
  BY <1>0, <1>2, RxFrame
<1>3. CASE flast_flows_bump
  BY <1>0, <1>2, <1>3 DEF flast_flows_bump, flow_bump, FlowState
<1>4. CASE fast_flows_qman
  BY <1>0, <1>2, <1>4 DEF fast_flows_qman, flow_sent, FlowState
<1>5. CASE fast_flows_retransmit
  BY <1>0, <1>2, <1>5 DEF fast_flows_retransmit, flow_reset_retransmit, FlowState
<1>6. CASE event_arx_connupdate
  <2>1. hist'.rcvd = hist.rcvd /\ hist'.freed = hist.freed /\ UNCHANGED <<fs, rxbuf>>
    BY <1>0, <1>6 DEF event_arx_connupdate, Indices
  <2> QED BY <1>0, <2>1, RxFrame
<1>7. ASSUME NEW len \in RxChunks, connection_rx_done(len) PROVE RxHeld'
  <2>1. /\ hist'.rcvd = hist.rcvd /\ hist'.freed = hist.freed + len
        /\ UNCHANGED <<fs, rxbuf>>
    BY <1>0, <1>7 DEF connection_rx_done, Indices
  <2>2. len \in Nat
    BY FastFlowAssumption
  <2> QED BY <1>0, <2>1, <2>2, RxFrame
<1>8. ASSUME NEW len \in TxChunks,
             \/ connection_tx_send(len)
             \/ \E pieces \in {1, 2} : connection_tx_alloc(len, pieces)
      PROVE  RxHeld'
  <2>1. hist'.rcvd = hist.rcvd /\ hist'.freed = hist.freed /\ UNCHANGED <<fs, rxbuf>>
    BY <1>0, <1>8 DEF connection_tx_send, connection_tx_alloc, Indices
  <2> QED BY <1>0, <2>1, RxFrame
<1>9. CASE appif_conn_opened \/ context_poll \/ conns_bump \/ UNCHANGED vars
  BY <1>2, <1>9 DEF appif_conn_opened, context_poll, conns_bump, vars
<1> QED BY <1>1, <1>3, <1>4, <1>5, <1>6, <1>7, <1>8, <1>9 DEF Next, Library

LEMMA InitRxHeld ==
  ASSUME NEW status, InitWith(status)
  PROVE  RxHeld /\ \A k \in Nat : ~InOoo(fs, k)
<1>1. /\ fs.rx_ooo_len = 0 /\ fs.rx_ooo_start = 0 /\ fs.rx_next_seq = RemoteIsn
      /\ hist.freed = 0 /\ hist.rcvd = 0
  BY DEF InitWith, FlowInit
<1>2. U32(0 - RemoteIsn) \in Int
  BY FastFlowAssumption, Constants DEF U32
<1>3. \A k \in Nat : ~InOoo(fs, k)
  BY <1>1, <1>2 DEF InOoo
<1> QED BY <1>1, <1>3 DEF RxHeld

LEMMA HeldContent == IInv /\ RxHeld => RxContent
<1> SUFFICES ASSUME IInv, RxHeld PROVE RxContent
  OBVIOUS
<1> DEFINE o == U32(fs.rx_ooo_start - fs.rx_next_seq)
<1>1. ASSUME NEW i \in hist.freed .. hist.rcvd - 1
      PROVE  rxbuf[CircBack(fs.rx_next_pos, hist.rcvd - i, RxLen)] = i
  <2> DEFINE k == i - hist.rcvd
  <2>1. /\ k \in hist.freed - hist.rcvd .. -1 /\ k < 0 /\ -k = hist.rcvd - i
        /\ hist.rcvd + k = i
    BY Ranges
  <2> HIDE DEF k
  <2>2. rxbuf[byte_pos(fs, k)] = i
    BY <2>1 DEF RxHeld
  <2> QED BY <2>1, <2>2 DEF byte_pos
<1>2. ASSUME NEW k \in o .. o + fs.rx_ooo_len - 1
      PROVE  rxbuf[CircFwd(fs.rx_next_pos, k, RxLen)] = hist.rcvd + k
  <2>1. o \in SeqNo /\ fs.rx_ooo_len \in Nat
    BY SeqDistance, FlowRanges DEF IInv, TypeOK, FlowState
  <2>2. k \in Nat /\ ~(k < 0) /\ o <= k /\ k < o + fs.rx_ooo_len
    <3> HIDE DEF o
    <3> QED BY <2>1, Constants DEF SeqNo
  <2>3. InOoo(fs, k)
    BY <2>2 DEF InOoo
  <2> QED BY <2>2, <2>3 DEF RxHeld, byte_pos
<1> QED BY <1>1, <1>2 DEF RxContent

\* Every byte received and not freed, and every byte received ahead of a gap,
\* is in the receive buffer where the application and the fast path look for
\* it, with the value the peer sent, in whatever order and however often
\* segments arrive, as long as none outlives the sequence number space.
THEOREM RxIntact == Spec => []RxContent
<1>1. Init => RxHeld
  BY InitRxHeld DEF Init
<1> QED BY <1>1, HeldContent, RxHeldStep, InitIInv, NextStep, PTL DEF Spec
-----------------------------------------------------------------------------
(* One end of a conversation, as TcpPair joins two of them.  The segments    *)
(* that arrive are then not any that the environment chooses, but those that *)
(* the other end has sent at some time.                                      *)

\* Number of the first unacknowledged byte.
base_seq(f) == U32(f.tx_next_seq - f.tx_sent)

\* Neither stream is so long that a segment of its start can be taken for one
\* of its end.
ShortStreams ==
  /\ MaxSend < SeqMod
  /\ MaxRcvd + RxLen < SeqMod /\ MaxRcvd + LenMod <= SeqMod

\* The sequence numbers of the flow state are those of the stream indices.
Numbered ==
  /\ fs.rx_next_seq = U32(RemoteIsn + hist.rcvd)
  /\ base_seq(fs) = U32(LocalIsn + hist.acked)
  /\ 0 <= nic_tail /\ hist.alloc <= MaxSend

\* Nothing is received, in order or not, that is not among the peer's first h
\* bytes.
Below(h) ==
  /\ hist.rcvd <= h
  /\ \A k \in Nat : InOoo(fs, k) => hist.rcvd + k < h

\* The end is in order with a peer that has handed h bytes to its library and
\* received r bytes.
End(h, r) ==
  /\ IInv /\ TxFilled /\ RxHeld /\ Numbered /\ Below(h)
  /\ hist.acked <= r /\ r <= hist.head

\* A segment carries bytes of the first h of the stream that starts at isn, and
\* acknowledges at most r bytes of the one that starts at ack_isn.
Carries(p, isn, h) ==
  \E s \in Nat : /\ p.seq = U32(isn + s) /\ s + Len(p.data) <= h
                 /\ \A j \in 1 .. Len(p.data) : p.data[j] = s + j - 1
Acknowledges(p, isn, r) == \E k \in Nat : p.ack = U32(isn + k) /\ k <= r
Carried(p, isn, ack_isn, h, r) ==
  /\ p \in Segments /\ Len(p.data) < LenMod
  /\ Carries(p, isn, h) /\ Acknowledges(p, ack_isn, r)

LEMMA IsnRange == LocalIsn \in SeqNo /\ RemoteIsn \in SeqNo
  BY FastFlowAssumption DEF SeqNo

\* Sums of sequence numbers, and their distances.
LEMMA SeqSum ==
  ASSUME NEW i \in SeqNo, NEW a \in Nat, NEW b \in Nat, a + b < SeqMod
  PROVE  U32(U32(i + a) + b) = U32(i + (a + b)) /\ U32(i + a) \in SeqNo
  BY Constants DEF U32, SeqNo

LEMMA SeqDiff ==
  ASSUME NEW i \in SeqNo, NEW a \in Nat, NEW b \in Nat, a < SeqMod, b < SeqMod
  PROVE  /\ U32(U32(i + b) - U32(i + a)) = IF a <= b THEN b - a ELSE b - a + SeqMod
         /\ U32(i + b) = U32(U32(i + a) + (b - a))
<1>1. CASE i + a < SeqMod /\ i + b < SeqMod
  BY <1>1, Constants DEF U32, SeqNo
<1>2. CASE i + a < SeqMod /\ i + b >= SeqMod
  BY <1>2, Constants DEF U32, SeqNo
<1>3. CASE i + a >= SeqMod /\ i + b < SeqMod
  BY <1>3, Constants DEF U32, SeqNo
<1>4. CASE i + a >= SeqMod /\ i + b >= SeqMod
  BY <1>4, Constants DEF U32, SeqNo
<1>5. /\ i + a < SeqMod \/ i + a >= SeqMod
      /\ i + b < SeqMod \/ i + b >= SeqMod
  BY Constants DEF SeqNo
<1> QED BY <1>1, <1>2, <1>3, <1>4, <1>5, Zenon

\* An ack moves the number of the first unacknowledged byte on by what it
\* acknowledges.
LEMMA AckBase ==
  ASSUME NEW f, FlowOK(f), NEW p \in Segments
  PROVE  /\ base_seq(f) \in SeqNo
         /\ base_seq(rx_ack(f, p)) = U32(base_seq(f) + tx_bump(f, p))
<1> DEFINE g == rx_ack(f, p)
           b == rxack_bump(f, p.ack)
           future == IF b <= f.tx_sent THEN 0 ELSE b - f.tx_sent
<1>1. f \in FlowState /\ unacked(f) < TxLen
  BY DEF FlowOK, unacked
<1>2. /\ f.tx_next_seq \in SeqNo /\ f.tx_sent \in Nat /\ f.tx_sent < TxLen
  BY <1>1, FlowRanges DEF FlowState
<1>3. base_seq(f) \in SeqNo
  BY <1>2, Constants DEF base_seq, U32, SeqNo
<1> SUFFICES base_seq(g) = U32(base_seq(f) + tx_bump(f, p))
  BY <1>3
<1>4. U32(base_seq(f) + 0) = base_seq(f)
  BY <1>3, Constants DEF U32, SeqNo
<1>5. ASSUME g.tx_sent = f.tx_sent, g.tx_next_seq = f.tx_next_seq, tx_bump(f, p) = 0
      PROVE  base_seq(g) = U32(base_seq(f) + tx_bump(f, p))
  <2>1. base_seq(g) = base_seq(f)
    BY <1>5, Zenon DEF base_seq
  <2> QED BY <1>4, <1>5, <2>1
<1>6. CASE ~ack_valid(f, p)
  BY <1>5, <1>6 DEF rx_ack, tx_bump
<1>7. CASE ack_valid(f, p) /\ b = 0
  <2>1. tx_bump(f, p) = 0
    BY <1>7 DEF tx_bump
  <2>2. CASE third_dupack(f, p)
    <3>1. g = flow_reset_retransmit(f)
      BY <1>7, <2>2 DEF rx_ack
    <3>2. g.tx_sent = 0 /\ g.tx_next_seq = base_seq(f)
      BY <1>1, <3>1 DEF FlowState, flow_reset_retransmit, base_seq
    <3>3. base_seq(g) = U32(base_seq(f) - 0)
      BY <3>2 DEF base_seq
    <3>4. base_seq(f) - 0 = base_seq(f) + 0
      BY <1>3, Constants DEF SeqNo
    <3>5. base_seq(g) = U32(base_seq(f) + 0)
      BY <3>3, <3>4, Zenon
    <3> QED BY <2>1, <3>5, Zenon
  <2>3. CASE ~third_dupack(f, p)
    <3>1. g \in {[f EXCEPT !.rx_dupack_cnt = @ + 1], f}
      BY <1>7, <2>3 DEF rx_ack
    <3>2. g.tx_sent = f.tx_sent /\ g.tx_next_seq = f.tx_next_seq
      BY <1>1, <3>1 DEF FlowState
    <3> QED BY <1>5, <2>1, <3>2
  <2> QED BY <2>2, <2>3
<1>8. CASE ack_valid(f, p) /\ b # 0
  <2>0. tx_unsent(f, f.tx_head) \in 0 .. TxLen - 1
    BY <1>1, UnsentRange DEF FlowState
  <2>1. b \in Nat /\ b <= unacked(f) /\ tx_bump(f, p) = b
    BY <1>1, <1>8, <2>0, RxackInBuffer, Constants
       DEF FlowState, ack_valid, tx_bump, unacked, Segments
  <2>2. g = [f EXCEPT !.tx_sent       = IF b <= @ THEN @ - b ELSE 0,
                      !.tx_next_seq   = U32(@ + future),
                      !.tx_next_pos   = CircFwd(@, future, TxLen),
                      !.rx_dupack_cnt = 0]
    BY <1>8 DEF rx_ack, third_dupack
  <2> HIDE DEF b, g
  <2>3. /\ g.tx_sent = (IF b <= f.tx_sent THEN f.tx_sent - b ELSE 0)
        /\ g.tx_next_seq = U32(f.tx_next_seq + future)
    BY <1>1, <2>2 DEF FlowState
  <2>4. b < TxLen
    BY <1>1, <2>0, <2>1, <1>2, Constants DEF unacked
  <2>5. CASE b <= f.tx_sent
    <3>1. U32(f.tx_next_seq + 0) = f.tx_next_seq
      BY <1>2, Constants DEF U32, SeqNo
    <3>2. U32(f.tx_next_seq - (f.tx_sent - b)) = U32(U32(f.tx_next_seq - f.tx_sent) + b)
      BY <1>2, <2>1, <2>4, <2>5, Constants DEF U32, SeqNo
    <3>3. g.tx_sent = f.tx_sent - b /\ g.tx_next_seq = f.tx_next_seq
      BY <2>3, <2>5, <3>1
    <3> QED BY <2>1, <3>2, <3>3 DEF base_seq
  <2>6. CASE ~(b <= f.tx_sent)
    <3>1. U32(U32(f.tx_next_seq + (b - f.tx_sent)) - 0)
            = U32(U32(f.tx_next_seq - f.tx_sent) + b)
      BY <1>2, <2>1, <2>4, <2>6, Constants DEF U32, SeqNo
    <3>2. g.tx_sent = 0 /\ g.tx_next_seq = U32(f.tx_next_seq + (b - f.tx_sent))
      BY <2>3, <2>6
    <3> QED BY <2>1, <3>1, <3>2 DEF base_seq
  <2> QED BY <2>1, <2>5, <2>6 DEF g
<1> QED BY <1>6, <1>7, <1>8

\* What the peer has sent arrives as the environment of FastFlow delivers it.
LEMMA CarriedDelivered ==
  ASSUME NEW h \in Nat, NEW r, End(h, r), ShortStreams, h <= MaxRcvd, NEW p,
         Carried(p, RemoteIsn, LocalIsn, h, r), ~TrimMisses(fs, p.seq, Len(p.data))
  PROVE  \E off : Delivered(p, off) /\ hist.rcvd + off + Len(p.data) <= h
<1>1. p \in Segments /\ Len(p.data) < LenMod /\ Carries(p, RemoteIsn, h)
  BY DEF Carried
<1>2. PICK s \in Nat : /\ p.seq = U32(RemoteIsn + s) /\ s + Len(p.data) <= h
                       /\ \A j \in 1 .. Len(p.data) : p.data[j] = s + j - 1
  BY <1>1 DEF Carries
<1>3. /\ hist.rcvd \in Nat /\ hist.rcvd <= h /\ Len(p.data) \in Nat
      /\ RemoteIsn \in SeqNo /\ MaxRcvd \in Nat
      /\ MaxRcvd + RxLen < SeqMod /\ MaxRcvd + LenMod <= SeqMod
  <2>1. IInv /\ Below(h)
    BY DEF End
  <2>2. Len(p.data) \in Nat
    BY <1>1 DEF Segments
  <2>3. hist.rcvd \in Nat /\ hist.rcvd <= h
    BY <2>1, Ranges DEF Below
  <2> QED BY <2>2, <2>3, IsnRange, FastFlowAssumption DEF ShortStreams
<1>4. hist.rcvd < SeqMod /\ s < SeqMod /\ s <= h
  BY <1>2, <1>3, Constants
<1>5. PICK off : off = s - hist.rcvd
  OBVIOUS
<1>6. off \in Int /\ hist.rcvd + off = s
  BY <1>3, <1>5
<1>7. off \in Lifetime
  BY <1>3, <1>4, <1>5, Constants DEF Lifetime
<1>8. p.seq = U32(fs.rx_next_seq + off)
  <2>1. fs.rx_next_seq = U32(RemoteIsn + hist.rcvd)
    BY DEF End, Numbered
  <2> QED BY <1>2, <1>3, <1>4, <1>5, <2>1, SeqDiff
<1>9. Delivered(p, off)
  BY <1>1, <1>2, <1>6, <1>7, <1>8 DEF Delivered
<1> QED BY <1>2, <1>6, <1>9

\* Bytes below h stay below h, and the next number expected moves with them.
LEMMA PacketBelow ==
  ASSUME IInv, NEW h \in Nat, h < SeqMod, Below(h),
         fs.rx_next_seq = U32(RemoteIsn + hist.rcvd),
         NEW p, NEW off, Delivered(p, off), hist.rcvd + off + Len(p.data) <= h,
         fastpath_packet(p)
  PROVE  /\ Below(h)' /\ hist.rcvd <= hist'.rcvd
         /\ fs'.rx_next_seq = U32(RemoteIsn + hist'.rcvd)
<1>1. IInv' /\ win_edge(fs') = win_edge(fs)
  BY PacketStep DEF Delivered, fast_flows_packet
<1>2. PICK a \in Nat :
        /\ fs'.rx_avail + a = fs.rx_avail
        /\ HeldFrom(fs, fs', p, rx_trim(fs, p), a)
        /\ hist'.rcvd = hist.rcvd + a /\ hist'.freed = hist.freed
  BY PacketHeld
<1>3. /\ hist.rcvd \in Nat /\ hist.rcvd <= h
      /\ fs.rx_avail \in Nat /\ fs.rx_avail <= RxLen /\ fs'.rx_avail \in Nat
      /\ fs.rx_next_seq \in SeqNo /\ fs'.rx_next_seq \in SeqNo
  BY <1>1, Ranges, FlowRanges DEF Below, IInv, TypeOK, FlowState
<1>4. ASSUME NEW k \in Nat,
             InOoo(fs, k) \/ (/\ Takes(fs, p, rx_trim(fs, p))
                              /\ InPay(fs, p, rx_trim(fs, p), k))
      PROVE  hist.rcvd + k < h
  <2>1. CASE InOoo(fs, k)
    BY <2>1 DEF Below
  <2>2. CASE /\ Takes(fs, p, rx_trim(fs, p))
             /\ InPay(fs, p, rx_trim(fs, p), k)
    <3> DEFINE o == pay_off(fs, p, rx_trim(fs, p))
               n == pay_len(p, rx_trim(fs, p))
               c == rx_trim(fs, p).trim_start
               l == Len(p.data)
    <3>1. /\ c \in Nat /\ n \in Nat /\ o \in Nat
          /\ c + n <= l /\ o = off + c
      BY <2>2, PayAt
    <3>2. k < o + n
      BY <2>2 DEF InPay
    <3>3. off \in Int /\ l \in Nat /\ hist.rcvd + off + l <= h
      BY Constants DEF Delivered, Lifetime, Segments
    <3> HIDE DEF o, n, c, l
    <3> QED BY <1>3, <3>1, <3>2, <3>3
  <2> QED BY <1>4, <2>1, <2>2
<1>5. hist'.rcvd <= h
  <2>1. CASE a = 0
    BY <1>2, <1>3, <2>1
  <2>2. CASE a # 0
    <3>1. a - 1 \in Nat /\ a - 1 \in 0 .. a - 1
      BY <2>2
    <3>2. hist.rcvd + (a - 1) < h
      BY <1>2, <1>4, <3>1 DEF HeldFrom
    <3> QED BY <1>2, <1>3, <3>2
  <2> QED BY <2>1, <2>2
<1>6. ASSUME NEW k \in Nat, InOoo(fs', k) PROVE hist'.rcvd + k < h
  <2>1. k + a \in Nat
    OBVIOUS
  <2>2. hist.rcvd + (k + a) < h
    BY <1>2, <1>4, <1>6, <2>1 DEF HeldFrom
  <2> QED BY <1>2, <1>3, <2>2
<1>7. Below(h)'
  BY <1>5, <1>6 DEF Below
<1>8. fs'.rx_next_seq = U32(RemoteIsn + hist'.rcvd)
  <2>1. fs'.rx_next_seq = U32(fs.rx_next_seq + a)
    <3>1. U32(fs'.rx_next_seq + fs'.rx_avail) = U32(fs.rx_next_seq + fs.rx_avail)
      BY <1>1 DEF win_edge
    <3> DEFINE x == fs.rx_next_seq
               y == fs'.rx_next_seq
               v == fs'.rx_avail
    <3>2. /\ x \in SeqNo /\ y \in SeqNo /\ v \in Nat /\ v + a <= RxLen
          /\ U32(y + v) = U32(x + (v + a))
      BY <1>2, <1>3, <3>1
    <3> HIDE DEF x, y, v
    <3>3. y = U32(x + a)
      BY <3>2, Constants DEF U32, SeqNo
    <3> QED BY <3>3 DEF x, y
  <2>2. hist.rcvd + a < SeqMod
    BY <1>2, <1>3, <1>5, Constants
  <2>3. U32(U32(RemoteIsn + hist.rcvd) + a) = U32(RemoteIsn + (hist.rcvd + a))
    BY <1>3, <2>2, IsnRange, SeqSum
  <2> QED BY <1>2, <2>1, <2>3
<1> QED BY <1>2, <1>3, <1>7, <1>8

\* An ack of what the peer has received acknowledges no more than that.
LEMMA PacketAcked ==
  ASSUME NEW h, NEW r \in Nat, End(h, r), ShortStreams, NEW p,
         Carried(p, RemoteIsn, LocalIsn, h, r)
  PROVE  /\ tx_bump(fs, p) \in Nat /\ hist.acked + tx_bump(fs, p) <= r
         /\ base_seq(rx_ack(fs, p)) = U32(LocalIsn + (hist.acked + tx_bump(fs, p)))
<1>1. p \in Segments /\ Acknowledges(p, LocalIsn, r) /\ FlowOK(fs) /\ IInv
  BY DEF Carried, End, IInv
<1>2. PICK k \in Nat : p.ack = U32(LocalIsn + k) /\ k <= r
  BY <1>1 DEF Acknowledges
<1>3. PICK b : b = tx_bump(fs, p)
  OBVIOUS
<1>4. b \in Nat /\ base_seq(rx_ack(fs, p)) = U32(base_seq(fs) + b)
  BY <1>1, <1>3, AckFlow, AckBase
<1>5. /\ hist.acked \in Nat /\ hist.head \in Nat /\ unacked(fs) \in Nat
      /\ hist.acked + unacked(fs) <= hist.head /\ hist.head < SeqMod
      /\ hist.acked <= r /\ r <= hist.head
      /\ base_seq(fs) = U32(LocalIsn + hist.acked)
  <2>1. /\ hist.acked <= r /\ r <= hist.head /\ hist.alloc <= MaxSend
        /\ base_seq(fs) = U32(LocalIsn + hist.acked)
    BY DEF End, Numbered
  <2>2. MaxSend \in Nat /\ MaxSend < SeqMod
    BY FastFlowAssumption DEF ShortStreams
  <2>3. hist.acked + unacked(fs) <= hist.head
    BY <1>1, Ranges
  <2>4. /\ hist.acked \in Nat /\ hist.head \in Nat /\ unacked(fs) \in Nat
        /\ hist.head <= hist.alloc /\ hist.alloc \in Nat
    BY <1>1, Ranges
  <2> QED BY <2>1, <2>2, <2>3, <2>4, Constants
<1>6. hist.acked + b <= r
  <2>1. CASE ack_valid(fs, p)
    <3>1. b = U32(p.ack - base_seq(fs))
      BY <1>3, <2>1 DEF tx_bump, rxack_bump, base_seq
    <3>2. b = IF hist.acked <= k THEN k - hist.acked ELSE k - hist.acked + SeqMod
      <4>1. hist.acked < SeqMod /\ k < SeqMod
        BY <1>2, <1>5, Constants
      <4>2. U32(U32(LocalIsn + k) - U32(LocalIsn + hist.acked))
              = IF hist.acked <= k THEN k - hist.acked ELSE k - hist.acked + SeqMod
        BY <1>5, <4>1, IsnRange, SeqDiff
      <4> QED BY <1>2, <1>5, <3>1, <4>2
    <3>3. b <= unacked(fs)
      <4>1. unacked(rx_ack(fs, p)) + b = unacked(fs) /\ FlowOK(rx_ack(fs, p))
        BY <1>1, <1>3, AckFlow
      <4>2. unacked(rx_ack(fs, p)) \in Nat
        BY <4>1, FlowRanges, UnsentRange, Constants DEF FlowOK, unacked
      <4> QED BY <1>4, <1>5, <4>1, <4>2
    <3> QED BY <1>2, <1>5, <3>2, <3>3, Constants
  <2>2. CASE ~ack_valid(fs, p)
    BY <1>3, <1>5, <2>2 DEF tx_bump
  <2> QED BY <2>1, <2>2
<1>7. U32(base_seq(fs) + b) = U32(LocalIsn + (hist.acked + b))
  <2>1. hist.acked + b < SeqMod
    BY <1>4, <1>5, <1>6, Constants
  <2>2. U32(U32(LocalIsn + hist.acked) + b) = U32(LocalIsn + (hist.acked + b))
    BY <1>4, <1>5, <2>1, IsnRange, SeqSum
  <2> QED BY <1>5, <2>2
<1> QED BY <1>3, <1>4, <1>6, <1>7

\* Number of the next byte to send.
LEMMA NextNumber ==
  ASSUME NEW f, FlowOK(f), NEW ac \in Nat, base_seq(f) = U32(LocalIsn + ac),
         ac + f.tx_sent < SeqMod
  PROVE  f.tx_next_seq = U32(LocalIsn + (ac + f.tx_sent))
<1>1. f.tx_next_seq \in SeqNo /\ f.tx_sent \in Nat /\ f.tx_sent < TxLen
  BY FlowRanges DEF FlowOK, FlowState
<1>2. U32(U32(f.tx_next_seq - f.tx_sent) + f.tx_sent) = f.tx_next_seq
  BY <1>1, Constants DEF U32, SeqNo
<1>3. U32(U32(LocalIsn + ac) + f.tx_sent) = U32(LocalIsn + (ac + f.tx_sent))
  BY <1>1, IsnRange, SeqSum
<1> QED BY <1>2, <1>3 DEF base_seq

\* What any segment that a flow sends says in its header.
LEMMA SegmentHeader ==
  ASSUME NEW f, FlowOK(f), NEW rc \in Nat, NEW ac \in Nat,
         f.rx_next_seq = U32(RemoteIsn + rc), base_seq(f) = U32(LocalIsn + ac),
         NEW data \in Seq(Int)
  PROVE  LET q == Segment("ack", f.tx_next_seq, f.rx_next_seq, wnd_field(f), data)
         IN  /\ q \in Segments /\ q.data = data /\ q.seq = f.tx_next_seq
             /\ Acknowledges(q, RemoteIsn, rc)
<1> DEFINE q == Segment("ack", f.tx_next_seq, f.rx_next_seq, wnd_field(f), data)
<1>1. /\ f.tx_next_seq \in SeqNo /\ f.rx_next_seq \in SeqNo /\ f.rx_avail \in Nat
  BY FlowRanges DEF FlowOK, FlowState
<1>2. wnd_field(f) \in 0 .. LenMod - 1
  BY <1>1, Constants DEF wnd_field, MinOf
<1>3. q \in Segments
  BY <1>1, <1>2, Zenon DEF Segment, Segments
<1>4. q.ack = U32(RemoteIsn + rc) /\ q.data = data /\ q.seq = f.tx_next_seq
  BY DEF Segment
<1>5. rc <= rc
  OBVIOUS
<1> HIDE DEF q
<1>6. Acknowledges(q, RemoteIsn, rc)
  BY <1>4, <1>5 DEF Acknowledges
<1> QED BY <1>3, <1>4, <1>6 DEF q

\* A pure ack carries nothing, at the place of the next byte to send.
LEMMA AckSegment ==
  ASSUME NEW f, FlowOK(f), NEW rc \in Nat, NEW ac \in Nat, NEW hd \in Nat,
         f.rx_next_seq = U32(RemoteIsn + rc), base_seq(f) = U32(LocalIsn + ac),
         ac + unacked(f) <= hd, hd < SeqMod
  PROVE  Carried(tx_ack_segment(f), LocalIsn, RemoteIsn, hd, rc)
<1>1. PICK q : q = tx_ack_segment(f)
  OBVIOUS
<1>2. q = Segment("ack", f.tx_next_seq, f.rx_next_seq, wnd_field(f), << >>)
  BY <1>1 DEF tx_ack_segment
<1>3. << >> \in Seq(Int) /\ Len(<< >>) = 0
  OBVIOUS
<1>4. /\ q \in Segments /\ q.data = << >> /\ q.seq = f.tx_next_seq
      /\ Acknowledges(q, RemoteIsn, rc)
  BY <1>2, <1>3, SegmentHeader
<1>5. f.tx_sent \in Nat /\ ac + f.tx_sent \in Nat /\ ac + f.tx_sent <= hd
  <2>1. f.tx_sent \in Nat /\ tx_unsent(f, f.tx_head) \in Nat
    BY FlowRanges, UnsentRange, Constants DEF FlowOK
  <2> QED BY <2>1 DEF unacked
<1>6. f.tx_next_seq = U32(LocalIsn + (ac + f.tx_sent))
  BY <1>5, NextNumber, Constants
<1>7. Len(q.data) = 0 /\ Len(q.data) < LenMod
  BY <1>3, <1>4, Constants
<1>8. Carries(q, LocalIsn, hd)
  <2>1. /\ q.seq = U32(LocalIsn + (ac + f.tx_sent))
        /\ (ac + f.tx_sent) + Len(q.data) <= hd
        /\ \A j \in 1 .. Len(q.data) : q.data[j] = (ac + f.tx_sent) + j - 1
    BY <1>4, <1>5, <1>6, <1>7
  <2> QED BY <1>5, <2>1 DEF Carries
<1> QED BY <1>1, <1>4, <1>7, <1>8 DEF Carried

\* A data segment carries bytes that the application has handed over, whether
\* they are sent for the first time or again.
LEMMA DataSegment ==
  ASSUME IInv, TxFilled, Numbered, ShortStreams
  PROVE  Carried(tx_data_segment(fs, txbuf), LocalIsn, RemoteIsn, hist.head, hist.rcvd)
<1> DEFINE n == tx_seglen(fs)
           data == tx_read(txbuf, fs.tx_next_pos, n)
           s == hist.acked + fs.tx_sent
           u == tx_unsent(fs, fs.tx_head)
<1>1. /\ FlowOK(fs) /\ fs \in FlowState /\ txbuf \in [0 .. TxLen - 1 -> Int]
  BY DEF IInv, TypeOK
<1>2. /\ hist.acked \in Nat /\ hist.rcvd \in Nat /\ hist.head \in Nat
      /\ fs.tx_sent \in Nat /\ u \in Nat /\ fs.tx_sent + u < TxLen
      /\ s \in Nat /\ s + u <= hist.head /\ hist.head <= hist.alloc
      /\ hist.alloc \in Nat /\ hist.alloc < SeqMod
  <2>1. fs.tx_sent \in Nat /\ u \in Nat
    BY <1>1, FlowRanges, UnsentRange, Constants
  <2>2. unacked(fs) = fs.tx_sent + u
    BY DEF unacked
  <2> HIDE DEF u
  <2>3. /\ hist.acked \in Nat /\ hist.rcvd \in Nat /\ hist.head \in Nat
        /\ hist.alloc \in Nat /\ unacked(fs) < TxLen
        /\ hist.acked + unacked(fs) <= hist.head /\ hist.head <= hist.alloc
    BY Ranges
  <2>4. hist.alloc <= MaxSend /\ MaxSend < SeqMod /\ MaxSend \in Nat
    BY FastFlowAssumption DEF Numbered, ShortStreams
  <2> QED BY <2>1, <2>2, <2>3, <2>4, Constants
<1>3. n \in Nat /\ n <= u /\ n < LenMod
  <2>1. tcp_txavail(fs, fs.tx_head) \in Nat
    BY <1>1, TxavailNat
  <2>2. U32(fs.rx_remote_avail - fs.tx_sent) \in Nat
    BY <1>1, FlowRanges, Constants DEF U32
  <2>3. tcp_txavail(fs, fs.tx_head) <= u
    BY <1>2, <2>2 DEF tcp_txavail, MinOf
  <2> HIDE DEF u
  <2>4. n = MinOf(tcp_txavail(fs, fs.tx_head), MSS)
    BY DEF tx_seglen
  <2> QED BY <1>2, <2>1, <2>3, <2>4, Constants DEF MinOf
<1> HIDE DEF n
<1>4. ASSUME NEW j \in 1 .. n PROVE data[j] = s + j - 1 /\ data[j] \in Int
  <2> DEFINE i == s + j - 1
             w == i - hist.acked
  <2>1. i \in hist.acked .. hist.alloc - 1 /\ w = fs.tx_sent + (j - 1)
    BY <1>2, <1>3
  <2>2. txbuf[CircFwd(first_pos(fs), i - hist.acked, TxLen)] = i
    BY <2>1 DEF TxFilled
  <2>3. /\ first_pos(fs) \in 0 .. TxLen - 1
        /\ CircFwd(first_pos(fs), fs.tx_sent, TxLen) = fs.tx_next_pos
    BY <1>1, FirstRange
  <2>4. /\ fs.tx_sent \in 0 .. TxLen /\ j - 1 \in 0 .. TxLen
        /\ fs.tx_sent + (j - 1) <= TxLen
    BY <1>2, <1>3, Constants
  <2>5. CircFwd(CircFwd(first_pos(fs), fs.tx_sent, TxLen), j - 1, TxLen)
          = CircFwd(first_pos(fs), fs.tx_sent + (j - 1), TxLen)
    BY <2>3, <2>4, Constants, CircFwdFwd
  <2>6. data[j] = txbuf[CircFwd(fs.tx_next_pos, j - 1, TxLen)]
    BY DEF tx_read
  <2>7. data[j] = i
    BY <2>1, <2>2, <2>3, <2>5, <2>6
  <2> QED BY <1>2, <2>7
<1>5. data \in Seq(Int) /\ Len(data) = n
  <2>1. data = [i \in 1 .. n |-> txbuf[CircFwd(fs.tx_next_pos, i - 1, TxLen)]]
    BY DEF tx_read
  <2> HIDE DEF s
  <2>2. \A j \in 1 .. n : data[j] \in Int
    BY <1>4
  <2> QED BY <1>3, <2>1, <2>2
<1> HIDE DEF data
<1>6. PICK q : q = tx_data_segment(fs, txbuf)
  OBVIOUS
<1>7. q = Segment("ack", fs.tx_next_seq, fs.rx_next_seq, wnd_field(fs), data)
  BY <1>6 DEF tx_data_segment, data, n
<1>8. /\ q \in Segments /\ q.data = data /\ q.seq = fs.tx_next_seq
      /\ Acknowledges(q, RemoteIsn, hist.rcvd)
  BY <1>1, <1>2, <1>5, <1>7, SegmentHeader DEF Numbered
<1>9. Carries(q, LocalIsn, hist.head)
  <2>1. fs.tx_next_seq = U32(LocalIsn + s)
    <3>1. hist.acked + fs.tx_sent < SeqMod
      BY <1>2, Constants
    <3>2. base_seq(fs) = U32(LocalIsn + hist.acked)
      BY DEF Numbered
    <3> QED BY <1>1, <1>2, <3>1, <3>2, NextNumber
  <2>2. s + Len(q.data) <= hist.head
    BY <1>2, <1>3, <1>5, <1>8
  <2>3. \A j \in 1 .. Len(q.data) : q.data[j] = s + j - 1
    BY <1>4, <1>5, <1>8
  <2> HIDE DEF s
  <2> QED BY <1>2, <1>8, <2>1, <2>2, <2>3 DEF Carries
<1>10. Len(q.data) < LenMod
  BY <1>3, <1>5, <1>8
<1> QED BY <1>6, <1>8, <1>9, <1>10 DEF Carried

LEMMA EndInit == ASSUME InitWith("open") PROVE End(0, 0)
<1>1. IInv /\ TxFilled /\ RxHeld /\ \A k \in Nat : ~InOoo(fs, k)
  BY InitWithIInv, InitTxFilled, InitRxHeld
<1>2. /\ fs.rx_next_seq = RemoteIsn /\ fs.tx_next_seq = LocalIsn /\ fs.tx_sent = 0
      /\ fs.rx_avail = RxLen
      /\ hist.rcvd = 0 /\ hist.acked = 0 /\ hist.head = 0 /\ hist.alloc = 0
  BY DEF InitWith, FlowInit
<1>3. /\ U32(RemoteIsn + 0) = RemoteIsn /\ U32(LocalIsn + 0) = LocalIsn
      /\ U32(LocalIsn - 0) = LocalIsn
  BY IsnRange, Constants DEF U32, SeqNo
<1>4. nic_tail = 0
  BY <1>2, Constants DEF nic_tail
<1>5. Numbered
  <2>1. base_seq(fs) = U32(LocalIsn - 0)
    BY <1>2, Zenon DEF base_seq
  <2>2. fs.rx_next_seq = U32(RemoteIsn + hist.rcvd)
    BY <1>2, <1>3
  <2>3. base_seq(fs) = U32(LocalIsn + hist.acked)
    BY <1>2, <1>3, <2>1
  <2>4. 0 <= nic_tail /\ hist.alloc <= MaxSend
    BY <1>2, <1>4, FastFlowAssumption
  <2> QED BY <2>2, <2>3, <2>4 DEF Numbered
<1>6. Below(0)
  BY <1>1, <1>2 DEF Below
<1>7. hist.acked <= 0 /\ 0 <= hist.head
  BY <1>2
<1> QED BY <1>1, <1>5, <1>6, <1>7 DEF End

\* The peer may hand over and receive more.
LEMMA EndMore ==
  ASSUME NEW h \in Nat, NEW r \in Nat, End(h, r), NEW m \in Nat, NEW s \in Nat,
         h <= m, r <= s, s <= hist.head
  PROVE  End(m, s)
<1>1. IInv /\ TxFilled /\ RxHeld /\ Numbered /\ Below(h) /\ hist.acked <= r
  BY DEF End
<1>2. hist.rcvd \in Nat /\ hist.acked \in Nat
  BY <1>1, Ranges
<1>3. Below(m)
  <2>1. hist.rcvd <= h /\ \A k \in Nat : InOoo(fs, k) => hist.rcvd + k < h
    BY <1>1 DEF Below
  <2> QED BY <1>2, <2>1 DEF Below
<1>4. hist.acked <= s
  BY <1>1, <1>2
<1> QED BY <1>1, <1>3, <1>4 DEF End

\* A step that receives nothing and sees nothing acknowledged.
LEMMA EndFrame ==
  ASSUME NEW h \in Nat, NEW r \in Nat, End(h, r), IInv', TxFilled', RxHeld',
         fs'.rx_next_seq = fs.rx_next_seq, fs.rx_avail <= fs'.rx_avail,
         fs'.rx_ooo_start = fs.rx_ooo_start, fs'.rx_ooo_len = fs.rx_ooo_len,
         base_seq(fs') = base_seq(fs), hist'.rcvd = hist.rcvd,
         hist'.acked = hist.acked, hist.head <= hist'.head, hist'.head \in Nat,
         hist'.alloc <= MaxSend
  PROVE  End(h, r)'
<1>1. IInv /\ Numbered /\ Below(h) /\ hist.acked <= r /\ r <= hist.head
  BY DEF End
<1>2. hist.rcvd \in Nat /\ fs.rx_avail \in Nat /\ fs'.rx_avail \in Nat
      /\ hist.head \in Nat
  BY <1>1, Ranges, FlowRanges DEF IInv, TypeOK
<1>3. Below(h)'
  <2>1. \A k : InOoo(fs', k) <=> InOoo(fs, k)
    BY DEF InOoo
  <2> QED BY <1>1, <2>1 DEF Below
<1>4. 0 <= nic_tail'
  <2>1. 0 <= nic_tail
    BY <1>1 DEF Numbered
  <2> QED BY <1>2, <2>1, Constants DEF nic_tail
<1>5. Numbered'
  BY <1>1, <1>4 DEF Numbered
<1>6. hist'.acked <= r /\ r <= hist'.head
  BY <1>1, <1>2
<1> QED BY <1>3, <1>5, <1>6 DEF End

\* The ack that an end in order sends after a step.
LEMMA EndSendsAck ==
  ASSUME NEW h, NEW r, End(h, r)', ShortStreams
  PROVE  Carried(tx_ack_segment(fs'), LocalIsn, RemoteIsn, hist'.head, hist'.rcvd)
<1>1. /\ FlowOK(fs') /\ fs' \in FlowState /\ hist' \in Indices
      /\ nic_head' <= hist'.head /\ hist'.head <= hist'.alloc
      /\ hist'.alloc <= MaxSend
      /\ fs'.rx_next_seq = U32(RemoteIsn + hist'.rcvd)
      /\ base_seq(fs') = U32(LocalIsn + hist'.acked)
  BY DEF End, IInv, TypeOK, TxOrder, Numbered
<1>2. /\ hist'.rcvd \in Nat /\ hist'.acked \in Nat /\ hist'.head \in Nat
      /\ hist'.alloc \in Nat
  BY <1>1 DEF Indices
<1>3. hist'.acked + unacked(fs') <= hist'.head
  <2>1. fs'.tx_sent \in Nat /\ tx_unsent(fs', fs'.tx_head) \in Nat
    BY <1>1, FlowRanges, UnsentRange, Constants
  <2>2. nic_head' = hist'.acked + fs'.tx_sent + tx_unsent(fs', fs'.tx_head)
    BY DEF nic_head
  <2> QED BY <1>1, <1>2, <2>1, <2>2 DEF unacked
<1>4. hist'.head < SeqMod
  <2>1. MaxSend < SeqMod /\ MaxSend \in Nat
    BY FastFlowAssumption DEF ShortStreams
  <2> QED BY <1>1, <1>2, <2>1, Constants
<1>5. PICK g, rc, ac, hd : /\ g = fs' /\ rc = hist'.rcvd
                           /\ ac = hist'.acked /\ hd = hist'.head
  OBVIOUS
<1>6. Carried(tx_ack_segment(g), LocalIsn, RemoteIsn, hd, rc)
  BY <1>1, <1>2, <1>3, <1>4, <1>5, AckSegment
<1> QED BY <1>5, <1>6

\* An end keeps in order, and whatever it sends is of its stream and acknowledges
\* what it has received.  A segment of the peer that can be trimmed:
LEMMA EndPacket ==
  ASSUME NEW h \in Nat, NEW r \in Nat, End(h, r), ShortStreams, h <= MaxRcvd,
         NEW p, Carried(p, RemoteIsn, LocalIsn, h, r),
         ~TrimMisses(fs, p.seq, Len(p.data)), fast_flows_packet(p)
  PROVE  /\ End(h, r)' /\ hist.rcvd <= hist'.rcvd /\ hist'.head = hist.head
         /\ \A q \in packet_sends(p) :
              Carried(q, LocalIsn, RemoteIsn, hist'.head, hist'.rcvd)
<1>1. PICK off : Delivered(p, off) /\ hist.rcvd + off + Len(p.data) <= h
  BY CarriedDelivered
<1>2. /\ IInv /\ TxFilled /\ RxHeld /\ Numbered /\ Below(h)
      /\ hist.acked <= r /\ r <= hist.head /\ fs \in FlowState
      /\ hist \in Indices /\ FlowOK(fs) /\ p \in Segments
  BY <1>1 DEF End, IInv, TypeOK, Delivered
<1>3. IInv' /\ TxFilled' /\ RxHeld'
  BY <1>1, <1>2, PacketStep, TxPacket, RxPacket DEF Delivered
<1>4. MaxRcvd \in Nat /\ MaxRcvd < SeqMod /\ h < SeqMod
  <2>1. MaxRcvd \in Nat /\ MaxRcvd + RxLen < SeqMod
    BY FastFlowAssumption DEF ShortStreams
  <2> QED BY <2>1, Constants
<1>5. /\ hist'.head = hist.head /\ hist'.alloc = hist.alloc
      /\ End(h, r)' /\ hist.rcvd <= hist'.rcvd
  <2>1. CASE slowpath_packet(p)
    <3>1. /\ fs' = [fs EXCEPT !.slowpath = @ \/ p.kind = "other"]
          /\ UNCHANGED hist
      BY <2>1 DEF slowpath_packet
    <3>2. SameRx(fs, fs') /\ base_seq(fs') = base_seq(fs)
      BY <1>2, <3>1 DEF FlowState, SameRx, base_seq
    <3>3. /\ hist.rcvd <= hist'.rcvd /\ hist.head <= hist'.head /\ hist'.head \in Nat
          /\ hist'.alloc <= MaxSend /\ fs.rx_avail <= fs'.rx_avail
      BY <1>2, <3>1, <3>2, Ranges DEF Numbered, SameRx
    <3> QED BY <1>3, <3>1, <3>2, <3>3, EndFrame DEF SameRx
  <2>2. CASE fastpath_packet(p)
    <3>1. /\ hist'.head = hist.head /\ hist'.alloc = hist.alloc
          /\ hist'.acked = hist.acked + tx_bump(fs, p)
          /\ hist'.rcvd = hist.rcvd + (fs.rx_avail - fs'.rx_avail)
      BY <1>2, <2>2 DEF fastpath_packet, Indices
    <3>2. /\ Below(h)' /\ hist.rcvd <= hist'.rcvd
          /\ fs'.rx_next_seq = U32(RemoteIsn + hist'.rcvd)
      BY <1>1, <1>2, <1>4, <2>2, PacketBelow DEF Numbered
    <3>3. /\ hist'.acked <= r
          /\ base_seq(rx_ack(fs, p)) = U32(LocalIsn + hist'.acked)
      BY <3>1, PacketAcked
    <3>4. base_seq(fs') = base_seq(rx_ack(fs, p))
      <4>1. SameTx(rx_ack(fs, p), fs')
        BY <1>1, <1>2, <2>2, FastpathFlow
      <4> QED BY <4>1 DEF SameTx, base_seq
    <3>5. 0 <= nic_tail'
      <4>1. fs'.rx_avail \in Nat /\ fs.rx_avail \in Nat /\ hist.rcvd \in Nat
        BY <1>2, <1>3, FlowRanges DEF IInv, TypeOK, Indices
      <4>2. 0 <= nic_tail
        BY <1>2 DEF Numbered
      <4> QED BY <3>1, <4>1, <4>2, Constants DEF nic_tail
    <3>6. Numbered'
      BY <1>2, <3>1, <3>2, <3>3, <3>4, <3>5 DEF Numbered
    <3> QED BY <1>2, <1>3, <3>1, <3>2, <3>3, <3>6 DEF End
  <2> QED BY <2>1, <2>2 DEF fast_flows_packet
<1>6. Carried(tx_ack_segment(fs'), LocalIsn, RemoteIsn, hist'.head, hist'.rcvd)
  BY <1>5, EndSendsAck
<1> QED BY <1>5, <1>6 DEF packet_sends

LEMMA EndBump ==
  ASSUME NEW h \in Nat, NEW r \in Nat, End(h, r), ShortStreams, flast_flows_bump
  PROVE  /\ End(h, r)' /\ hist' = hist
         /\ \A q \in bump_sends(Head(atx)) :
              Carried(q, LocalIsn, RemoteIsn, hist'.head, hist'.rcvd)
<1>1. /\ IInv /\ TxFilled /\ RxHeld /\ fs \in FlowState /\ hist \in Indices
      /\ hist.alloc <= MaxSend
  BY DEF End, IInv, TypeOK, Numbered
<1>2. IInv' /\ TxFilled' /\ RxHeld' /\ hist' = hist
  BY <1>1, BumpStep, TxFilledStep, RxHeldStep DEF Next, flast_flows_bump
<1>3. /\ fs'.rx_next_seq = fs.rx_next_seq /\ fs'.rx_ooo_start = fs.rx_ooo_start
      /\ fs'.rx_ooo_len = fs.rx_ooo_len
      /\ fs'.tx_next_seq = fs.tx_next_seq /\ fs'.tx_sent = fs.tx_sent
  BY <1>1 DEF flast_flows_bump, flow_bump, FlowState
<1>4. fs.rx_avail <= fs'.rx_avail
  <2>1. fs.rx_avail \in Nat /\ tail_pos(fs) \in 0 .. RxLen - 1
    BY <1>1, Ranges
  <2>2. CASE fs' = fs
    BY <2>1, <2>2
  <2>3. CASE fs' = flow_bump(fs, Head(atx))
    <3> DEFINE x == Head(atx).rx_tail
    <3>1. Head(atx) \in Bump
      BY <1>1 DEF IInv, TypeOK, flast_flows_bump, fast_appctx_poll
    <3>2. x \in 0 .. RxLen - 1
      BY <3>1 DEF Bump
    <3>3. CircDist(tail_pos(fs), x, RxLen) \in 0 .. RxLen - 1
      BY <2>1, <3>2, Constants, CircDistRange
    <3>4. fs'.rx_avail = fs.rx_avail + CircDist(tail_pos(fs), x, RxLen)
      BY <1>1, <2>3 DEF flow_bump, rx_freed, tail_pos, FlowState
    <3> HIDE DEF x
    <3> QED BY <2>1, <3>3, <3>4, Constants
  <2> QED BY <2>2, <2>3 DEF flast_flows_bump
<1>5. base_seq(fs') = base_seq(fs)
  BY <1>3 DEF base_seq
<1>6. hist.head \in Nat /\ hist.head <= hist'.head
  BY <1>1, <1>2 DEF Indices
<1>7. End(h, r)'
  BY <1>1, <1>2, <1>3, <1>4, <1>5, <1>6, EndFrame
<1>8. Carried(tx_ack_segment(fs'), LocalIsn, RemoteIsn, hist'.head, hist'.rcvd)
  BY <1>7, EndSendsAck
<1> QED BY <1>2, <1>7, <1>8 DEF bump_sends

LEMMA EndQman ==
  ASSUME NEW h \in Nat, NEW r \in Nat, End(h, r), ShortStreams, fast_flows_qman
  PROVE  /\ End(h, r)' /\ hist' = hist
         /\ \A q \in qman_sends :
              Carried(q, LocalIsn, RemoteIsn, hist'.head, hist'.rcvd)
<1>1. /\ IInv /\ TxFilled /\ RxHeld /\ Numbered /\ fs \in FlowState
      /\ hist \in Indices /\ FlowOK(fs) /\ hist.alloc <= MaxSend
  BY DEF End, IInv, TypeOK, Numbered
<1>2. IInv' /\ TxFilled' /\ RxHeld' /\ hist' = hist
  BY <1>1, QmanStep, TxFilledStep, RxHeldStep DEF Next, fast_flows_qman
<1> DEFINE n == tx_seglen(fs)
<1>3. fs' = flow_sent(fs, n)
  BY DEF fast_flows_qman
<1>4. SameRx(fs, fs')
  BY <1>1, <1>3, SentFlow
<1>5. base_seq(fs') = base_seq(fs)
  <2>1. n \in Nat /\ n <= MSS
    BY <1>1, SentFlow, Constants DEF MinOf
  <2>2. /\ fs.tx_next_seq \in SeqNo /\ fs.tx_sent \in Nat /\ fs.tx_sent < TxLen
    BY <1>1, FlowRanges DEF FlowState
  <2>3. /\ fs'.tx_next_seq = U32(fs.tx_next_seq + n) /\ fs'.tx_sent = fs.tx_sent + n
    BY <1>1, <1>3 DEF FlowState, flow_sent
  <2>4. fs.tx_sent + n < TxLen
    <3>1. fs' \in FlowState
      BY <1>2 DEF IInv, TypeOK
    <3> QED BY <2>3, <3>1, FlowRanges
  <2> HIDE DEF n
  <2>5. U32(U32(fs.tx_next_seq + n) - (fs.tx_sent + n)) = U32(fs.tx_next_seq - fs.tx_sent)
    BY <2>1, <2>2, <2>4, Constants DEF U32, SeqNo
  <2> QED BY <2>3, <2>5 DEF base_seq
<1>6. /\ hist.head \in Nat /\ hist.head <= hist'.head /\ fs.rx_avail <= fs'.rx_avail
  BY <1>1, <1>2, <1>4, FlowRanges DEF Indices, SameRx
<1>7. End(h, r)'
  BY <1>1, <1>2, <1>4, <1>5, <1>6, EndFrame DEF SameRx
<1>8. Carried(tx_data_segment(fs, txbuf), LocalIsn, RemoteIsn, hist.head, hist.rcvd)
  BY <1>1, DataSegment
<1> QED BY <1>2, <1>7, <1>8 DEF qman_sends

LEMMA EndRexmit ==
  ASSUME NEW h \in Nat, NEW r \in Nat, End(h, r), ShortStreams, fast_flows_retransmit
  PROVE  End(h, r)' /\ hist' = hist
<1>1. /\ IInv /\ TxFilled /\ RxHeld /\ fs \in FlowState
      /\ hist \in Indices /\ FlowOK(fs) /\ hist.alloc <= MaxSend
  BY DEF End, IInv, TypeOK, Numbered
<1>2. IInv' /\ TxFilled' /\ RxHeld' /\ hist' = hist
  BY <1>1, RetransmitStep, TxFilledStep, RxHeldStep DEF Next, fast_flows_retransmit
<1>3. fs' = flow_reset_retransmit(fs)
  BY DEF fast_flows_retransmit
<1>4. SameRx(fs, fs')
  BY <1>1, <1>3, ResetFlow
<1>5. base_seq(fs') = base_seq(fs)
  <2>1. fs'.tx_sent = 0 /\ fs'.tx_next_seq = base_seq(fs)
    BY <1>1, <1>3 DEF FlowState, flow_reset_retransmit, base_seq
  <2>2. base_seq(fs) \in SeqNo
    <3>1. /\ fs.tx_next_seq \in SeqNo /\ fs.tx_sent \in Nat /\ fs.tx_sent < TxLen
      BY <1>1, FlowRanges DEF FlowState
    <3> QED BY <3>1, Constants DEF base_seq, U32, SeqNo
  <2>3. U32(base_seq(fs) - 0) = base_seq(fs)
    BY <2>2, Constants DEF U32, SeqNo
  <2>4. base_seq(fs') = U32(base_seq(fs) - 0)
    BY <2>1, Zenon DEF base_seq
  <2> QED BY <2>3, <2>4
<1>6. /\ hist.head \in Nat /\ hist.head <= hist'.head /\ fs.rx_avail <= fs'.rx_avail
  BY <1>1, <1>2, <1>4, FlowRanges DEF Indices, SameRx
<1> QED BY <1>1, <1>2, <1>4, <1>5, <1>6, EndFrame DEF SameRx

LEMMA EndLibrary ==
  ASSUME NEW h \in Nat, NEW r \in Nat, End(h, r), ShortStreams, Library
  PROVE  /\ End(h, r)' /\ hist'.rcvd = hist.rcvd /\ hist.head <= hist'.head
         /\ hist'.head \in Nat
<1>1. /\ IInv /\ TxFilled /\ RxHeld /\ fs \in FlowState
      /\ hist \in Indices /\ hist.alloc <= MaxSend
  BY DEF End, IInv, TypeOK, Numbered
<1>2. IInv' /\ TxFilled' /\ RxHeld'
  BY <1>1, LibraryStep, TxFilledStep, RxHeldStep DEF Next
<1>3. fs' = fs
  BY DEF Library, context_poll, event_arx_connupdate, conns_bump,
         connection_rx_done, connection_tx_alloc, connection_tx_send
<1>4. /\ hist'.rcvd = hist.rcvd /\ hist'.acked = hist.acked
      /\ hist.head <= hist'.head /\ hist'.head \in Nat /\ hist'.alloc <= MaxSend
  <2>1. hist.head \in Nat /\ hist.alloc \in Nat
    BY <1>1 DEF Indices
  <2>2. CASE context_poll \/ conns_bump
    BY <1>1, <2>1, <2>2 DEF context_poll, conns_bump
  <2>3. CASE event_arx_connupdate
    BY <1>1, <2>1, <2>3 DEF event_arx_connupdate, Indices
  <2>4. ASSUME NEW len \in RxChunks, connection_rx_done(len)
        PROVE  /\ hist'.rcvd = hist.rcvd /\ hist'.acked = hist.acked
               /\ hist.head <= hist'.head /\ hist'.head \in Nat
               /\ hist'.alloc <= MaxSend
    BY <1>1, <2>1, <2>4 DEF connection_rx_done, Indices
  <2>5. ASSUME NEW len \in TxChunks, connection_tx_send(len)
        PROVE  /\ hist'.rcvd = hist.rcvd /\ hist'.acked = hist.acked
               /\ hist.head <= hist'.head /\ hist'.head \in Nat
               /\ hist'.alloc <= MaxSend
    <3>1. /\ hist'.rcvd = hist.rcvd /\ hist'.acked = hist.acked
          /\ hist'.head = hist.head + len /\ hist'.alloc = hist.alloc
      BY <1>1, <2>5 DEF connection_tx_send, Indices
    <3>2. len \in Nat
      BY FastFlowAssumption
    <3> QED BY <1>1, <2>1, <3>1, <3>2
  <2>6. ASSUME NEW len \in TxChunks, NEW pieces \in {1, 2},
               connection_tx_alloc(len, pieces)
        PROVE  /\ hist'.rcvd = hist.rcvd /\ hist'.acked = hist.acked
               /\ hist.head <= hist'.head /\ hist'.head \in Nat
               /\ hist'.alloc <= MaxSend
    <3>1. /\ hist'.rcvd = hist.rcvd /\ hist'.acked = hist.acked
          /\ hist'.head = hist.head /\ hist'.alloc <= MaxSend
      BY <1>1, <2>6 DEF connection_tx_alloc, Indices
    <3> QED BY <2>1, <3>1
  <2> QED BY <2>2, <2>3, <2>4, <2>5, <2>6 DEF Library
<1>5. fs.rx_avail <= fs'.rx_avail
  BY <1>1, <1>3, FlowRanges
<1>6. base_seq(fs') = base_seq(fs)
  BY <1>3
<1> QED BY <1>2, <1>3, <1>4, <1>5, <1>6, EndFrame

\* No segment hits the input on which the trimming goes wrong when the stream
\* stays below the wrap of its numbers, or starts so close to it that the receive
\* buffer reaches across from the beginning.
WindowCovers == RemoteIsn + MaxRcvd < SeqMod \/ RemoteIsn + RxLen >= SeqMod

LEMMA NeverMisses ==
  ASSUME NEW h \in Nat, NEW r, End(h, r), ShortStreams, WindowCovers, h <= MaxRcvd,
         NEW p, Carried(p, RemoteIsn, LocalIsn, h, r)
  PROVE  ~TrimMisses(fs, p.seq, Len(p.data))
<1>1. p \in Segments /\ Len(p.data) < LenMod /\ Carries(p, RemoteIsn, h)
  BY DEF Carried
<1>2. PICK s \in Nat, n \in Nat, x \in SeqNo :
        /\ n = Len(p.data) /\ n < LenMod /\ x = p.seq
        /\ x = U32(RemoteIsn + s) /\ s + n <= h
  BY <1>1 DEF Carries, Segments
<1>3. PICK c \in Nat, a \in Nat, y \in SeqNo :
        /\ c = hist.rcvd /\ c <= h /\ a = fs.rx_avail /\ a <= RxLen /\ RxLen <= c + a
        /\ y = fs.rx_next_seq /\ y = U32(RemoteIsn + c)
  <2>1. IInv /\ hist.rcvd <= h /\ 0 <= nic_tail
           /\ fs.rx_next_seq = U32(RemoteIsn + hist.rcvd)
    BY DEF End, Below, Numbered
  <2>2. /\ hist.rcvd \in Nat /\ fs.rx_avail \in Nat /\ fs.rx_avail <= RxLen
        /\ nic_tail = hist.rcvd + fs.rx_avail - RxLen
    BY <2>1, Ranges
  <2>3. RxLen <= hist.rcvd + fs.rx_avail
    BY <2>1, <2>2, Constants
  <2>4. fs.rx_next_seq \in SeqNo
    BY <2>1 DEF IInv, TypeOK, FlowState
  <2> QED BY <2>1, <2>2, <2>3, <2>4
<1>4. /\ MaxRcvd \in Nat /\ MaxRcvd + RxLen < SeqMod /\ MaxRcvd + LenMod <= SeqMod
      /\ RemoteIsn \in SeqNo /\ RemoteIsn \in Nat /\ RemoteIsn < SeqMod
      /\ RemoteIsn + MaxRcvd < SeqMod \/ RemoteIsn + RxLen >= SeqMod
  BY IsnRange, FastFlowAssumption, Constants DEF ShortStreams, WindowCovers, SeqNo
<1>5. U16(n) = n
  BY <1>2, U16Range
<1> SUFFICES ASSUME x > U32(x + n), y < x, x <= y + a, y + a < SeqMod
             PROVE  FALSE
  BY <1>2, <1>3, <1>5 DEF TrimMisses
<1>6. CASE RemoteIsn + s < SeqMod
  <2>0. x = RemoteIsn + s
    BY <1>2, <1>4, <1>6, Constants DEF U32
  <2>1. x = RemoteIsn + s /\ x + n >= SeqMod
    <3>1. CASE x + n < SeqMod
      <4>1. U32(x + n) = x + n
        BY <1>4, <2>0, <3>1, Constants DEF U32
      <4> QED BY <1>4, <2>0, <4>1
    <3> QED BY <1>4, <2>0, <3>1, Constants
  <2>2. RemoteIsn + MaxRcvd >= SeqMod
    BY <1>2, <1>4, <2>1, Constants DEF SeqNo
  <2>3. RemoteIsn + RxLen >= SeqMod
    BY <1>4, <2>2, Constants
  <2>4. CASE RemoteIsn + c < SeqMod
    <3>1. y = RemoteIsn + c
      BY <1>3, <1>4, <2>4, Constants DEF U32, SeqNo
    <3> QED BY <1>3, <1>4, <2>3, <3>1, Constants DEF SeqNo
  <2>5. CASE RemoteIsn + c >= SeqMod
    <3>1. y = RemoteIsn + c - SeqMod
      BY <1>3, <1>4, <2>5, Constants DEF U32, SeqNo
    <3>2. c + a < SeqMod
      BY <1>3, <1>4, Constants
    <3>3. RemoteIsn + s <= (RemoteIsn + c - SeqMod) + a
      BY <1>2, <2>1, <3>1
    <3>4. s + SeqMod <= c + a
      BY <1>4, <3>3, Constants
    <3> QED BY <3>2, <3>4, Constants
  <2> QED BY <1>3, <1>4, <2>4, <2>5, Constants DEF SeqNo
<1>7. CASE RemoteIsn + s >= SeqMod
  <2>1. x = RemoteIsn + s - SeqMod
    BY <1>2, <1>4, <1>7, Constants DEF U32, SeqNo
  <2>2. x + n < SeqMod
    BY <1>2, <1>4, <2>1, Constants DEF SeqNo
  <2> QED BY <1>2, <2>1, <2>2, Constants DEF U32, SeqNo
<1> QED BY <1>2, <1>4, <1>6, <1>7, Constants DEF SeqNo

LEMMA EndStutter ==
  ASSUME NEW h \in Nat, NEW r \in Nat, End(h, r), UNCHANGED vars
  PROVE  End(h, r)'
<1>1. /\ IInv /\ TxFilled /\ RxHeld /\ fs \in FlowState /\ hist \in Indices
      /\ hist.alloc <= MaxSend
  BY DEF End, IInv, TypeOK, Numbered
<1>2. fs' = fs /\ hist' = hist
  BY DEF vars
<1>3. IInv' /\ TxFilled' /\ RxHeld'
  BY <1>1, StutterStep, TxFilledStep, RxHeldStep
<1>4. hist.head \in Nat /\ hist.head <= hist.head /\ fs.rx_avail <= fs.rx_avail
  BY <1>1, FlowRanges DEF Indices
<1> QED BY <1>1, <1>2, <1>3, <1>4, EndFrame

\* What an end in order tells of itself.
LEMMA EndFacts ==
  ASSUME NEW h, NEW r, End(h, r)
  PROVE  /\ hist.head \in Nat /\ hist.rcvd \in Nat /\ hist.acked \in Nat
         /\ hist.head <= MaxSend /\ hist.rcvd <= h
         /\ hist.acked <= r /\ r <= hist.head /\ RxContent
<1>1. IInv /\ RxHeld /\ Numbered /\ Below(h) /\ hist.acked <= r /\ r <= hist.head
  BY DEF End
<1>2. /\ hist.head \in Nat /\ hist.rcvd \in Nat /\ hist.acked \in Nat
      /\ hist.alloc \in Nat /\ hist.head <= hist.alloc
  BY <1>1, Ranges
<1>3. hist.head <= MaxSend
  BY <1>1, <1>2, FastFlowAssumption DEF Numbered
<1> QED BY <1>1, <1>2, <1>3, HeldContent DEF Below

\* A segment in the network stays one that may be there.
LEMMA CarriedMore ==
  ASSUME NEW p, NEW i, NEW j, NEW h \in Nat, NEW r \in Nat, NEW m \in Nat, NEW s \in Nat,
         Carried(p, i, j, h, r), h <= m, r <= s
  PROVE  Carried(p, i, j, m, s)
<1>1. p \in Segments /\ Len(p.data) < LenMod
  BY DEF Carried
<1>2. Len(p.data) \in Nat
  BY <1>1 DEF Segments
<1>3. Carries(p, i, m)
  <2>1. PICK b \in Nat : /\ p.seq = U32(i + b) /\ b + Len(p.data) <= h
                         /\ \A k \in 1 .. Len(p.data) : p.data[k] = b + k - 1
    BY DEF Carried, Carries
  <2>2. b + Len(p.data) <= m
    BY <1>2, <2>1
  <2> QED BY <2>1, <2>2 DEF Carries
<1>4. Acknowledges(p, j, s)
  <2>1. PICK k \in Nat : p.ack = U32(j + k) /\ k <= r
    BY DEF Carried, Acknowledges
  <2>2. k <= s
    BY <2>1
  <2> QED BY <2>1, <2>2 DEF Acknowledges
<1> QED BY <1>1, <1>3, <1>4 DEF Carried
=============================================================================
