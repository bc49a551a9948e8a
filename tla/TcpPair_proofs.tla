--------------------------- MODULE TcpPair_proofs ---------------------------
(***************************************************************************)
(* The byte stream service of TcpPair, for every size of buffers, queues,  *)
(* segments and network, and any two streams shorter than the sequence     *)
(* number space: StreamIntact and AckedIsReceived.                         *)
(*                                                                         *)
(* What each end keeps in order when any segment of the peer's stream may  *)
(* arrive is proved in FastFlow_proofs.  What is left to show is that the  *)
(* segments that the ends exchange are such segments, however old they     *)
(* are: each carries bytes that its sender's application has handed over,  *)
(* at their place in the stream, and acknowledges at most what its sender  *)
(* has received.  That holds of a segment when it is sent, and stays true  *)
(* while it is in the network, since both numbers only grow.               *)
(*                                                                         *)
(* The one exception is a segment on which tcp_trim_rxbuf goes wrong, see  *)
(* TrimMisses.                                                             *)
(***************************************************************************)
EXTENDS TcpPair, TLAPS

AP == INSTANCE FastFlow_proofs WITH
        ArxLen <- ArxA, LocalIsn <- IsnA, RemoteIsn <- IsnB,
        MaxSend <- SendA, MaxRcvd <- SendB,
        Offsets <- {}, Lens <- {}, Acks <- {}, Windows <- {},
        fs <- aFs, conn <- aConn, kout <- aKout, arx <- aArx, atx <- aAtx,
        qm <- aQm, txbuf <- aTxbuf, rxbuf <- aRxbuf, hist <- aHist

BP == INSTANCE FastFlow_proofs WITH
        ArxLen <- ArxB, LocalIsn <- IsnB, RemoteIsn <- IsnA,
        MaxSend <- SendB, MaxRcvd <- SendA,
        Offsets <- {}, Lens <- {}, Acks <- {}, Windows <- {},
        fs <- bFs, conn <- bConn, kout <- bKout, arx <- bArx, atx <- bAtx,
        qm <- bQm, txbuf <- bTxbuf, rxbuf <- bRxbuf, hist <- bHist

LEMMA EndAssumptions ==
  /\ AP!TcpCommonAssumption /\ AP!FastFlowAssumption /\ AP!SegmentLifetime
  /\ BP!TcpCommonAssumption /\ BP!FastFlowAssumption /\ BP!SegmentLifetime
  /\ AP!ShortStreams /\ BP!ShortStreams
<1>1. /\ SendA + RxLen < SeqMod /\ SendA + LenMod <= SeqMod
      /\ SendB + RxLen < SeqMod /\ SendB + LenMod <= SeqMod
  BY StreamsAssumption
<1>2. SendA < SeqMod /\ SendB < SeqMod
  BY <1>1, PairAssumption
<1>3. AP!TcpCommonAssumption /\ BP!TcpCommonAssumption
  BY PairAssumption DEF AP!TcpCommonAssumption, BP!TcpCommonAssumption
<1>4. AP!FastFlowAssumption /\ BP!FastFlowAssumption
  BY PairAssumption DEF AP!FastFlowAssumption, BP!FastFlowAssumption
<1>5. AP!SegmentLifetime /\ BP!SegmentLifetime
  BY DEF AP!SegmentLifetime, BP!SegmentLifetime
<1>6. AP!ShortStreams /\ BP!ShortStreams
  BY <1>1, <1>2 DEF AP!ShortStreams, BP!ShortStreams
<1> QED BY <1>3, <1>4, <1>5, <1>6

LEMMA SameArith ==
  /\ \A kind, seq, ack, wnd, data : /\ A!Segment(kind, seq, ack, wnd, data) = AP!Segment(kind, seq, ack, wnd, data)
                                    /\ B!Segment(kind, seq, ack, wnd, data) = BP!Segment(kind, seq, ack, wnd, data)
  /\ \A x : /\ A!U32(x) = AP!U32(x)
            /\ B!U32(x) = BP!U32(x)
  /\ \A x : /\ A!U16(x) = AP!U16(x)
            /\ B!U16(x) = BP!U16(x)
  /\ \A x, y : /\ A!MinOf(x, y) = AP!MinOf(x, y)
               /\ B!MinOf(x, y) = BP!MinOf(x, y)
  /\ \A p, q, n : /\ A!CircDist(p, q, n) = AP!CircDist(p, q, n)
                  /\ B!CircDist(p, q, n) = BP!CircDist(p, q, n)
  /\ \A p, d, n : /\ A!CircFwd(p, d, n) = AP!CircFwd(p, d, n)
                  /\ B!CircFwd(p, d, n) = BP!CircFwd(p, d, n)
  /\ \A p, d, n : /\ A!CircBack(p, d, n) = AP!CircBack(p, d, n)
                  /\ B!CircBack(p, d, n) = BP!CircBack(p, d, n)
<1>1. \A kind, seq, ack, wnd, data : /\ A!Segment(kind, seq, ack, wnd, data) = AP!Segment(kind, seq, ack, wnd, data)
                                     /\ B!Segment(kind, seq, ack, wnd, data) = BP!Segment(kind, seq, ack, wnd, data)
  BY DEF A!Segment, AP!Segment, B!Segment, BP!Segment
<1>2. \A x : /\ A!U32(x) = AP!U32(x)
             /\ B!U32(x) = BP!U32(x)
  BY DEF A!U32, AP!U32, B!U32, BP!U32
<1>3. \A x : /\ A!U16(x) = AP!U16(x)
             /\ B!U16(x) = BP!U16(x)
  BY DEF A!U16, AP!U16, B!U16, BP!U16
<1>4. \A x, y : /\ A!MinOf(x, y) = AP!MinOf(x, y)
                /\ B!MinOf(x, y) = BP!MinOf(x, y)
  BY DEF A!MinOf, AP!MinOf, B!MinOf, BP!MinOf
<1>5. \A p, q, n : /\ A!CircDist(p, q, n) = AP!CircDist(p, q, n)
                   /\ B!CircDist(p, q, n) = BP!CircDist(p, q, n)
  BY DEF A!CircDist, AP!CircDist, B!CircDist, BP!CircDist
<1>6. \A p, d, n : /\ A!CircFwd(p, d, n) = AP!CircFwd(p, d, n)
                   /\ B!CircFwd(p, d, n) = BP!CircFwd(p, d, n)
  BY DEF A!CircFwd, AP!CircFwd, B!CircFwd, BP!CircFwd
<1>7. \A p, d, n : /\ A!CircBack(p, d, n) = AP!CircBack(p, d, n)
                   /\ B!CircBack(p, d, n) = BP!CircBack(p, d, n)
  BY DEF A!CircBack, AP!CircBack, B!CircBack, BP!CircBack
<1> QED BY <1>1, <1>2, <1>3, <1>4, <1>5, <1>6, <1>7

LEMMA SameNumbers ==
  /\ \A f, head : /\ A!tx_unsent(f, head) = AP!tx_unsent(f, head)
                  /\ B!tx_unsent(f, head) = BP!tx_unsent(f, head)
  /\ \A f, head : /\ A!tcp_txavail(f, head) = AP!tcp_txavail(f, head)
                  /\ B!tcp_txavail(f, head) = BP!tcp_txavail(f, head)
  /\ \A f, ack : /\ A!rxack_bump(f, ack) = AP!rxack_bump(f, ack)
                 /\ B!rxack_bump(f, ack) = BP!rxack_bump(f, ack)
  /\ \A f, ack : /\ A!tcp_valid_rxack(f, ack) <=> AP!tcp_valid_rxack(f, ack)
                 /\ B!tcp_valid_rxack(f, ack) <=> BP!tcp_valid_rxack(f, ack)
  /\ \A f, pkt_seq, pkt_bytes : /\ A!tcp_trim_rxbuf(f, pkt_seq, pkt_bytes) = AP!tcp_trim_rxbuf(f, pkt_seq, pkt_bytes)
                                /\ B!tcp_trim_rxbuf(f, pkt_seq, pkt_bytes) = BP!tcp_trim_rxbuf(f, pkt_seq, pkt_bytes)
  /\ \A f, pkt_seq, pkt_bytes : /\ A!TrimMisses(f, pkt_seq, pkt_bytes) <=> AP!TrimMisses(f, pkt_seq, pkt_bytes)
                                /\ B!TrimMisses(f, pkt_seq, pkt_bytes) <=> BP!TrimMisses(f, pkt_seq, pkt_bytes)
<1>1. \A f, head : /\ A!tx_unsent(f, head) = AP!tx_unsent(f, head)
                   /\ B!tx_unsent(f, head) = BP!tx_unsent(f, head)
  BY SameArith DEF A!tx_unsent, AP!tx_unsent, B!tx_unsent, BP!tx_unsent
<1>2. \A f, head : /\ A!tcp_txavail(f, head) = AP!tcp_txavail(f, head)
                   /\ B!tcp_txavail(f, head) = BP!tcp_txavail(f, head)
  BY SameArith, <1>1 DEF A!tcp_txavail, AP!tcp_txavail, B!tcp_txavail, BP!tcp_txavail
<1>3. \A f, ack : /\ A!rxack_bump(f, ack) = AP!rxack_bump(f, ack)
                  /\ B!rxack_bump(f, ack) = BP!rxack_bump(f, ack)
  BY SameArith DEF A!rxack_bump, AP!rxack_bump, B!rxack_bump, BP!rxack_bump
<1>4. \A f, ack : /\ A!tcp_valid_rxack(f, ack) <=> AP!tcp_valid_rxack(f, ack)
                  /\ B!tcp_valid_rxack(f, ack) <=> BP!tcp_valid_rxack(f, ack)
  BY SameArith, <1>1 DEF A!tcp_valid_rxack, AP!tcp_valid_rxack, B!tcp_valid_rxack, BP!tcp_valid_rxack
<1>5. \A f, pkt_seq, pkt_bytes : /\ A!tcp_trim_rxbuf(f, pkt_seq, pkt_bytes) = AP!tcp_trim_rxbuf(f, pkt_seq, pkt_bytes)
                                 /\ B!tcp_trim_rxbuf(f, pkt_seq, pkt_bytes) = BP!tcp_trim_rxbuf(f, pkt_seq, pkt_bytes)
  <2> SUFFICES ASSUME NEW f, NEW pkt_seq, NEW pkt_bytes
               PROVE  A!tcp_trim_rxbuf(f, pkt_seq, pkt_bytes) = AP!tcp_trim_rxbuf(f, pkt_seq, pkt_bytes)
                      /\ B!tcp_trim_rxbuf(f, pkt_seq, pkt_bytes) = BP!tcp_trim_rxbuf(f, pkt_seq, pkt_bytes)
    OBVIOUS
  <2>1. A!tcp_trim_rxbuf(f, pkt_seq, pkt_bytes) = AP!tcp_trim_rxbuf(f, pkt_seq, pkt_bytes)
    BY DEF A!U16, AP!U16, A!U32, AP!U32, A!tcp_trim_rxbuf, AP!tcp_trim_rxbuf
  <2>2. B!tcp_trim_rxbuf(f, pkt_seq, pkt_bytes) = BP!tcp_trim_rxbuf(f, pkt_seq, pkt_bytes)
    BY DEF B!U16, BP!U16, B!U32, BP!U32, B!tcp_trim_rxbuf, BP!tcp_trim_rxbuf
  <2> QED BY <2>1, <2>2
<1>6. \A f, pkt_seq, pkt_bytes : /\ A!TrimMisses(f, pkt_seq, pkt_bytes) <=> AP!TrimMisses(f, pkt_seq, pkt_bytes)
                                 /\ B!TrimMisses(f, pkt_seq, pkt_bytes) <=> BP!TrimMisses(f, pkt_seq, pkt_bytes)
  BY SameArith DEF A!TrimMisses, AP!TrimMisses, B!TrimMisses, BP!TrimMisses
<1> QED BY <1>1, <1>2, <1>3, <1>4, <1>5, <1>6

LEMMA SameAcks ==
  /\ \A f, p : /\ A!ack_valid(f, p) <=> AP!ack_valid(f, p)
               /\ B!ack_valid(f, p) <=> BP!ack_valid(f, p)
  /\ \A f, p : /\ A!tx_bump(f, p) = AP!tx_bump(f, p)
               /\ B!tx_bump(f, p) = BP!tx_bump(f, p)
  /\ \A f, p : /\ A!third_dupack(f, p) <=> AP!third_dupack(f, p)
               /\ B!third_dupack(f, p) <=> BP!third_dupack(f, p)
  /\ \A f : /\ A!flow_reset_retransmit(f) = AP!flow_reset_retransmit(f)
            /\ B!flow_reset_retransmit(f) = BP!flow_reset_retransmit(f)
  /\ \A f, p : /\ A!rx_ack(f, p) = AP!rx_ack(f, p)
               /\ B!rx_ack(f, p) = BP!rx_ack(f, p)
<1>1. \A f, p : /\ A!ack_valid(f, p) <=> AP!ack_valid(f, p)
                /\ B!ack_valid(f, p) <=> BP!ack_valid(f, p)
  BY SameNumbers DEF A!ack_valid, AP!ack_valid, B!ack_valid, BP!ack_valid
<1>2. \A f, p : /\ A!tx_bump(f, p) = AP!tx_bump(f, p)
                /\ B!tx_bump(f, p) = BP!tx_bump(f, p)
  BY SameNumbers, <1>1 DEF A!tx_bump, AP!tx_bump, B!tx_bump, BP!tx_bump
<1>3. \A f, p : /\ A!third_dupack(f, p) <=> AP!third_dupack(f, p)
                /\ B!third_dupack(f, p) <=> BP!third_dupack(f, p)
  BY SameNumbers, <1>1 DEF A!third_dupack, AP!third_dupack, B!third_dupack, BP!third_dupack
<1>4. \A f : /\ A!flow_reset_retransmit(f) = AP!flow_reset_retransmit(f)
             /\ B!flow_reset_retransmit(f) = BP!flow_reset_retransmit(f)
  BY SameArith DEF A!flow_reset_retransmit, AP!flow_reset_retransmit, B!flow_reset_retransmit,
     BP!flow_reset_retransmit
<1>5. \A f, p : /\ A!rx_ack(f, p) = AP!rx_ack(f, p)
                /\ B!rx_ack(f, p) = BP!rx_ack(f, p)
  <2> SUFFICES ASSUME NEW f, NEW p
               PROVE  A!rx_ack(f, p) = AP!rx_ack(f, p) /\ B!rx_ack(f, p) = BP!rx_ack(f, p)
    OBVIOUS
  <2>1. A!rx_ack(f, p) = AP!rx_ack(f, p)
    BY DEF A!CircBack, AP!CircBack, A!CircDist, AP!CircDist, A!CircFwd, AP!CircFwd, A!U32, AP!U32, A!ack_valid,
       AP!ack_valid, A!flow_reset_retransmit, AP!flow_reset_retransmit, A!rx_ack, AP!rx_ack,
       A!rxack_bump, AP!rxack_bump, A!tcp_valid_rxack, AP!tcp_valid_rxack, A!third_dupack, AP!third_dupack, A!tx_unsent, AP!tx_unsent
  <2>2. B!rx_ack(f, p) = BP!rx_ack(f, p)
    BY DEF B!CircBack, BP!CircBack, B!CircDist, BP!CircDist, B!CircFwd, BP!CircFwd, B!U32, BP!U32, B!ack_valid,
       BP!ack_valid, B!flow_reset_retransmit, BP!flow_reset_retransmit, B!rx_ack, BP!rx_ack,
       B!rxack_bump, BP!rxack_bump, B!tcp_valid_rxack, BP!tcp_valid_rxack, B!third_dupack, BP!third_dupack, B!tx_unsent, BP!tx_unsent
  <2> QED BY <2>1, <2>2
<1> QED BY <1>1, <1>2, <1>3, <1>4, <1>5

LEMMA SamePayload ==
  /\ \A f, p : /\ A!rx_trim(f, p) = AP!rx_trim(f, p)
               /\ B!rx_trim(f, p) = BP!rx_trim(f, p)
  /\ \A p, t : /\ A!pay_seq(p, t) = AP!pay_seq(p, t)
               /\ B!pay_seq(p, t) = BP!pay_seq(p, t)
  /\ \A p, t : /\ A!pay_len(p, t) = AP!pay_len(p, t)
               /\ B!pay_len(p, t) = BP!pay_len(p, t)
  /\ \A f, p, t : /\ A!rx_inorder(f, p, t) <=> AP!rx_inorder(f, p, t)
                  /\ B!rx_inorder(f, p, t) <=> BP!rx_inorder(f, p, t)
  /\ \A f, p, t : /\ A!rx_ahead(f, p, t) <=> AP!rx_ahead(f, p, t)
                  /\ B!rx_ahead(f, p, t) <=> BP!rx_ahead(f, p, t)
  /\ \A f, p, t : /\ A!ooo_below(f, p, t) <=> AP!ooo_below(f, p, t)
                  /\ B!ooo_below(f, p, t) <=> BP!ooo_below(f, p, t)
  /\ \A f, p, t : /\ A!ooo_above(f, p, t) <=> AP!ooo_above(f, p, t)
                  /\ B!ooo_above(f, p, t) <=> BP!ooo_above(f, p, t)
  /\ \A f, p, t : /\ A!ooo_takes(f, p, t) <=> AP!ooo_takes(f, p, t)
                  /\ B!ooo_takes(f, p, t) <=> BP!ooo_takes(f, p, t)
  /\ \A f, p, t : /\ A!rx_ooo(f, p, t) = AP!rx_ooo(f, p, t)
                  /\ B!rx_ooo(f, p, t) = BP!rx_ooo(f, p, t)
  /\ \A f, n : /\ A!rx_advance(f, n) = AP!rx_advance(f, n)
               /\ B!rx_advance(f, n) = BP!rx_advance(f, n)
  /\ \A f : /\ A!rx_catchup(f) = AP!rx_catchup(f)
            /\ B!rx_catchup(f) = BP!rx_catchup(f)
  /\ \A f, p, t : /\ A!rx_next(f, p, t) = AP!rx_next(f, p, t)
                  /\ B!rx_next(f, p, t) = BP!rx_next(f, p, t)
  /\ \A f, p, t : /\ A!rx_data(f, p, t) = AP!rx_data(f, p, t)
                  /\ B!rx_data(f, p, t) = BP!rx_data(f, p, t)
  /\ \A f, p, t : /\ A!rx_stores(f, p, t) <=> AP!rx_stores(f, p, t)
                  /\ B!rx_stores(f, p, t) <=> BP!rx_stores(f, p, t)
  /\ \A buf, f, p, t : /\ A!rx_write(buf, f, p, t) = AP!rx_write(buf, f, p, t)
                       /\ B!rx_write(buf, f, p, t) = BP!rx_write(buf, f, p, t)
<1>1. \A f, p : /\ A!rx_trim(f, p) = AP!rx_trim(f, p)
                /\ B!rx_trim(f, p) = BP!rx_trim(f, p)
  BY SameNumbers DEF A!rx_trim, AP!rx_trim, B!rx_trim, BP!rx_trim
<1>2. \A p, t : /\ A!pay_seq(p, t) = AP!pay_seq(p, t)
                /\ B!pay_seq(p, t) = BP!pay_seq(p, t)
  BY SameArith DEF A!pay_seq, AP!pay_seq, B!pay_seq, BP!pay_seq
<1>3. \A p, t : /\ A!pay_len(p, t) = AP!pay_len(p, t)
                /\ B!pay_len(p, t) = BP!pay_len(p, t)
  BY DEF A!pay_len, AP!pay_len, B!pay_len, BP!pay_len
<1>4. \A f, p, t : /\ A!rx_inorder(f, p, t) <=> AP!rx_inorder(f, p, t)
                   /\ B!rx_inorder(f, p, t) <=> BP!rx_inorder(f, p, t)
  BY <1>2 DEF A!rx_inorder, AP!rx_inorder, B!rx_inorder, BP!rx_inorder
<1>5. \A f, p, t : /\ A!rx_ahead(f, p, t) <=> AP!rx_ahead(f, p, t)
                   /\ B!rx_ahead(f, p, t) <=> BP!rx_ahead(f, p, t)
  BY <1>2, <1>3 DEF A!rx_ahead, AP!rx_ahead, B!rx_ahead, BP!rx_ahead
<1>6. \A f, p, t : /\ A!ooo_below(f, p, t) <=> AP!ooo_below(f, p, t)
                   /\ B!ooo_below(f, p, t) <=> BP!ooo_below(f, p, t)
  BY SameArith, <1>2, <1>3 DEF A!ooo_below, AP!ooo_below, B!ooo_below, BP!ooo_below
<1>7. \A f, p, t : /\ A!ooo_above(f, p, t) <=> AP!ooo_above(f, p, t)
                   /\ B!ooo_above(f, p, t) <=> BP!ooo_above(f, p, t)
  BY SameArith, <1>2 DEF A!ooo_above, AP!ooo_above, B!ooo_above, BP!ooo_above
<1>8. \A f, p, t : /\ A!ooo_takes(f, p, t) <=> AP!ooo_takes(f, p, t)
                   /\ B!ooo_takes(f, p, t) <=> BP!ooo_takes(f, p, t)
  BY <1>6, <1>7 DEF A!ooo_takes, AP!ooo_takes, B!ooo_takes, BP!ooo_takes
<1>9. \A f, p, t : /\ A!rx_ooo(f, p, t) = AP!rx_ooo(f, p, t)
                   /\ B!rx_ooo(f, p, t) = BP!rx_ooo(f, p, t)
  <2> SUFFICES ASSUME NEW f, NEW p, NEW t
               PROVE  A!rx_ooo(f, p, t) = AP!rx_ooo(f, p, t) /\ B!rx_ooo(f, p, t) = BP!rx_ooo(f, p, t)
    OBVIOUS
  <2>1. A!rx_ooo(f, p, t) = AP!rx_ooo(f, p, t)
    BY DEF A!U32, AP!U32, A!ooo_below, AP!ooo_below, A!pay_len, AP!pay_len, A!pay_seq, AP!pay_seq, A!rx_ooo, AP!rx_ooo
  <2>2. B!rx_ooo(f, p, t) = BP!rx_ooo(f, p, t)
    BY DEF B!U32, BP!U32, B!ooo_below, BP!ooo_below, B!pay_len, BP!pay_len, B!pay_seq, BP!pay_seq, B!rx_ooo, BP!rx_ooo
  <2> QED BY <2>1, <2>2
<1>10. \A f, n : /\ A!rx_advance(f, n) = AP!rx_advance(f, n)
                 /\ B!rx_advance(f, n) = BP!rx_advance(f, n)
  BY SameArith DEF A!rx_advance, AP!rx_advance, B!rx_advance, BP!rx_advance
<1>11. \A f : /\ A!rx_catchup(f) = AP!rx_catchup(f)
              /\ B!rx_catchup(f) = BP!rx_catchup(f)
  BY SameArith, SameNumbers, <1>10 DEF A!rx_catchup, AP!rx_catchup, B!rx_catchup, BP!rx_catchup
<1>12. \A f, p, t : /\ A!rx_next(f, p, t) = AP!rx_next(f, p, t)
                    /\ B!rx_next(f, p, t) = BP!rx_next(f, p, t)
  BY <1>3, <1>10, <1>11 DEF A!rx_next, AP!rx_next, B!rx_next, BP!rx_next
<1>13. \A f, p, t : /\ A!rx_data(f, p, t) = AP!rx_data(f, p, t)
                    /\ B!rx_data(f, p, t) = BP!rx_data(f, p, t)
  BY <1>4, <1>5, <1>8, <1>9, <1>12 DEF A!rx_data, AP!rx_data, B!rx_data, BP!rx_data
<1>14. \A f, p, t : /\ A!rx_stores(f, p, t) <=> AP!rx_stores(f, p, t)
                    /\ B!rx_stores(f, p, t) <=> BP!rx_stores(f, p, t)
  BY SameAcks, <1>3, <1>4, <1>5, <1>8 DEF A!rx_stores, AP!rx_stores, B!rx_stores, BP!rx_stores
<1>15. \A buf, f, p, t : /\ A!rx_write(buf, f, p, t) = AP!rx_write(buf, f, p, t)
                         /\ B!rx_write(buf, f, p, t) = BP!rx_write(buf, f, p, t)
  BY SameArith, <1>2, <1>3 DEF A!rx_write, AP!rx_write, B!rx_write, BP!rx_write
<1> QED BY <1>1, <1>2, <1>3, <1>4, <1>5, <1>6, <1>7, <1>8, <1>9, <1>10, <1>11, <1>12, <1>13, <1>14, <1>15

LEMMA SameSent ==
  /\ \A f, rx_tail : /\ A!rx_freed(f, rx_tail) = AP!rx_freed(f, rx_tail)
                     /\ B!rx_freed(f, rx_tail) = BP!rx_freed(f, rx_tail)
  /\ \A f, b : /\ A!flow_bump(f, b) = AP!flow_bump(f, b)
               /\ B!flow_bump(f, b) = BP!flow_bump(f, b)
  /\ \A f : /\ A!tx_seglen(f) = AP!tx_seglen(f)
            /\ B!tx_seglen(f) = BP!tx_seglen(f)
  /\ \A f, n : /\ A!flow_sent(f, n) = AP!flow_sent(f, n)
               /\ B!flow_sent(f, n) = BP!flow_sent(f, n)
  /\ \A f : /\ A!wnd_field(f) = AP!wnd_field(f)
            /\ B!wnd_field(f) = BP!wnd_field(f)
  /\ \A buf, pos, n : /\ A!tx_read(buf, pos, n) = AP!tx_read(buf, pos, n)
                      /\ B!tx_read(buf, pos, n) = BP!tx_read(buf, pos, n)
  /\ \A f : /\ A!tx_ack_segment(f) = AP!tx_ack_segment(f)
            /\ B!tx_ack_segment(f) = BP!tx_ack_segment(f)
  /\ \A f, buf : /\ A!tx_data_segment(f, buf) = AP!tx_data_segment(f, buf)
                 /\ B!tx_data_segment(f, buf) = BP!tx_data_segment(f, buf)
  /\ \A f, g : /\ A!credit(f, g) = AP!credit(f, g)
               /\ B!credit(f, g) = BP!credit(f, g)
<1>1. \A f, rx_tail : /\ A!rx_freed(f, rx_tail) = AP!rx_freed(f, rx_tail)
                      /\ B!rx_freed(f, rx_tail) = BP!rx_freed(f, rx_tail)
  BY SameArith DEF A!rx_freed, AP!rx_freed, B!rx_freed, BP!rx_freed
<1>2. \A f, b : /\ A!flow_bump(f, b) = AP!flow_bump(f, b)
                /\ B!flow_bump(f, b) = BP!flow_bump(f, b)
  BY <1>1 DEF A!flow_bump, AP!flow_bump, B!flow_bump, BP!flow_bump
<1>3. \A f : /\ A!tx_seglen(f) = AP!tx_seglen(f)
             /\ B!tx_seglen(f) = BP!tx_seglen(f)
  BY SameArith, SameNumbers DEF A!tx_seglen, AP!tx_seglen, B!tx_seglen, BP!tx_seglen
<1>4. \A f, n : /\ A!flow_sent(f, n) = AP!flow_sent(f, n)
                /\ B!flow_sent(f, n) = BP!flow_sent(f, n)
  BY SameArith DEF A!flow_sent, AP!flow_sent, B!flow_sent, BP!flow_sent
<1>5. \A f : /\ A!wnd_field(f) = AP!wnd_field(f)
             /\ B!wnd_field(f) = BP!wnd_field(f)
  BY SameArith DEF A!wnd_field, AP!wnd_field, B!wnd_field, BP!wnd_field
<1>6. \A buf, pos, n : /\ A!tx_read(buf, pos, n) = AP!tx_read(buf, pos, n)
                       /\ B!tx_read(buf, pos, n) = BP!tx_read(buf, pos, n)
  BY SameArith DEF A!tx_read, AP!tx_read, B!tx_read, BP!tx_read
<1>7. \A f : /\ A!tx_ack_segment(f) = AP!tx_ack_segment(f)
             /\ B!tx_ack_segment(f) = BP!tx_ack_segment(f)
  BY SameArith, <1>5 DEF A!tx_ack_segment, AP!tx_ack_segment, B!tx_ack_segment, BP!tx_ack_segment
<1>8. \A f, buf : /\ A!tx_data_segment(f, buf) = AP!tx_data_segment(f, buf)
                  /\ B!tx_data_segment(f, buf) = BP!tx_data_segment(f, buf)
  BY SameArith, <1>3, <1>5, <1>6 DEF A!tx_data_segment, AP!tx_data_segment, B!tx_data_segment, BP!tx_data_segment
<1>9. \A f, g : /\ A!credit(f, g) = AP!credit(f, g)
                /\ B!credit(f, g) = BP!credit(f, g)
  BY SameNumbers DEF A!credit, AP!credit, B!credit, BP!credit
<1> QED BY <1>1, <1>2, <1>3, <1>4, <1>5, <1>6, <1>7, <1>8, <1>9

LEMMA SameInit ==
  /\ A!InitWith("open") <=> AP!InitWith("open")
  /\ B!InitWith("open") <=> BP!InitWith("open")
  BY DEF A!FlowInit, AP!FlowInit, B!FlowInit, BP!FlowInit, A!InitWith,
         AP!InitWith, B!InitWith, BP!InitWith, A!NoByte, AP!NoByte, B!NoByte,
         BP!NoByte, A!connection_init, AP!connection_init, B!connection_init,
         BP!connection_init

LEMMA SameNotify ==
  ASSUME NEW rx, NEW tx
  PROVE  /\ A!notify(rx, tx) <=> AP!notify(rx, tx)
         /\ B!notify(rx, tx) <=> BP!notify(rx, tx)
  BY DEF A!notify, AP!notify, B!notify, BP!notify

LEMMA SamePacket ==
  ASSUME NEW p
  PROVE  /\ A!fast_flows_packet(p) <=> AP!fast_flows_packet(p)
         /\ B!fast_flows_packet(p) <=> BP!fast_flows_packet(p)
<1>1. /\ A!slowpath_packet(p) <=> AP!slowpath_packet(p)
      /\ B!slowpath_packet(p) <=> BP!slowpath_packet(p)
  BY DEF A!slowpath_packet, AP!slowpath_packet, B!slowpath_packet, BP!slowpath_packet
<1>2. A!fastpath_packet(p) <=> AP!fastpath_packet(p)
  BY SameAcks, SamePayload, SameSent, SameNotify
     DEF A!fastpath_packet, AP!fastpath_packet
<1>3. B!fastpath_packet(p) <=> BP!fastpath_packet(p)
  BY SameAcks, SamePayload, SameSent, SameNotify
     DEF B!fastpath_packet, BP!fastpath_packet
<1> QED BY <1>1, <1>2, <1>3
        DEF A!fast_flows_packet, AP!fast_flows_packet,
            B!fast_flows_packet, BP!fast_flows_packet

LEMMA SameSends ==
  /\ \A p : /\ A!packet_sends(p) = AP!packet_sends(p)
             /\ B!packet_sends(p) = BP!packet_sends(p)
  /\ \A b : /\ A!bump_sends(b) = AP!bump_sends(b)
             /\ B!bump_sends(b) = BP!bump_sends(b)
  /\ A!qman_sends = AP!qman_sends /\ B!qman_sends = BP!qman_sends
<1>1. \A p : /\ A!packet_sends(p) = AP!packet_sends(p)
             /\ B!packet_sends(p) = BP!packet_sends(p)
  BY SameSent DEF A!packet_sends, AP!packet_sends, B!packet_sends, BP!packet_sends
<1>2. \A b : /\ A!bump_sends(b) = AP!bump_sends(b)
             /\ B!bump_sends(b) = BP!bump_sends(b)
  BY SameSent, SameNumbers DEF A!bump_sends, AP!bump_sends, B!bump_sends, BP!bump_sends
<1>3. A!qman_sends = AP!qman_sends /\ B!qman_sends = BP!qman_sends
  BY SameSent DEF A!qman_sends, AP!qman_sends, B!qman_sends, BP!qman_sends
<1> QED BY <1>1, <1>2, <1>3

LEMMA SameSteps ==
  /\ A!flast_flows_bump <=> AP!flast_flows_bump
  /\ B!flast_flows_bump <=> BP!flast_flows_bump
  /\ A!fast_flows_qman <=> AP!fast_flows_qman
  /\ B!fast_flows_qman <=> BP!fast_flows_qman
  /\ A!fast_flows_retransmit <=> AP!fast_flows_retransmit
  /\ B!fast_flows_retransmit <=> BP!fast_flows_retransmit
<1>1. /\ A!flast_flows_bump <=> AP!flast_flows_bump
      /\ B!flast_flows_bump <=> BP!flast_flows_bump
  BY SameSent DEF A!flast_flows_bump, AP!flast_flows_bump, A!fast_appctx_poll,
       AP!fast_appctx_poll, A!bump_stale, AP!bump_stale, B!flast_flows_bump,
       BP!flast_flows_bump, B!fast_appctx_poll, BP!fast_appctx_poll,
       B!bump_stale, BP!bump_stale
<1>2. /\ A!fast_flows_qman <=> AP!fast_flows_qman
      /\ B!fast_flows_qman <=> BP!fast_flows_qman
  BY SameSent, SameArith DEF A!fast_flows_qman, AP!fast_flows_qman, A!queue_fire,
       AP!queue_fire, B!fast_flows_qman, BP!fast_flows_qman, B!queue_fire,
       BP!queue_fire
<1>3. /\ A!fast_flows_retransmit <=> AP!fast_flows_retransmit
      /\ B!fast_flows_retransmit <=> BP!fast_flows_retransmit
  BY SameSent, SameAcks DEF A!fast_flows_retransmit, AP!fast_flows_retransmit,
       A!issue_retransmits, AP!issue_retransmits, B!fast_flows_retransmit,
       BP!fast_flows_retransmit, B!issue_retransmits, BP!issue_retransmits
<1> QED BY <1>1, <1>2, <1>3

LEMMA SameLibrary == (A!Library <=> AP!Library) /\ (B!Library <=> BP!Library)
<1>1. A!Library <=> AP!Library
  BY DEF A!CircDist, AP!CircDist, A!CircFwd, AP!CircFwd, A!Library,
         AP!Library, A!MinOf, AP!MinOf, A!U32, AP!U32, A!ack_valid,
         AP!ack_valid, A!conn_rx_recvdbytes, AP!conn_rx_recvdbytes,
         A!conn_tx_allocbytes, AP!conn_tx_allocbytes, A!conn_tx_sendbytes,
         AP!conn_tx_sendbytes, A!connection_rx_done, AP!connection_rx_done,
         A!connection_tx_alloc, AP!connection_tx_alloc, A!connection_tx_send,
         AP!connection_tx_send, A!conns_bump, AP!conns_bump, A!context_poll,
         AP!context_poll, A!event_arx_connupdate, AP!event_arx_connupdate,
         A!rxack_bump, AP!rxack_bump, A!tcp_valid_rxack, AP!tcp_valid_rxack,
         A!tx_allocated, AP!tx_allocated, A!tx_bump, AP!tx_bump, A!tx_unsent,
         AP!tx_unsent, A!user, AP!user
<1>2. B!Library <=> BP!Library
  BY DEF B!CircDist, BP!CircDist, B!CircFwd, BP!CircFwd, B!Library,
         BP!Library, B!MinOf, BP!MinOf, B!U32, BP!U32, B!ack_valid,
         BP!ack_valid, B!conn_rx_recvdbytes, BP!conn_rx_recvdbytes,
         B!conn_tx_allocbytes, BP!conn_tx_allocbytes, B!conn_tx_sendbytes,
         BP!conn_tx_sendbytes, B!connection_rx_done, BP!connection_rx_done,
         B!connection_tx_alloc, BP!connection_tx_alloc, B!connection_tx_send,
         BP!connection_tx_send, B!conns_bump, BP!conns_bump, B!context_poll,
         BP!context_poll, B!event_arx_connupdate, BP!event_arx_connupdate,
         B!rxack_bump, BP!rxack_bump, B!tcp_valid_rxack, BP!tcp_valid_rxack,
         B!tx_allocated, BP!tx_allocated, B!tx_bump, BP!tx_bump, B!tx_unsent,
         BP!tx_unsent, B!user, BP!user
<1> QED BY <1>1, <1>2

LEMMA SameContent ==
  (A!RxContent <=> AP!RxContent) /\ (B!RxContent <=> BP!RxContent)
  BY SameArith DEF A!RxContent, AP!RxContent, B!RxContent, BP!RxContent

LEMMA SameCarried ==
  ASSUME NEW p, NEW i, NEW j, NEW h, NEW r
  PROVE  AP!Carried(p, i, j, h, r) <=> BP!Carried(p, i, j, h, r)
<1>1. AP!Segments = BP!Segments
  BY DEF AP!Segments, BP!Segments, AP!SeqNo, BP!SeqNo
<1>2. AP!Carries(p, i, h) <=> BP!Carries(p, i, h)
  BY DEF AP!Carries, BP!Carries, AP!U32, BP!U32
<1>3. AP!Acknowledges(p, j, r) <=> BP!Acknowledges(p, j, r)
  BY DEF AP!Acknowledges, BP!Acknowledges, AP!U32, BP!U32
<1> QED BY <1>1, <1>2, <1>3 DEF AP!Carried, BP!Carried

-----------------------------------------------------------------------------
(* The conversation *)

\* A segment to one end is of the other's stream, and acknowledges no more than
\* the other has received.
Genuine(m) ==
  /\ m.dst = "a" => AP!Carried(m.seg, IsnB, IsnA, bHist.head, bHist.rcvd)
  /\ m.dst = "b" => BP!Carried(m.seg, IsnA, IsnB, aHist.head, aHist.rcvd)

PairInv == /\ AP!End(bHist.head, bHist.rcvd)
           /\ BP!End(aHist.head, aHist.rcvd)
           /\ \A m \in net : Genuine(m)

\* Some segment in the network is one that its receiver would not trim right.
Missed == \/ \E m \in To("a") : A!TrimMisses(aFs, m.seg.seq, Len(m.seg.data))
          \/ \E m \in To("b") : B!TrimMisses(bFs, m.seg.seq, Len(m.seg.data))

LEMMA InitPairInv == Init => PairInv
<1> SUFFICES ASSUME Init PROVE PairInv
  OBVIOUS
<1>1. AP!InitWith("open") /\ BP!InitWith("open") /\ net = {}
  BY SameInit DEF Init
<1>2. AP!End(0, 0) /\ BP!End(0, 0)
  BY <1>1, EndAssumptions, AP!EndInit, BP!EndInit
<1>3. /\ aHist.head = 0 /\ aHist.rcvd = 0 /\ bHist.head = 0 /\ bHist.rcvd = 0
  BY <1>1 DEF AP!InitWith, BP!InitWith
<1> QED BY <1>1, <1>2, <1>3 DEF PairInv

\* The network holds nothing but what it held before and what is sent.
LEMMA TransmitOnly ==
  ASSUME NEW n, NEW dst, NEW segs, Transmit(n, dst, segs)
  PROVE  \A m \in net' : m \in n \/ \E s \in segs : m = [dst |-> dst, seg |-> s]
  BY DEF Transmit

\* A step of one end that keeps it in order keeps the conversation in order, if
\* it receives and is handed no less than before and sends what it may send.
LEMMA StepOfA ==
  ASSUME PairInv, NEW segs, NEW h \in Nat, NEW r \in Nat,
         h = bHist.head, r = bHist.rcvd, AP!End(h, r)',
         aHist.rcvd <= aHist'.rcvd, aHist.head <= aHist'.head,
         aHist'.rcvd \in Nat, aHist'.head \in Nat, UNCHANGED bVars,
         \A q \in segs : AP!Carried(q, IsnA, IsnB, aHist'.head, aHist'.rcvd),
         \A m \in net' : m \in net \/ \E s \in segs : m = [dst |-> "b", seg |-> s]
  PROVE  PairInv'
<1>1. PICK g, s, u, v : /\ g = aHist.head /\ s = aHist.rcvd
                       /\ u = aHist'.head /\ v = aHist'.rcvd
  OBVIOUS
<1>2. AP!End(h, r) /\ BP!End(g, s)
  BY <1>1 DEF PairInv
<1>3. /\ g \in Nat /\ s \in Nat /\ u \in Nat /\ v \in Nat
      /\ g <= u /\ s <= v
  BY <1>1, <1>2, EndAssumptions, AP!EndFacts, BP!EndFacts
<1>4. bHist' = bHist
  BY DEF bVars
<1>5. AP!End(bHist.head, bHist.rcvd)'
  BY <1>4
<1>6. BP!End(aHist.head, aHist.rcvd)'
  <2>1. v <= bHist.head
    <3>1. aHist'.rcvd <= h
      BY DEF AP!End, AP!Below
    <3> QED BY <1>1, <3>1
  <2>2. BP!End(u, v)
    BY <1>2, <1>3, <2>1, EndAssumptions, BP!EndMore
  <2>3. BP!vars' = BP!vars
    BY DEF BP!vars, bVars
  <2>4. BP!End(u, v)'
    BY <1>3, <2>2, <2>3, EndAssumptions, BP!EndStutter
  <2> QED BY <1>1, <2>4
<1>7. ASSUME NEW m \in net' PROVE Genuine(m)'
  <2>1. CASE m \in net
    <3>1. Genuine(m)
      BY <2>1 DEF PairInv
    <3>2. m.dst = "a" => AP!Carried(m.seg, IsnB, IsnA, h, r)
      BY <1>1, <3>1 DEF Genuine
    <3>3. m.dst = "b" => BP!Carried(m.seg, IsnA, IsnB, u, v)
      <4>1. m.dst = "b" => BP!Carried(m.seg, IsnA, IsnB, g, s)
        BY <1>1, <3>1 DEF Genuine
      <4> QED BY <1>3, <4>1, EndAssumptions, BP!CarriedMore
    <3> QED BY <1>1, <1>4, <3>2, <3>3 DEF Genuine
  <2>2. ASSUME NEW q \in segs, m = [dst |-> "b", seg |-> q]
        PROVE  Genuine(m)'
    <3>1. m.dst = "b" /\ m.seg = q /\ m.dst # "a"
      BY <2>2
    <3>2. AP!Carried(q, IsnA, IsnB, u, v)
      BY <1>1
    <3>3. BP!Carried(m.seg, IsnA, IsnB, u, v)
      BY <3>1, <3>2, SameCarried
    <3> QED BY <1>1, <3>1, <3>3 DEF Genuine
  <2> QED BY <2>1, <2>2
<1> QED BY <1>5, <1>6, <1>7 DEF PairInv

LEMMA DeliverA ==
  ASSUME PairInv, ~Missed, NEW m \in To("a"), NEW dup \in BOOLEAN, deliver_a(m, dup)
  PROVE  PairInv'
<1>1. PICK h, r, p : h = bHist.head /\ r = bHist.rcvd /\ p = m.seg
  OBVIOUS
<1>2. /\ AP!End(h, r) /\ BP!End(aHist.head, aHist.rcvd)
      /\ AP!Carried(p, IsnB, IsnA, h, r)
  BY <1>1 DEF PairInv, Genuine, To
<1>3. h \in Nat /\ r \in Nat /\ h <= SendB /\ aHist.rcvd \in Nat /\ aHist.head \in Nat
  BY <1>1, <1>2, EndAssumptions, AP!EndFacts, BP!EndFacts
<1>4. ~AP!TrimMisses(aFs, p.seq, Len(p.data))
  BY <1>1, SameNumbers DEF Missed
<1>5. /\ AP!fast_flows_packet(p) /\ UNCHANGED bVars
      /\ Transmit(After(m, dup), "b", AP!packet_sends(p))
  BY <1>1, SamePacket, SameSends DEF deliver_a
<1>6. /\ AP!End(h, r)' /\ aHist.rcvd <= aHist'.rcvd /\ aHist'.head = aHist.head
      /\ \A q \in AP!packet_sends(p) :
           AP!Carried(q, IsnA, IsnB, aHist'.head, aHist'.rcvd)
  BY <1>2, <1>3, <1>4, <1>5, EndAssumptions, AP!EndPacket
<1>7. \A k \in net' : \/ k \in net
                      \/ \E s \in AP!packet_sends(p) : k = [dst |-> "b", seg |-> s]
  BY <1>5, TransmitOnly DEF After
<1>8. aHist'.rcvd \in Nat /\ aHist.head <= aHist'.head
  BY <1>3, <1>6 DEF AP!End, AP!IInv, AP!TypeOK, AP!Indices
<1> QED BY <1>1, <1>3, <1>5, <1>6, <1>7, <1>8, StepOfA

LEMMA BumpA == PairInv /\ bump_a => PairInv'
<1> SUFFICES ASSUME PairInv, bump_a PROVE PairInv'
  OBVIOUS
<1>1. PICK h, r : h = bHist.head /\ r = bHist.rcvd
  OBVIOUS
<1>2. AP!End(h, r) /\ BP!End(aHist.head, aHist.rcvd)
  BY <1>1 DEF PairInv
<1>3. h \in Nat /\ r \in Nat /\ aHist.rcvd \in Nat /\ aHist.head \in Nat
  BY <1>1, <1>2, EndAssumptions, AP!EndFacts, BP!EndFacts
<1>4. PICK segs : segs = AP!bump_sends(Head(aAtx))
  OBVIOUS
<1>5. AP!flast_flows_bump /\ UNCHANGED bVars /\ Transmit(net, "b", segs)
  BY <1>4, SameSteps, SameSends DEF bump_a
<1>6. /\ AP!End(h, r)' /\ aHist' = aHist
      /\ \A q \in segs : AP!Carried(q, IsnA, IsnB, aHist'.head, aHist'.rcvd)
  BY <1>2, <1>3, <1>4, <1>5, EndAssumptions, AP!EndBump
<1>7. \A k \in net' : k \in net \/ \E s \in segs : k = [dst |-> "b", seg |-> s]
  BY <1>5, TransmitOnly
<1>8. aHist.rcvd <= aHist'.rcvd /\ aHist.head <= aHist'.head
  BY <1>3, <1>6
<1> QED BY <1>1, <1>3, <1>5, <1>6, <1>7, <1>8, StepOfA

LEMMA TransmitA == PairInv /\ send_a => PairInv'
<1> SUFFICES ASSUME PairInv, send_a PROVE PairInv'
  OBVIOUS
<1>1. PICK h, r : h = bHist.head /\ r = bHist.rcvd
  OBVIOUS
<1>2. AP!End(h, r) /\ BP!End(aHist.head, aHist.rcvd)
  BY <1>1 DEF PairInv
<1>3. h \in Nat /\ r \in Nat /\ aHist.rcvd \in Nat /\ aHist.head \in Nat
  BY <1>1, <1>2, EndAssumptions, AP!EndFacts, BP!EndFacts
<1>4. PICK segs : segs = AP!qman_sends
  OBVIOUS
<1>5. AP!fast_flows_qman /\ UNCHANGED bVars /\ Transmit(net, "b", segs)
  BY <1>4, SameSteps, SameSends DEF send_a
<1>6. /\ AP!End(h, r)' /\ aHist' = aHist
      /\ \A q \in segs : AP!Carried(q, IsnA, IsnB, aHist'.head, aHist'.rcvd)
  BY <1>2, <1>3, <1>4, <1>5, EndAssumptions, AP!EndQman
<1>7. \A k \in net' : k \in net \/ \E s \in segs : k = [dst |-> "b", seg |-> s]
  BY <1>5, TransmitOnly
<1>8. aHist.rcvd <= aHist'.rcvd /\ aHist.head <= aHist'.head
  BY <1>3, <1>6
<1> QED BY <1>1, <1>3, <1>5, <1>6, <1>7, <1>8, StepOfA

LEMMA QuietA == PairInv /\ (rexmit_a \/ app_a) => PairInv'
<1> SUFFICES ASSUME PairInv, rexmit_a \/ app_a PROVE PairInv'
  OBVIOUS
<1>1. PICK h, r : h = bHist.head /\ r = bHist.rcvd
  OBVIOUS
<1>2. AP!End(h, r) /\ BP!End(aHist.head, aHist.rcvd)
  BY <1>1 DEF PairInv
<1>3. h \in Nat /\ r \in Nat /\ aHist.rcvd \in Nat /\ aHist.head \in Nat
  BY <1>1, <1>2, EndAssumptions, AP!EndFacts, BP!EndFacts
<1>4. UNCHANGED <<bVars, net>> /\ (AP!fast_flows_retransmit \/ AP!Library)
  BY SameSteps, SameLibrary DEF rexmit_a, app_a
<1>5. /\ AP!End(h, r)' /\ aHist'.rcvd = aHist.rcvd /\ aHist.head <= aHist'.head
      /\ aHist'.head \in Nat
  <2>1. CASE AP!fast_flows_retransmit
    <3>1. AP!End(h, r)' /\ aHist' = aHist
      BY <1>2, <1>3, <2>1, EndAssumptions, AP!EndRexmit
    <3> QED BY <1>3, <3>1
  <2>2. CASE AP!Library
    BY <1>2, <1>3, <2>2, EndAssumptions, AP!EndLibrary
  <2> QED BY <1>4, <2>1, <2>2
<1>0. PICK segs : segs = {}
  OBVIOUS
<1>6. \A k \in net' : k \in net \/ \E s \in segs : k = [dst |-> "b", seg |-> s]
  BY <1>4
<1>7. aHist.rcvd <= aHist'.rcvd /\ aHist'.rcvd \in Nat
  BY <1>3, <1>5
<1>8. \A q \in segs : AP!Carried(q, IsnA, IsnB, aHist'.head, aHist'.rcvd)
  BY <1>0
<1> QED BY <1>1, <1>3, <1>4, <1>5, <1>6, <1>7, <1>8, StepOfA

\* The same for the other end.
LEMMA StepOfB ==
  ASSUME PairInv, NEW segs, NEW h \in Nat, NEW r \in Nat,
         h = aHist.head, r = aHist.rcvd, BP!End(h, r)',
         bHist.rcvd <= bHist'.rcvd, bHist.head <= bHist'.head,
         bHist'.rcvd \in Nat, bHist'.head \in Nat, UNCHANGED aVars,
         \A q \in segs : BP!Carried(q, IsnB, IsnA, bHist'.head, bHist'.rcvd),
         \A m \in net' : m \in net \/ \E s \in segs : m = [dst |-> "a", seg |-> s]
  PROVE  PairInv'
<1>1. PICK g, s, u, v : /\ g = bHist.head /\ s = bHist.rcvd
                       /\ u = bHist'.head /\ v = bHist'.rcvd
  OBVIOUS
<1>2. BP!End(h, r) /\ AP!End(g, s)
  BY <1>1 DEF PairInv
<1>3. /\ g \in Nat /\ s \in Nat /\ u \in Nat /\ v \in Nat
      /\ g <= u /\ s <= v
  BY <1>1, <1>2, EndAssumptions, BP!EndFacts, AP!EndFacts
<1>4. aHist' = aHist
  BY DEF aVars
<1>5. BP!End(aHist.head, aHist.rcvd)'
  BY <1>4
<1>6. AP!End(bHist.head, bHist.rcvd)'
  <2>1. v <= aHist.head
    <3>1. bHist'.rcvd <= h
      BY DEF BP!End, BP!Below
    <3> QED BY <1>1, <3>1
  <2>2. AP!End(u, v)
    BY <1>2, <1>3, <2>1, EndAssumptions, AP!EndMore
  <2>3. AP!vars' = AP!vars
    BY DEF AP!vars, aVars
  <2>4. AP!End(u, v)'
    BY <1>3, <2>2, <2>3, EndAssumptions, AP!EndStutter
  <2> QED BY <1>1, <2>4
<1>7. ASSUME NEW m \in net' PROVE Genuine(m)'
  <2>1. CASE m \in net
    <3>1. Genuine(m)
      BY <2>1 DEF PairInv
    <3>2. m.dst = "b" => BP!Carried(m.seg, IsnA, IsnB, h, r)
      BY <1>1, <3>1 DEF Genuine
    <3>3. m.dst = "a" => AP!Carried(m.seg, IsnB, IsnA, u, v)
      <4>1. m.dst = "a" => AP!Carried(m.seg, IsnB, IsnA, g, s)
        BY <1>1, <3>1 DEF Genuine
      <4> QED BY <1>3, <4>1, EndAssumptions, AP!CarriedMore
    <3> QED BY <1>1, <1>4, <3>2, <3>3 DEF Genuine
  <2>2. ASSUME NEW q \in segs, m = [dst |-> "a", seg |-> q]
        PROVE  Genuine(m)'
    <3>1. m.dst = "a" /\ m.seg = q /\ m.dst # "b"
      BY <2>2
    <3>2. BP!Carried(q, IsnB, IsnA, u, v)
      BY <1>1
    <3>3. AP!Carried(m.seg, IsnB, IsnA, u, v)
      BY <3>1, <3>2, SameCarried
    <3> QED BY <1>1, <3>1, <3>3 DEF Genuine
  <2> QED BY <2>1, <2>2
<1> QED BY <1>5, <1>6, <1>7 DEF PairInv

LEMMA DeliverB ==
  ASSUME PairInv, ~Missed, NEW m \in To("b"), NEW dup \in BOOLEAN, deliver_b(m, dup)
  PROVE  PairInv'
<1>1. PICK h, r, p : h = aHist.head /\ r = aHist.rcvd /\ p = m.seg
  OBVIOUS
<1>2. /\ BP!End(h, r) /\ AP!End(bHist.head, bHist.rcvd)
      /\ BP!Carried(p, IsnA, IsnB, h, r)
  BY <1>1 DEF PairInv, Genuine, To
<1>3. h \in Nat /\ r \in Nat /\ h <= SendA /\ bHist.rcvd \in Nat /\ bHist.head \in Nat
  BY <1>1, <1>2, EndAssumptions, BP!EndFacts, AP!EndFacts
<1>4. ~BP!TrimMisses(bFs, p.seq, Len(p.data))
  BY <1>1, SameNumbers DEF Missed
<1>5. /\ BP!fast_flows_packet(p) /\ UNCHANGED aVars
      /\ Transmit(After(m, dup), "a", BP!packet_sends(p))
  BY <1>1, SamePacket, SameSends DEF deliver_b
<1>6. /\ BP!End(h, r)' /\ bHist.rcvd <= bHist'.rcvd /\ bHist'.head = bHist.head
      /\ \A q \in BP!packet_sends(p) :
           BP!Carried(q, IsnB, IsnA, bHist'.head, bHist'.rcvd)
  BY <1>2, <1>3, <1>4, <1>5, EndAssumptions, BP!EndPacket
<1>7. \A k \in net' : \/ k \in net
                      \/ \E s \in BP!packet_sends(p) : k = [dst |-> "a", seg |-> s]
  BY <1>5, TransmitOnly DEF After
<1>8. bHist'.rcvd \in Nat /\ bHist.head <= bHist'.head
  BY <1>3, <1>6 DEF BP!End, BP!IInv, BP!TypeOK, BP!Indices
<1> QED BY <1>1, <1>3, <1>5, <1>6, <1>7, <1>8, StepOfB

LEMMA BumpB == PairInv /\ bump_b => PairInv'
<1> SUFFICES ASSUME PairInv, bump_b PROVE PairInv'
  OBVIOUS
<1>1. PICK h, r : h = aHist.head /\ r = aHist.rcvd
  OBVIOUS
<1>2. BP!End(h, r) /\ AP!End(bHist.head, bHist.rcvd)
  BY <1>1 DEF PairInv
<1>3. h \in Nat /\ r \in Nat /\ bHist.rcvd \in Nat /\ bHist.head \in Nat
  BY <1>1, <1>2, EndAssumptions, BP!EndFacts, AP!EndFacts
<1>4. PICK segs : segs = BP!bump_sends(Head(bAtx))
  OBVIOUS
<1>5. BP!flast_flows_bump /\ UNCHANGED aVars /\ Transmit(net, "a", segs)
  BY <1>4, SameSteps, SameSends DEF bump_b
<1>6. /\ BP!End(h, r)' /\ bHist' = bHist
      /\ \A q \in segs : BP!Carried(q, IsnB, IsnA, bHist'.head, bHist'.rcvd)
  BY <1>2, <1>3, <1>4, <1>5, EndAssumptions, BP!EndBump
<1>7. \A k \in net' : k \in net \/ \E s \in segs : k = [dst |-> "a", seg |-> s]
  BY <1>5, TransmitOnly
<1>8. bHist.rcvd <= bHist'.rcvd /\ bHist.head <= bHist'.head
  BY <1>3, <1>6
<1> QED BY <1>1, <1>3, <1>5, <1>6, <1>7, <1>8, StepOfB

LEMMA TransmitB == PairInv /\ send_b => PairInv'
<1> SUFFICES ASSUME PairInv, send_b PROVE PairInv'
  OBVIOUS
<1>1. PICK h, r : h = aHist.head /\ r = aHist.rcvd
  OBVIOUS
<1>2. BP!End(h, r) /\ AP!End(bHist.head, bHist.rcvd)
  BY <1>1 DEF PairInv
<1>3. h \in Nat /\ r \in Nat /\ bHist.rcvd \in Nat /\ bHist.head \in Nat
  BY <1>1, <1>2, EndAssumptions, BP!EndFacts, AP!EndFacts
<1>4. PICK segs : segs = BP!qman_sends
  OBVIOUS
<1>5. BP!fast_flows_qman /\ UNCHANGED aVars /\ Transmit(net, "a", segs)
  BY <1>4, SameSteps, SameSends DEF send_b
<1>6. /\ BP!End(h, r)' /\ bHist' = bHist
      /\ \A q \in segs : BP!Carried(q, IsnB, IsnA, bHist'.head, bHist'.rcvd)
  BY <1>2, <1>3, <1>4, <1>5, EndAssumptions, BP!EndQman
<1>7. \A k \in net' : k \in net \/ \E s \in segs : k = [dst |-> "a", seg |-> s]
  BY <1>5, TransmitOnly
<1>8. bHist.rcvd <= bHist'.rcvd /\ bHist.head <= bHist'.head
  BY <1>3, <1>6
<1> QED BY <1>1, <1>3, <1>5, <1>6, <1>7, <1>8, StepOfB

LEMMA QuietB == PairInv /\ (rexmit_b \/ app_b) => PairInv'
<1> SUFFICES ASSUME PairInv, rexmit_b \/ app_b PROVE PairInv'
  OBVIOUS
<1>1. PICK h, r : h = aHist.head /\ r = aHist.rcvd
  OBVIOUS
<1>2. BP!End(h, r) /\ AP!End(bHist.head, bHist.rcvd)
  BY <1>1 DEF PairInv
<1>3. h \in Nat /\ r \in Nat /\ bHist.rcvd \in Nat /\ bHist.head \in Nat
  BY <1>1, <1>2, EndAssumptions, BP!EndFacts, AP!EndFacts
<1>4. UNCHANGED <<aVars, net>> /\ (BP!fast_flows_retransmit \/ BP!Library)
  BY SameSteps, SameLibrary DEF rexmit_b, app_b
<1>5. /\ BP!End(h, r)' /\ bHist'.rcvd = bHist.rcvd /\ bHist.head <= bHist'.head
      /\ bHist'.head \in Nat
  <2>1. CASE BP!fast_flows_retransmit
    <3>1. BP!End(h, r)' /\ bHist' = bHist
      BY <1>2, <1>3, <2>1, EndAssumptions, BP!EndRexmit
    <3> QED BY <1>3, <3>1
  <2>2. CASE BP!Library
    BY <1>2, <1>3, <2>2, EndAssumptions, BP!EndLibrary
  <2> QED BY <1>4, <2>1, <2>2
<1>0. PICK segs : segs = {}
  OBVIOUS
<1>6. \A k \in net' : k \in net \/ \E s \in segs : k = [dst |-> "a", seg |-> s]
  BY <1>4
<1>7. bHist.rcvd <= bHist'.rcvd /\ bHist'.rcvd \in Nat
  BY <1>3, <1>5
<1>8. \A q \in segs : BP!Carried(q, IsnB, IsnA, bHist'.head, bHist'.rcvd)
  BY <1>0
<1> QED BY <1>1, <1>3, <1>4, <1>5, <1>6, <1>7, <1>8, StepOfB

LEMMA StutterPairInv ==
  ASSUME PairInv, UNCHANGED aVars, UNCHANGED bVars, \A k \in net' : k \in net
  PROVE  PairInv'
<1>1. PICK h, r : h = bHist.head /\ r = bHist.rcvd
  OBVIOUS
<1>2. AP!End(h, r) /\ BP!End(aHist.head, aHist.rcvd)
  BY <1>1 DEF PairInv
<1>3. h \in Nat /\ r \in Nat /\ aHist.rcvd \in Nat /\ aHist.head \in Nat
  BY <1>1, <1>2, EndAssumptions, AP!EndFacts, BP!EndFacts
<1>4. AP!vars' = AP!vars /\ aHist' = aHist
  BY DEF AP!vars, aVars
<1>5. AP!End(h, r)'
  BY <1>2, <1>3, <1>4, EndAssumptions, AP!EndStutter
<1>0. PICK segs : segs = {}
  OBVIOUS
<1>6. \A k \in net' : k \in net \/ \E s \in segs : k = [dst |-> "b", seg |-> s]
  OBVIOUS
<1>7. \A q \in segs : AP!Carried(q, IsnA, IsnB, aHist'.head, aHist'.rcvd)
  BY <1>0
<1>8. /\ aHist.rcvd <= aHist'.rcvd /\ aHist.head <= aHist'.head
      /\ aHist'.rcvd \in Nat /\ aHist'.head \in Nat
  BY <1>3, <1>4
<1> QED BY <1>1, <1>3, <1>5, <1>6, <1>7, <1>8, StepOfA

LEMMA NextPairInv == PairInv /\ ~Missed /\ [Next]_vars => PairInv'
<1> SUFFICES ASSUME PairInv, ~Missed, [Next]_vars PROVE PairInv'
  OBVIOUS
<1>1. ASSUME NEW m \in net, lose(m) PROVE PairInv'
  <2>1. aVars' = aVars /\ bVars' = bVars /\ \A k \in net' : k \in net
    BY <1>1 DEF lose
  <2> QED BY <2>1, StutterPairInv
<1>2. CASE UNCHANGED vars
  <2>1. aVars' = aVars /\ bVars' = bVars /\ \A k \in net' : k \in net
    BY <1>2 DEF vars
  <2> QED BY <2>1, StutterPairInv
<1> QED BY <1>1, <1>2, DeliverA, DeliverB, BumpA, BumpB, TransmitA, TransmitB,
           QuietA, QuietB DEF Next

LEMMA PairFacts == PairInv => StreamIntact /\ AckedIsReceived
<1> SUFFICES ASSUME PairInv PROVE StreamIntact /\ AckedIsReceived
  OBVIOUS
<1>1. PICK g, s, h, r : /\ g = aHist.head /\ s = aHist.rcvd
                       /\ h = bHist.head /\ r = bHist.rcvd
  OBVIOUS
<1>2. AP!End(h, r) /\ BP!End(g, s)
  BY <1>1 DEF PairInv
<1>3. AP!RxContent /\ aHist.acked <= r /\ r <= aHist.head /\ aHist.rcvd <= h
  BY <1>2, EndAssumptions, AP!EndFacts
<1>4. BP!RxContent /\ bHist.acked <= s /\ s <= bHist.head /\ bHist.rcvd <= g
  BY <1>2, EndAssumptions, BP!EndFacts
<1> QED BY <1>1, <1>3, <1>4, SameContent DEF StreamIntact, AckedIsReceived

\* A stream numbered from isn stays below the wrap of its numbers, or starts so
\* close to it that the receive buffer reaches across from the beginning.
Covers(isn, send) == isn + send < SeqMod \/ isn + RxLen >= SeqMod

LEMMA NothingMissed ==
  ASSUME PairInv, Covers(IsnA, SendA), Covers(IsnB, SendB)
  PROVE  ~Missed
<1>1. PICK g, s, h, r : /\ g = aHist.head /\ s = aHist.rcvd
                       /\ h = bHist.head /\ r = bHist.rcvd
  OBVIOUS
<1>2. AP!End(h, r) /\ BP!End(g, s)
  BY <1>1 DEF PairInv
<1>3. /\ g \in Nat /\ g <= SendA /\ h \in Nat /\ h <= SendB
  BY <1>1, <1>2, EndAssumptions, AP!EndFacts, BP!EndFacts
<1>4. AP!WindowCovers /\ BP!WindowCovers
  BY DEF Covers, AP!WindowCovers, BP!WindowCovers
<1>5. ASSUME NEW m \in To("a")
      PROVE  ~A!TrimMisses(aFs, m.seg.seq, Len(m.seg.data))
  <2>1. PICK p : p = m.seg
    OBVIOUS
  <2>2. AP!Carried(p, IsnB, IsnA, h, r)
    BY <1>1, <2>1 DEF PairInv, Genuine, To
  <2>3. ~AP!TrimMisses(aFs, p.seq, Len(p.data))
    BY <1>2, <1>3, <1>4, <2>2, EndAssumptions, AP!NeverMisses
  <2> QED BY <2>1, <2>3, SameNumbers
<1>6. ASSUME NEW m \in To("b")
      PROVE  ~B!TrimMisses(bFs, m.seg.seq, Len(m.seg.data))
  <2>1. PICK p : p = m.seg
    OBVIOUS
  <2>2. BP!Carried(p, IsnA, IsnB, g, s)
    BY <1>1, <2>1 DEF PairInv, Genuine, To
  <2>3. ~BP!TrimMisses(bFs, p.seq, Len(p.data))
    BY <1>2, <1>3, <1>4, <2>2, EndAssumptions, BP!NeverMisses
  <2> QED BY <2>1, <2>3, SameNumbers
<1> QED BY <1>5, <1>6 DEF Missed

\* As long as no segment in the network is one that its receiver would not trim
\* right, both ends keep the byte stream: fast_flows_packet, the retransmission
\* and the library's bookkeeping never deliver a byte in the wrong place nor
\* discard one that has not arrived, whatever is lost, duplicated or late.
THEOREM StreamsUnlessMissed ==
  Spec /\ []~Missed => [](StreamIntact /\ AckedIsReceived)
<1>1. Spec /\ []~Missed => []PairInv
  BY InitPairInv, NextPairInv, PTL DEF Spec
<1> QED BY <1>1, PairFacts, PTL

LEMMA PairInvariant ==
  ASSUME Covers(IsnA, SendA), Covers(IsnB, SendB)
  PROVE  Spec => []PairInv
<1>1. PairInv /\ [Next]_vars => PairInv'
  BY NextPairInv, NothingMissed
<1> QED BY <1>1, InitPairInv, PTL DEF Spec

\* Every byte that an end holds in its receive buffer is the one the other
\* application wrote at that place of its stream: what fast_flows_packet stores,
\* in order or ahead of a gap, is never lost to a trimmed, stale or repeated
\* segment nor to the other end's reuse of its transmit buffer.
THEOREM StreamsIntact ==
  ASSUME Covers(IsnA, SendA), Covers(IsnB, SendB)
  PROVE  Spec => []StreamIntact
BY PairInvariant, PairFacts, PTL

\* An acknowledgement frees only what the other end holds in order:
\* tcp_valid_rxack and the reset for a retransmission never take a stale ack for
\* one of bytes that are still to arrive.
THEOREM AckedReceived ==
  ASSUME Covers(IsnA, SendA), Covers(IsnB, SendB)
  PROVE  Spec => []AckedIsReceived
BY PairInvariant, PairFacts, PTL
=============================================================================
