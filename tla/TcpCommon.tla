------------------------------ MODULE TcpCommon ------------------------------
(***************************************************************************)
(* The sequence-number and circular-buffer arithmetic of the fast path     *)
(* (flexnic/tcp_common.h) and of the application library (stack/conn.c).   *)
(*                                                                         *)
(* Sequence numbers, windows and buffer positions are uint32_t in the      *)
(* code.  SeqMod stands for 2^32 and LenMod for 2^16, the width of a       *)
(* segment length, of a trim and of the window field.  `f' is a flow state *)
(* record (struct flextcp_pl_flowst); only the fields read are needed.     *)
(***************************************************************************)
EXTENDS Integers

CONSTANTS SeqMod,   \* 2^32, the number of sequence numbers
          LenMod,   \* 2^16, the number of segment lengths
          TxLen,    \* fs->tx_len, size of the transmit buffer
          RxLen     \* fs->rx_len, size of the receive buffer

\* The buffers are far smaller than the sequence space (1 MB by default), and
\* a segment and a window together never cover it.
ASSUME TcpCommonAssumption ==
  /\ SeqMod \in Nat /\ LenMod \in Nat /\ TxLen \in Nat /\ RxLen \in Nat
  /\ LenMod > 1 /\ TxLen > 0 /\ RxLen > 0
  /\ LenMod + RxLen < SeqMod /\ LenMod + TxLen < SeqMod

SeqNo == 0 .. SeqMod - 1

\* uint32_t reduction of the sum or difference of two uint32_t values.
U32(x) == IF x < 0 THEN x + SeqMod
          ELSE IF x >= SeqMod THEN x - SeqMod ELSE x

\* Conversion of a length to the uint16_t parameter pkt_bytes.
U16(x) == x % LenMod

MinOf(x, y) == IF x <= y THEN x ELSE y

\* Bytes from position p forward to position q in a circular buffer of n.
CircDist(p, q, n) == IF p <= q THEN q - p ELSE n - p + q

\* Position `d' bytes (at most n) after position p.
CircFwd(p, d, n) == IF p + d >= n THEN p + d - n ELSE p + d

\* Position `d' bytes (at most n) before position p.
CircBack(p, d, n) == IF p >= d THEN p - d ELSE n - (d - p)

-----------------------------------------------------------------------------
(* The send side *)

\* Unsent bytes between the next position to send and `head'.
tx_unsent(f, head) == CircDist(f.tx_next_pos, head, TxLen)

\* Bytes that may be sent: unsent bytes, cut to the flow control window.  The
\* subtraction is unsigned, so a window below tx_sent wraps to a huge value.
tcp_txavail(f, head) ==
  MinOf(tx_unsent(f, head), U32(f.rx_remote_avail - f.tx_sent))

\* Bytes acknowledged by `ack' if it is valid.
rxack_bump(f, ack) == U32(ack - U32(f.tx_next_seq - f.tx_sent))

\* Mutation of tcp_valid_rxack: one byte past the data is accepted.
rxack_one_more(f, ack) ==
  rxack_bump(f, ack) <= f.tx_sent + tx_unsent(f, f.tx_head) + 1

\* An ack is valid from the first unacknowledged byte up to the end of the
\* unsent data (ALLOW_FUTURE_ACKS: after a retransmission reset the peer may
\* acknowledge bytes that now count as unsent).
tcp_valid_rxack(f, ack) ==
  LET fsack_a == U32(f.tx_next_seq - f.tx_sent)
      fsack_b == U32(f.tx_next_seq + tx_unsent(f, f.tx_head))
  IN  IF fsack_a <= fsack_b THEN fsack_a <= ack /\ ack <= fsack_b
                            ELSE ~(fsack_a > ack /\ ack > fsack_b)

-----------------------------------------------------------------------------
(* The receive side *)

\* Mutation of tcp_trim_rxbuf: both intervals are treated as if they did not wrap.
trim_nowrap(f, pkt_seq, pkt_bytes) ==
  LET pseq_b == U32(pkt_seq + U16(pkt_bytes))
      sseq_b == U32(f.rx_next_seq + f.rx_avail)
  IN  [drop       |-> pseq_b < f.rx_next_seq \/ pkt_seq > sseq_b,
       trim_start |-> IF pkt_seq < f.rx_next_seq
                      THEN f.rx_next_seq - pkt_seq ELSE 0,
       trim_end   |-> IF pseq_b > sseq_b THEN pseq_b - sseq_b ELSE 0]

\* Trim a segment, in or out of order, to the free part of the receive buffer.
tcp_trim_rxbuf(f, pkt_seq, pkt_bytes) ==
  LET pseq_a == pkt_seq
      pseq_b == U32(pkt_seq + U16(pkt_bytes))
      sseq_a == f.rx_next_seq
      sseq_b == U32(f.rx_next_seq + f.rx_avail)
      Trim(drop, start, end) ==
        [drop       |-> drop,
         trim_start |-> IF start THEN U32(sseq_a - pseq_a) ELSE 0,
         trim_end   |-> IF end THEN U32(pseq_b - sseq_b) ELSE 0]
  IN  CASE pseq_a <= pseq_b /\ sseq_a <= sseq_b ->  \* neither interval wraps
             Trim(pseq_b < sseq_a \/ pseq_a > sseq_b,
                  pseq_a < sseq_a, pseq_b > sseq_b)
        [] pseq_a <= pseq_b /\ sseq_a > sseq_b ->   \* only the buffer wraps
             Trim(pseq_a > sseq_b /\ pseq_b < sseq_a,
                  pseq_a > sseq_b /\ pseq_a < sseq_a,
                  pseq_b >= sseq_b /\ pseq_b < sseq_a)
        [] pseq_a > pseq_b /\ sseq_a <= sseq_b ->   \* only the segment wraps
             Trim(pseq_a > sseq_b /\ pseq_b < sseq_a,
                  sseq_a <= pseq_b \/ sseq_a > pseq_a,
                  pseq_b > sseq_b \/ sseq_a >= pseq_a)
        [] OTHER ->                                 \* both intervals wrap
             Trim(FALSE, pseq_a < sseq_a, pseq_b > sseq_b)

\* The input on which the third case goes wrong: the segment wraps, the free
\* part does not, and the segment starts inside it (at its end at the latest),
\* past its first byte.  Everything from 2^32 on lies outside the buffer, and
\* no byte of it is trimmed.
TrimMisses(f, pkt_seq, pkt_bytes) ==
  /\ pkt_seq > U32(pkt_seq + U16(pkt_bytes))
  /\ f.rx_next_seq < pkt_seq
  /\ pkt_seq <= f.rx_next_seq + f.rx_avail
  /\ f.rx_next_seq + f.rx_avail < SeqMod

-----------------------------------------------------------------------------
(* Queue bumps *)

\* flast_flows_bump ignores a bump that is older than the last one applied.
\* Both numbers are uint32_t; UINT32_MAX is SeqMod - 1.
bump_stale(seq, last) ==
  LET max == SeqMod - 1
  IN  \/ seq >= last /\ seq - last > max \div 2
      \/ seq < last /\ (last < (max \div 4) * 3 \/ seq > max \div 4)
=============================================================================
