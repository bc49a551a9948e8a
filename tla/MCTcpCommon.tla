----------------------------- MODULE MCTcpCommon -----------------------------
(***************************************************************************)
(* Every input of the TcpCommon operators for small widths, against        *)
(* definitions that do not wrap.  A state is one input: a flow state with  *)
(* a segment (`rx'), with an ack (`tx') or a bump number with the last one *)
(* applied (`bump').  The only step shifts all sequence numbers of an      *)
(* input by one.                                                           *)
(***************************************************************************)
EXTENDS TcpCommon

VARIABLE in

RxInputs == [kind : {"rx"}, rx_next_seq : SeqNo, rx_avail : 0 .. RxLen,
             seq : SeqNo, len : 0 .. LenMod - 1]

\* tx_sent and the unsent bytes never fill the transmit buffer.
TxInputs == {x \in [kind : {"tx"}, tx_next_seq : SeqNo,
                    tx_next_pos : 0 .. TxLen - 1, tx_head : 0 .. TxLen - 1,
                    tx_sent : 0 .. TxLen - 1, ack : SeqNo] :
               x.tx_sent + tx_unsent(x, x.tx_head) < TxLen}

BumpInputs == [kind : {"bump"}, seq : SeqNo, last : SeqNo]

Init == in \in RxInputs \union TxInputs \union BumpInputs

Shift(s) == U32(s + 1)

ShiftRx == /\ in.kind = "rx"
           /\ in' = [in EXCEPT !.rx_next_seq = Shift(@), !.seq = Shift(@)]

ShiftTx == /\ in.kind = "tx"
           /\ in' = [in EXCEPT !.tx_next_seq = Shift(@), !.ack = Shift(@)]

ShiftBump == /\ in.kind = "bump"
             /\ in' = [in EXCEPT !.seq = Shift(@), !.last = Shift(@)]

Next == ShiftRx \/ ShiftTx \/ ShiftBump

Spec == Init /\ [][Next]_in

-----------------------------------------------------------------------------
\* Offset of a segment from the next expected byte, negative when it is old.
Offset(x) == LET d == U32(x.seq - x.rx_next_seq)
             IN  IF d < SeqMod \div 2 THEN d ELSE d - SeqMod

\* Offsets of the bytes that the trimmed segment keeps.
Kept(x) == LET t == tcp_trim_rxbuf(x, x.seq, x.len)
           IN  IF t.drop THEN {}
               ELSE Offset(x) + t.trim_start
                      .. Offset(x) + x.len - t.trim_end - 1

\* Offsets of the bytes of the segment that fit the free part of the buffer.
Fitting(x) == (Offset(x) .. Offset(x) + x.len - 1) \intersect (0 .. x.rx_avail - 1)

\* tcp_trim_rxbuf keeps exactly the bytes of a segment that fall into the free
\* part of the receive buffer, on every input but the ones TrimMisses names;
\* the trims never exceed the segment, so the length left is not negative.
TrimExact ==
  in.kind = "rx" /\ ~TrimMisses(in, in.seq, in.len) =>
    LET t == tcp_trim_rxbuf(in, in.seq, in.len)
    IN  /\ Kept(in) = Fitting(in)
        /\ ~t.drop => t.trim_start + t.trim_end <= in.len

\* The comment of tcp_trim_rxbuf without the exception: what it keeps of a
\* segment fits into the un-used portion of the receive buffer.
TrimFitsBuffer == in.kind = "rx" => Kept(in) \subseteq 0 .. in.rx_avail - 1

\* tcp_valid_rxack accepts exactly the acks from the first unacknowledged byte
\* to the end of the data in the transmit buffer, wherever the numbers wrap.
RxackExact ==
  in.kind = "tx" =>
    (tcp_valid_rxack(in, in.ack)
      <=> rxack_bump(in, in.ack) <= in.tx_sent + tx_unsent(in, in.tx_head))

\* flast_flows_bump applies every bump up to a quarter of the number space
\* ahead of the last one and ignores every bump up to a quarter behind it.
BumpOrderExact ==
  in.kind = "bump" =>
    LET ahead == U32(in.seq - in.last)  behind == U32(in.last - in.seq)
        quarter == (SeqMod - 1) \div 4
    IN  /\ ahead <= quarter => ~bump_stale(in.seq, in.last)
        /\ behind \in 1 .. quarter => bump_stale(in.seq, in.last)

\* What the code's arithmetic promises, on every input.
ArithmeticExact == TrimExact /\ RxackExact /\ BumpOrderExact
=============================================================================
