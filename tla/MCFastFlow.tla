----------------------------- MODULE MCFastFlow -----------------------------
(***************************************************************************)
(* FastFlow for TLC.  The receive and the send direction share no state    *)
(* but the flow state record and the queues, so each gets an instance in   *)
(* which it is large and the other one is idle.                            *)
(***************************************************************************)
EXTENDS FastFlow

\* From one byte already received to one byte past the receive buffer.
RxOffsets == -1 .. RxLen + 1

\* From one byte before the first unacknowledged byte to one past the buffer.
AckOffsets == -1 .. TxLen
=============================================================================
