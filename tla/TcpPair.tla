------------------------------- MODULE TcpPair -------------------------------
(***************************************************************************)
(* Two ends of a connection, both as FastFlow models them, joined by a     *)
(* network that loses, duplicates and reorders segments.  Segments are     *)
(* what the fast path of one end reads from its transmit buffer, and the   *)
(* fast path of the other end is all that looks at them.                   *)
(***************************************************************************)
EXTENDS Integers, Sequences, FiniteSets

CONSTANTS SeqMod, LenMod, TxLen, RxLen, MSS, AtxLen, TxChunks, RxChunks,
          ArxA, ArxB,        \* entries of the notification queue of each end
          IsnA, IsnB,        \* first sequence number sent by each end
          SendA, SendB,      \* bound: bytes each application sends
          NetCap,            \* bound: segments in the network at once
          MaxCredit          \* bound: no segment arrives above this much credit

\* What FastFlow assumes of each end.
ASSUME PairAssumption ==
  /\ SeqMod \in Nat /\ LenMod \in Nat /\ TxLen \in Nat /\ RxLen \in Nat
  /\ LenMod > 1 /\ TxLen > 0 /\ RxLen > 0
  /\ LenMod + RxLen < SeqMod /\ LenMod + TxLen < SeqMod
  /\ MSS \in Nat /\ MSS > 0 /\ MSS < LenMod
  /\ ArxA \in Nat /\ ArxB \in Nat /\ AtxLen \in Nat
  /\ IsnA \in 0 .. SeqMod - 1 /\ IsnB \in 0 .. SeqMod - 1
  /\ TxChunks \subseteq Nat \ {0} /\ RxChunks \subseteq Nat \ {0}
  /\ SendA \in Nat /\ SendB \in Nat /\ MaxCredit \in Nat

\* Neither stream is so long that a segment of its start, which this network may
\* deliver at any later time, can be taken for one of its end: TCP relies on
\* segments to die before the sequence numbers come round (RFC 793, section 3.3).
ASSUME StreamsAssumption ==
  \A n \in {SendA, SendB} : n + RxLen < SeqMod /\ n + LenMod <= SeqMod

VARIABLES aFs, aConn, aKout, aArx, aAtx, aQm, aTxbuf, aRxbuf, aHist,
          bFs, bConn, bKout, bArx, bAtx, bQm, bTxbuf, bRxbuf, bHist,
          net                \* segments in the network, with the end they go to

aVars == <<aFs, aConn, aKout, aArx, aAtx, aQm, aTxbuf, aRxbuf, aHist>>
bVars == <<bFs, bConn, bKout, bArx, bAtx, bQm, bTxbuf, bRxbuf, bHist>>
vars == <<aVars, bVars, net>>

A == INSTANCE FastFlow WITH
       ArxLen <- ArxA, LocalIsn <- IsnA, RemoteIsn <- IsnB,
       MaxSend <- SendA, MaxRcvd <- SendB,
       Offsets <- {}, Lens <- {}, Acks <- {}, Windows <- {},
       fs <- aFs, conn <- aConn, kout <- aKout, arx <- aArx, atx <- aAtx,
       qm <- aQm, txbuf <- aTxbuf, rxbuf <- aRxbuf, hist <- aHist

B == INSTANCE FastFlow WITH
       ArxLen <- ArxB, LocalIsn <- IsnB, RemoteIsn <- IsnA,
       MaxSend <- SendB, MaxRcvd <- SendA,
       Offsets <- {}, Lens <- {}, Acks <- {}, Windows <- {},
       fs <- bFs, conn <- bConn, kout <- bKout, arx <- bArx, atx <- bAtx,
       qm <- bQm, txbuf <- bTxbuf, rxbuf <- bRxbuf, hist <- bHist

\* Both libraries have seen the kernel's event before any data is sent; the
\* race between the two is in FastFlow.
Init == A!InitWith("open") /\ B!InitWith("open") /\ net = {}

\* The network holds at most NetCap segments: one segment more and it loses
\* one of the older ones.
Transmit(n, dst, segs) ==
  LET sent == n \union {[dst |-> dst, seg |-> s] : s \in segs}
  IN  IF Cardinality(sent) <= NetCap THEN net' = sent
      ELSE \E m \in n : net' = sent \ {m}

To(dst) == {m \in net : m.dst = dst}

\* A delivered segment leaves the network, or stays to be delivered again.
After(m, dup) == IF dup THEN net ELSE net \ {m}

-----------------------------------------------------------------------------
deliver_a(m, dup) ==
  /\ aQm <= MaxCredit
  /\ A!fast_flows_packet(m.seg)
  /\ Transmit(After(m, dup), "b", A!packet_sends(m.seg))
  /\ UNCHANGED bVars
bump_a == /\ A!flast_flows_bump
          /\ Transmit(net, "b", A!bump_sends(Head(aAtx)))
          /\ UNCHANGED bVars
send_a == /\ A!fast_flows_qman
          /\ Transmit(net, "b", A!qman_sends)
          /\ UNCHANGED bVars
rexmit_a == A!fast_flows_retransmit /\ UNCHANGED <<bVars, net>>
app_a == A!Library /\ UNCHANGED <<bVars, net>>

deliver_b(m, dup) ==
  /\ bQm <= MaxCredit
  /\ B!fast_flows_packet(m.seg)
  /\ Transmit(After(m, dup), "a", B!packet_sends(m.seg))
  /\ UNCHANGED aVars
bump_b == /\ B!flast_flows_bump
          /\ Transmit(net, "a", B!bump_sends(Head(bAtx)))
          /\ UNCHANGED aVars
send_b == /\ B!fast_flows_qman
          /\ Transmit(net, "a", B!qman_sends)
          /\ UNCHANGED aVars
rexmit_b == B!fast_flows_retransmit /\ UNCHANGED <<aVars, net>>
app_b == B!Library /\ UNCHANGED <<aVars, net>>

lose(m) == net' = net \ {m} /\ UNCHANGED <<aVars, bVars>>

Next ==
  \/ \E m \in To("a"), dup \in BOOLEAN : deliver_a(m, dup)
  \/ \E m \in To("b"), dup \in BOOLEAN : deliver_b(m, dup)
  \/ bump_a \/ send_a \/ rexmit_a \/ app_a
  \/ bump_b \/ send_b \/ rexmit_b \/ app_b
  \/ \E m \in net : lose(m)

Spec == Init /\ [][Next]_vars

\* Both fast paths poll all their queues in a loop, the kernel's control loop
\* asks for retransmissions as long as bytes stay unacknowledged, and the
\* application calls the library in a loop with room for at least one event.
\* A network that carries the data at one place of the stream, or an ack of
\* one place, again and again delivers it in the end.
OnlyA(action) == action /\ UNCHANGED <<bVars, net>>
OnlyB(action) == action /\ UNCHANGED <<aVars, net>>

FairEnds ==
  /\ WF_vars(send_a) /\ WF_vars(rexmit_a) /\ WF_vars(bump_a)
  /\ WF_vars(send_b) /\ WF_vars(rexmit_b) /\ WF_vars(bump_b)
  /\ WF_vars(OnlyA(A!context_poll)) /\ WF_vars(OnlyB(B!context_poll))
  /\ SF_vars(OnlyA(A!event_arx_connupdate))
  /\ SF_vars(OnlyB(B!event_arx_connupdate))
  /\ WF_vars(OnlyA(A!conns_bump)) /\ WF_vars(OnlyB(B!conns_bump))

FairNet ==
  /\ \A i \in 0 .. SendA - 1 : SF_vars(\E m \in To("b") :
       m.seg.seq = (IsnA + i) % SeqMod /\ deliver_b(m, FALSE))
  /\ \A i \in 1 .. SendA : SF_vars(\E m \in To("a") :
       m.seg.ack = (IsnA + i) % SeqMod /\ deliver_a(m, FALSE))
  /\ \A i \in 0 .. SendB - 1 : SF_vars(\E m \in To("a") :
       m.seg.seq = (IsnB + i) % SeqMod /\ deliver_a(m, FALSE))
  /\ \A i \in 1 .. SendB : SF_vars(\E m \in To("b") :
       m.seg.ack = (IsnB + i) % SeqMod /\ deliver_b(m, FALSE))

Fairness == FairEnds /\ FairNet

FairSpec == Spec /\ Fairness

-----------------------------------------------------------------------------
(* Properties *)

\* The byte stream service, end to end: every byte that an end has received
\* and its application has not freed, in order or ahead of a gap, is the byte
\* that the other application wrote at that place of its stream.
StreamIntact == A!RxContent /\ B!RxContent

\* An end discards a byte only after the other end has it in order, and has
\* no byte in order that was not handed to the library for sending.
AckedIsReceived ==
  /\ aHist.acked <= bHist.rcvd /\ bHist.rcvd <= aHist.head
  /\ bHist.acked <= aHist.rcvd /\ aHist.rcvd <= bHist.head

\* Every byte handed to the library is in the end received, reported to the
\* other application and acknowledged, whatever the network loses, while the
\* receive buffer and the notification queue do not fill up.
SentIsDelivered ==
  /\ \A n \in 1 .. SendA :
       aHist.head >= n ~> bHist.known >= n /\ aHist.acked >= n
  /\ \A n \in 1 .. SendB :
       bHist.head >= n ~> aHist.known >= n /\ bHist.acked >= n
=============================================================================
