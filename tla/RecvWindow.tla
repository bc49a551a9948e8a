----------------------------- MODULE RecvWindow -----------------------------
(***************************************************************************)
(* How the receive window of a stream connection opens and closes: the     *)
(* fast path takes segments and notifies the library, the application      *)
(* polls with room for some events and frees what it read, and the library *)
(* tells the fast path in bumps, now and then.  The peer knows the window  *)
(* of the last segment that reached it.  Data and its acknowledgement are  *)
(* retransmitted until they are through (TcpPair), so they are one step;   *)
(* nothing retransmits a window update.                                    *)
(***************************************************************************)
EXTENDS Integers, Sequences, FiniteSetsExt

CONSTANTS
  RxLen,      \* rxb_len
  Mss,        \* TCP_MSS
  Room,       \* events the application polls for at once
  MaxUnread,  \* bytes the peer's application sends ahead of this one
  QueueLen,   \* of the context's queue to the fast path
  Lossy       \* a window update can be lost

RecvWindowAssumption ==
  /\ RxLen \in Nat /\ RxLen >= 4 /\ Mss \in Nat \ {0} /\ Room \in Nat \ {0}
  /\ MaxUnread \in 1..RxLen /\ QueueLen \in Nat \ {0} /\ Lossy \in BOOLEAN

VARIABLES
  rx_next_pos, rx_avail,                    \* of the flow
  wnd,                                      \* the window the peer knows of
  arx, atx,                                 \* rx_bump and rx_tail in the context's queues
  rxb_head, rxb_tail, rxb_nictail, pending, \* of the connection
  unread                                    \* bytes received and not freed

vars == <<rx_next_pos, rx_avail, wnd, arx, atx, rxb_head, rxb_tail, rxb_nictail, pending, unread>>

Fwd(p, n) == IF p + n >= RxLen THEN p + n - RxLen ELSE p + n

Init ==
  /\ rx_next_pos = 0 /\ rx_avail = RxLen /\ wnd = RxLen /\ arx = <<>> /\ atx = <<>>
  /\ rxb_head = 0 /\ rxb_tail = 0 /\ rxb_nictail = 0 /\ pending = FALSE /\ unread = 0
-----------------------------------------------------------------------------
(* Mutation of Receive: the acknowledgement has the window from before. *)
ReceiveStale(n) ==
  /\ n <= wnd /\ n <= rx_avail /\ unread + n <= MaxUnread
  /\ rx_next_pos' = Fwd(rx_next_pos, n) /\ rx_avail' = rx_avail - n /\ wnd' = rx_avail
  /\ arx' = Append(arx, n) /\ unread' = unread + n
  /\ UNCHANGED <<atx, rxb_head, rxb_tail, rxb_nictail, pending>>

(* fast_flows_packet, in order, and its acknowledgement. *)
Receive(n) ==
  /\ n <= wnd /\ n <= rx_avail /\ unread + n <= MaxUnread
  /\ rx_next_pos' = Fwd(rx_next_pos, n) /\ rx_avail' = rx_avail - n /\ wnd' = rx_avail - n
  /\ arx' = Append(arx, n) /\ unread' = unread + n
  /\ UNCHANGED <<atx, rxb_head, rxb_tail, rxb_nictail, pending>>

(* What a bump frees. *)
Freed(rx_tail) ==
  LET tail == Fwd(rx_next_pos, rx_avail)
  IN IF rx_tail >= tail THEN rx_tail - tail ELSE RxLen - tail + rx_tail

(* "receive buffer freed up from empty, need to send out a window update". *)
Update(avail) ==
  IF rx_avail = 0 /\ avail # 0
  THEN wnd' = avail \/ (Lossy /\ wnd' = wnd)
  ELSE wnd' = wnd

(* flast_flows_bump, with nothing to send. *)
FlowBump ==
  /\ atx # <<>> /\ atx' = Tail(atx)
  /\ rx_avail' = rx_avail + Freed(Head(atx)) /\ Update(rx_avail')
  /\ UNCHANGED <<rx_next_pos, arx, rxb_head, rxb_tail, rxb_nictail, pending, unread>>
-----------------------------------------------------------------------------
(* The head, and the events used, after i notifications of the queue. *)
After[i \in 0..Len(arx)] ==
  IF i = 0 THEN [head |-> rxb_head, events |-> 0]
  ELSE LET b == After[i - 1]
           wraps == b.head + arx[i] > RxLen
       IN [head |-> Fwd(b.head, arx[i]), events |-> b.events + IF wraps THEN 2 ELSE 1]

(* flextcp_context_poll: event_arx_connupdate for the notifications that   *)
(* fit, then conns_bump.                                                   *)
Poll ==
  LET n == Max({i \in 0..Len(arx) : After[i].events <= Room})
      bump == pending /\ Len(atx) < QueueLen
  IN /\ arx # <<>> \/ bump
     /\ arx' = SubSeq(arx, n + 1, Len(arx)) /\ rxb_head' = After[n].head
     /\ atx' = (IF bump THEN Append(atx, rxb_tail) ELSE atx)
     /\ rxb_nictail' = (IF bump THEN rxb_tail ELSE rxb_nictail) /\ pending' = (pending /\ ~bump)
     /\ UNCHANGED <<rx_next_pos, rx_avail, wnd, rxb_tail, unread>>

(* conn_rx_recvdbytes *)
Received == IF rxb_tail <= rxb_head THEN rxb_head - rxb_tail ELSE RxLen - rxb_tail + rxb_head

(* flextcp_connection_rx_done *)
RxDone(n) ==
  /\ n <= Received
  /\ rxb_tail' = Fwd(rxb_tail, n) /\ unread' = unread - n
  /\ pending' = (pending \/ (rxb_head - rxb_nictail) % RxLen >= RxLen \div 4)
  /\ UNCHANGED <<rx_next_pos, rx_avail, wnd, arx, atx, rxb_head, rxb_nictail>>

Next == (\E n \in 1..Mss : Receive(n)) \/ FlowBump \/ Poll \/ \E n \in 1..RxLen : RxDone(n)

(* The peer sends while it may, the fast path serves its queues, and the   *)
(* application polls and frees what it read.                               *)
Fairness ==
  /\ WF_vars(\E n \in 1..Mss : Receive(n))
  /\ WF_vars(FlowBump) /\ WF_vars(Poll) /\ WF_vars(\E n \in 1..RxLen : RxDone(n))

Spec == Init /\ [][Next]_vars /\ Fairness
-----------------------------------------------------------------------------
(* Types *)
TypeOK ==
  /\ {rx_next_pos, rxb_head, rxb_tail, rxb_nictail} \subseteq 0..RxLen - 1
  /\ rx_avail \in 0..RxLen /\ wnd \in 0..RxLen /\ unread \in 0..RxLen /\ pending \in BOOLEAN

(* However late notifications and bumps are, the fast path never counts    *)
(* bytes as free that the application has not freed, and the peer never    *)
(* has a window beyond them.                                               *)
NothingOverwritten == wnd <= rx_avail /\ rx_avail + unread <= RxLen

(* A window that closed is opened again: bytes the application freed are   *)
(* announced to the fast path and by it to the peer.                       *)
Reopens == wnd = 0 ~> wnd > 0

(* "if we can't fit all events, try again later": the next notification is *)
(* taken some time.                                                        *)
Taken == \A p \in 0..RxLen - 1 : (arx # <<>> /\ rxb_head = p) ~> rxb_head # p
=============================================================================
