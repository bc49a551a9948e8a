------------------------------ MODULE FastFlow ------------------------------
(***************************************************************************)
(* One end of an established connection: the flow state in NIC memory that *)
(* the fast path works on (flexnic/fast_flows.c), the application library's*)
(* connection (stack/conn.c, stack/init.c) and the shared-memory queues    *)
(* between them.  The fast path and the application run concurrently; the  *)
(* handlers of the fast path hold fs->lock, and the two sides meet only in *)
(* the queues, so one handler, one library call or one iteration of the    *)
(* library's poll loop is one atomic step.                                 *)
(*                                                                         *)
(* The network is the environment: any segment of the peer's byte stream   *)
(* with any ack and window may arrive at any time, in any order, any       *)
(* number of times.                                                        *)
(*                                                                         *)
(* A byte is represented by its index in the stream it belongs to.         *)
(***************************************************************************)
EXTENDS TcpCommon, Sequences

CONSTANTS MSS,         \* TCP_MSS, largest payload sent
          ArxLen,      \* entries of the queue fast path -> application
          AtxLen,      \* entries of the queue application -> fast path
          LocalIsn,    \* number of the first byte sent
          RemoteIsn,   \* number of the first byte received
          Offsets,     \* where a segment may start, from the next byte expected
          Lens,        \* payload lengths of arriving segments
          Acks,        \* what they acknowledge, from the first unacknowledged byte
          Windows,     \* windows they carry
          TxChunks,    \* lengths the application allocates and sends
          RxChunks,    \* lengths the application frees
          MaxRcvd,     \* bound: length of the peer's stream
          MaxSend,     \* bound: bytes the application sends
          MaxCredit    \* bound: no segment arrives above this much credit

ASSUME FastFlowAssumption ==
  /\ MSS \in Nat /\ MSS > 0 /\ MSS < LenMod
  /\ ArxLen \in Nat /\ AtxLen \in Nat
  /\ LocalIsn \in 0 .. SeqMod - 1 /\ RemoteIsn \in 0 .. SeqMod - 1
  /\ Offsets \subseteq -SeqMod .. SeqMod - 1
  /\ Acks \subseteq -SeqMod .. SeqMod - 1
  /\ Lens \subseteq 0 .. LenMod - 1 /\ Windows \subseteq 0 .. LenMod - 1
  /\ TxChunks \subseteq Nat \ {0} /\ RxChunks \subseteq Nat \ {0}
  /\ MaxRcvd \in Nat /\ MaxSend \in Nat /\ MaxCredit \in Nat

\* No segment lives in the network for so long that its sequence numbers have
\* come round again to the receive buffer: the 32-bit numbers tell the bytes of
\* the stream apart that segments in the network hold (RFC 793, section 3.3).
\* The fast path has no other way to tell them apart.
ASSUME SegmentLifetime == Offsets \subseteq RxLen - SeqMod + 1 .. SeqMod - LenMod

VARIABLES
  fs,      \* struct flextcp_pl_flowst
  conn,    \* struct flextcp_connection, and whether the application is polling
  kout,    \* the kernel's "connection opened" event is in the context queue
  arx,     \* queue fast path -> application
  atx,     \* queue application -> fast path
  qm,      \* bytes the queue manager will still let this flow send
  txbuf,   \* transmit buffer
  rxbuf,   \* receive buffer
  hist     \* stream indices that the 32-bit state cannot tell apart (ghost)

vars == <<fs, conn, kout, arx, atx, qm, txbuf, rxbuf, hist>>

NoByte == -1

\* A segment as fast_flows_packet sees it.  kind is "ack" or "plain" (ACK flag
\* not set) for the flags the fast path handles, "syn" or "other" for the rest.
Segment(kind, seq, ack, wnd, data) ==
  [kind |-> kind, seq |-> seq, ack |-> ack, wnd |-> wnd, data |-> data]

-----------------------------------------------------------------------------
(* Flow state transformations of the fast path *)

\* Mutation of flow_reset_retransmit: the position to send from stays.
reset_no_pos(f) ==
  [f EXCEPT !.rx_dupack_cnt = 0,
            !.tx_next_seq   = U32(@ - f.tx_sent),
            !.tx_sent       = 0]

\* Forget that the unacknowledged bytes were sent.
flow_reset_retransmit(f) ==
  [f EXCEPT !.rx_dupack_cnt = 0,
            !.tx_next_seq   = U32(@ - f.tx_sent),
            !.tx_next_pos   = CircBack(@, f.tx_sent, TxLen),
            !.tx_sent       = 0]

\* The segment carries an ack that is processed; the bytes it acknowledges.
ack_valid(f, p) == p.kind = "ack" /\ tcp_valid_rxack(f, p.ack)
tx_bump(f, p) == IF ack_valid(f, p) THEN rxack_bump(f, p.ack) ELSE 0

\* The third duplicate ack in a row.
third_dupack(f, p) ==
  /\ ack_valid(f, p) /\ rxack_bump(f, p.ack) = 0
  /\ Len(p.data) = 0 /\ f.rx_dupack_cnt + 1 >= 3

\* Acknowledged bytes beyond tx_sent were sent before a retransmission reset.
rx_ack(f, p) ==
  LET b == rxack_bump(f, p.ack)
      future == IF b <= f.tx_sent THEN 0 ELSE b - f.tx_sent
  IN  IF ~ack_valid(f, p) THEN f
      ELSE IF b # 0
      THEN [f EXCEPT !.tx_sent       = IF b <= @ THEN @ - b ELSE 0,
                     !.tx_next_seq   = U32(@ + future),
                     !.tx_next_pos   = CircFwd(@, future, TxLen),
                     !.rx_dupack_cnt = 0]
      ELSE IF third_dupack(f, p) THEN flow_reset_retransmit(f)
      ELSE IF Len(p.data) = 0 THEN [f EXCEPT !.rx_dupack_cnt = @ + 1]
      ELSE f

\* The trims of a segment, and what they leave of its payload: the first
\* sequence number and the length.
rx_trim(f, p) == tcp_trim_rxbuf(f, p.seq, Len(p.data))
pay_seq(p, t) == U32(p.seq + t.trim_start)
pay_len(p, t) == Len(p.data) - (t.trim_start + t.trim_end)

\* The segment is next in order, or has payload that lies ahead.
rx_inorder(f, p, t) == ~t.drop /\ pay_seq(p, t) = f.rx_next_seq
rx_ahead(f, p, t) == /\ ~t.drop /\ pay_seq(p, t) # f.rx_next_seq
                     /\ pay_len(p, t) > 0

\* The single out-of-order interval can take a payload that lies ahead: it is
\* empty, or the payload is adjacent to it.
ooo_below(f, p, t) == U32(pay_seq(p, t) + pay_len(p, t)) = f.rx_ooo_start
ooo_above(f, p, t) == U32(f.rx_ooo_start + f.rx_ooo_len) = pay_seq(p, t)
ooo_takes(f, p, t) ==
  f.rx_ooo_len = 0 \/ ooo_below(f, p, t) \/ ooo_above(f, p, t)

rx_ooo(f, p, t) ==
  IF f.rx_ooo_len = 0
  THEN [f EXCEPT !.rx_ooo_start = pay_seq(p, t), !.rx_ooo_len = pay_len(p, t)]
  ELSE IF ooo_below(f, p, t)
  THEN [f EXCEPT !.rx_ooo_start = pay_seq(p, t), !.rx_ooo_len = @ + pay_len(p, t)]
  ELSE [f EXCEPT !.rx_ooo_len = @ + pay_len(p, t)]

\* Mutation of rx_advance: a position equal to the length does not wrap.
rx_advance_late(f, n) ==
  [f EXCEPT !.rx_avail    = @ - n,
            !.rx_next_pos = IF @ + n > RxLen THEN @ + n - RxLen ELSE @ + n,
            !.rx_next_seq = U32(@ + n)]

\* `n' more bytes are in order.
rx_advance(f, n) ==
  [f EXCEPT !.rx_avail    = @ - n,
            !.rx_next_pos = CircFwd(@, n, RxLen),
            !.rx_next_seq = U32(@ + n)]

\* Mutation of rx_catchup: the out-of-order interval is left as it was.
rx_catchup_none(f) == f

\* Cut the out-of-order interval to what is still missing; drop it, or take it
\* in when the in-order bytes have reached it.
rx_catchup(f) ==
  LET t == tcp_trim_rxbuf(f, f.rx_ooo_start, f.rx_ooo_len)
      start == U32(f.rx_ooo_start + t.trim_start)
      len == f.rx_ooo_len - (t.trim_start + t.trim_end)
  IN  IF f.rx_ooo_len = 0 THEN f
      ELSE IF t.drop THEN [f EXCEPT !.rx_ooo_len = 0]
      ELSE IF len > 0 /\ start = f.rx_next_seq
      THEN [rx_advance(f, len) EXCEPT !.rx_ooo_start = start, !.rx_ooo_len = 0]
      ELSE [f EXCEPT !.rx_ooo_start = start, !.rx_ooo_len = len]

\* An in-order segment: it alone updates the peer's window.
rx_next(f, p, t) ==
  LET g == [f EXCEPT !.rx_remote_avail = p.wnd]
  IN  IF pay_len(p, t) > 0 THEN rx_catchup(rx_advance(g, pay_len(p, t))) ELSE g

rx_data(f, p, t) ==
  IF rx_inorder(f, p, t) THEN rx_next(f, p, t)
  ELSE IF rx_ahead(f, p, t) /\ ooo_takes(f, p, t) THEN rx_ooo(f, p, t)
  ELSE f

\* The payload is copied to the receive buffer, at the position of its number.
rx_stores(f, p, t) ==
  /\ ~third_dupack(f, p) /\ pay_len(p, t) > 0
  /\ rx_inorder(f, p, t) \/ (rx_ahead(f, p, t) /\ ooo_takes(f, p, t))

\* Mutation of rx_write: payload ahead of a gap is stored where the gap starts.
rx_write_next(buf, f, p, t) ==
  [i \in DOMAIN buf |->
     LET k == CircDist(f.rx_next_pos, i, RxLen)
     IN  IF k < pay_len(p, t) THEN p.data[t.trim_start + k + 1] ELSE buf[i]]

rx_write(buf, f, p, t) ==
  LET pos == CircFwd(f.rx_next_pos, U32(pay_seq(p, t) - f.rx_next_seq), RxLen)
  IN  [i \in DOMAIN buf |->
         LET k == CircDist(pos, i, RxLen)
         IN  IF k < pay_len(p, t) THEN p.data[t.trim_start + k + 1]
                                  ELSE buf[i]]

\* Mutation of rx_freed: the distance is taken from the next byte expected.
rx_freed_next(f, rx_tail) == CircDist(f.rx_next_pos, rx_tail, RxLen)

\* flast_flows_bump: the bytes the bump frees in the receive buffer.  A bump
\* that frees the whole buffer has rx_tail = tail and frees nothing.
rx_freed(f, rx_tail) ==
  CircDist(CircFwd(f.rx_next_pos, f.rx_avail, RxLen), rx_tail, RxLen)

\* Mutation of flow_bump: the bytes freed replace the free bytes.
flow_bump_set(f, b) == [f EXCEPT !.bump_seq = b.bump_seq,
                                 !.tx_head  = b.tx_head,
                                 !.rx_avail = rx_freed(f, b.rx_tail)]

flow_bump(f, b) == [f EXCEPT !.bump_seq = b.bump_seq,
                             !.tx_head  = b.tx_head,
                             !.rx_avail = @ + rx_freed(f, b.rx_tail)]

\* fast_flows_qman: the payload sent, and the flow state afterwards.
tx_seglen(f) == MinOf(tcp_txavail(f, f.tx_head), MSS)
flow_sent(f, n) == [f EXCEPT !.tx_next_seq = U32(@ + n),
                             !.tx_next_pos = CircFwd(@, n, TxLen),
                             !.tx_sent     = @ + n]

-----------------------------------------------------------------------------
(* Segments sent *)

\* Window field: 16 bits, no window scaling.
wnd_field(f) == MinOf(LenMod - 1, f.rx_avail)

tx_read(buf, pos, n) == [i \in 1 .. n |-> buf[CircFwd(pos, i - 1, TxLen)]]

\* Mutation of tx_ack_segment: bytes ahead of a gap count as received.
ack_with_ooo(f) ==
  Segment("ack", f.tx_next_seq, U32(f.rx_next_seq + f.rx_ooo_len),
          wnd_field(f), << >>)

\* Pure ack, and data segment, as built from flow state f.
tx_ack_segment(f) ==
  Segment("ack", f.tx_next_seq, f.rx_next_seq, wnd_field(f), << >>)
tx_data_segment(f, buf) ==
  Segment("ack", f.tx_next_seq, f.rx_next_seq, wnd_field(f),
          tx_read(buf, f.tx_next_pos, tx_seglen(f)))

\* The segments that the handlers below send: an ack for every payload, even
\* one that is discarded; a window update when the receive buffer was full and
\* nothing can be sent that would carry it; data.
packet_sends(p) ==
  IF ~fs.slowpath /\ p.kind \in {"ack", "plain"} /\ Len(p.data) > 0
  THEN {tx_ack_segment(fs')} ELSE {}
bump_sends(b) ==
  IF tcp_txavail(fs, b.tx_head) = 0 /\ fs.rx_avail = 0 /\ fs'.rx_avail # 0
  THEN {tx_ack_segment(fs')} ELSE {}
qman_sends == IF tx_seglen(fs) > 0 THEN {tx_data_segment(fs, txbuf)} ELSE {}

-----------------------------------------------------------------------------
(* Fast path *)

\* Mutation of credit: it is added only when nothing could be sent before.
credit_rearm(f, g) ==
  IF tcp_txavail(f, f.tx_head) = 0 THEN qm + tcp_txavail(g, g.tx_head) ELSE qm

\* Credit is added for every byte that has become sendable.
credit(f, g) ==
  LET old == tcp_txavail(f, f.tx_head)
      new == tcp_txavail(g, g.tx_head)
  IN  IF new > old THEN qm + (new - old) ELSE qm

\* fast_actx_rxq_add: a notification that finds the queue full is lost.
notify(rx, tx) ==
  arx' = IF (rx = 0 /\ tx = 0) \/ Len(arx) >= ArxLen THEN arx
         ELSE Append(arx, [rx_bump |-> rx, tx_bump |-> tx,
                           rcvd |-> hist.rcvd + rx, acked |-> hist.acked + tx])

\* A segment for the kernel.  Flags other than SYN leave the flow in the slow
\* path for good.
slowpath_packet(p) ==
  /\ fs.slowpath \/ p.kind \in {"syn", "other"}
  /\ fs' = [fs EXCEPT !.slowpath = @ \/ p.kind = "other"]
  /\ UNCHANGED <<conn, kout, arx, atx, qm, txbuf, rxbuf, hist>>

fastpath_packet(p) ==
  /\ ~fs.slowpath /\ p.kind \in {"ack", "plain"}
  /\ \E f \in {rx_ack(fs, p)}, t \in {rx_trim(fs, p)} :
     \E g \in {IF third_dupack(fs, p) THEN f ELSE rx_data(f, p, t)} :
       LET rx == fs.rx_avail - g.rx_avail
           tx == tx_bump(fs, p)
       IN  /\ fs' = g
           /\ rxbuf' = IF rx_stores(fs, p, t) THEN rx_write(rxbuf, fs, p, t)
                       ELSE rxbuf
           /\ notify(rx, tx)
           /\ qm' = credit(fs, g)
           /\ hist' = [hist EXCEPT !.rcvd = @ + rx, !.acked = @ + tx]
  /\ UNCHANGED <<conn, kout, atx, txbuf>>

fast_flows_packet(p) == slowpath_packet(p) \/ fastpath_packet(p)

\* The fast path takes the next entry of the application's queue.
fast_appctx_poll == atx # << >> /\ atx' = Tail(atx)

\* The entry is a bump; it is applied unless it is older than the last one.
flast_flows_bump ==
  /\ fast_appctx_poll
  /\ LET b == Head(atx)
         g == flow_bump(fs, b)
     IN  IF bump_stale(b.bump_seq, fs.bump_seq)
         THEN UNCHANGED <<fs, qm>>
         ELSE fs' = g /\ qm' = credit(fs, g)
  /\ UNCHANGED <<conn, kout, arx, txbuf, rxbuf, hist>>

\* The queue manager fires the flow's queue: it spends up to one segment of
\* credit.
queue_fire == qm > 0 /\ qm' = qm - MinOf(qm, MSS)

\* The flow sends one segment if it has anything to send.
fast_flows_qman ==
  /\ queue_fire
  /\ fs' = flow_sent(fs, tx_seglen(fs))
  /\ UNCHANGED <<conn, kout, arx, atx, txbuf, rxbuf, hist>>

\* The kernel asks for a retransmission when it saw unacknowledged bytes and no
\* progress for several control intervals.  How long that is depends on clocks
\* and on the round trip estimate, so it may ask at any time; a request that
\* finds nothing unacknowledged changes nothing.
issue_retransmits == fs.tx_sent > 0

\* Mutation of fast_flows_retransmit: the queue manager is not told.
retransmit_no_credit ==
  /\ issue_retransmits
  /\ fs' = flow_reset_retransmit(fs)
  /\ UNCHANGED <<conn, kout, arx, atx, qm, txbuf, rxbuf, hist>>

\* The fast path starts again from the first unacknowledged byte.
fast_flows_retransmit ==
  /\ issue_retransmits
  /\ fs' = flow_reset_retransmit(fs)
  /\ qm' = credit(fs, flow_reset_retransmit(fs))
  /\ UNCHANGED <<conn, kout, arx, atx, txbuf, rxbuf, hist>>

-----------------------------------------------------------------------------
(* Application library *)

\* Mutation of conn_tx_allocbytes: no byte stays unused.
tx_allocbytes_all == TxLen - CircDist(conn.txb_tail, conn.txb_head_alloc, TxLen)

\* Received bytes not yet freed, free bytes of the transmit buffer (one byte
\* stays unused) and bytes allocated but not sent, from the positions.
conn_rx_recvdbytes == CircDist(conn.rxb_tail, conn.rxb_head, RxLen)
conn_tx_allocbytes == TxLen - 1 - CircDist(conn.txb_tail, conn.txb_head_alloc, TxLen)
conn_tx_sendbytes == CircDist(conn.txb_head, conn.txb_head_alloc, TxLen)

\* The kernel queues the event after it has added the flow to the fast path.
appif_conn_opened ==
  /\ conn.status = "requested" /\ ~kout
  /\ kout' = TRUE
  /\ UNCHANGED <<fs, conn, arx, atx, qm, txbuf, rxbuf, hist>>

\* flextcp_context_poll: the kernel queue comes first.  Until the event is seen,
\* rxb_head counts notified bytes without wrapping; the event asserts that they
\* are fewer than the buffer holds.  Polls of an open connection that would
\* find and do nothing are left out.
context_poll ==
  /\ ~conn.polling /\ conn.status # "aborted"
  /\ conn.status = "requested" \/ arx # << >> \/ conn.bump_pending
  /\ kout' = FALSE
  /\ conn' = [conn EXCEPT !.polling = TRUE,
                          !.status = IF ~kout THEN @
                                     ELSE IF conn.rxb_head < RxLen THEN "open"
                                     ELSE "aborted"]
  /\ UNCHANGED <<fs, arx, atx, qm, txbuf, rxbuf, hist>>

\* One notification is taken from the queue.
event_arx_connupdate ==
  /\ conn.polling /\ conn.status # "aborted" /\ arx # << >>
  /\ arx' = Tail(arx)
  /\ LET e == Head(arx)
     IN  /\ conn' = IF conn.status = "open"
                    THEN [conn EXCEPT
                            !.rxb_head = CircFwd(@, e.rx_bump, RxLen),
                            !.txb_tail = CircFwd(@, e.tx_bump, TxLen)]
                    ELSE [conn EXCEPT !.rxb_head = @ + e.rx_bump]
         /\ hist' = [hist EXCEPT !.known = @ + e.rx_bump, !.tail = @ + e.tx_bump]
  /\ UNCHANGED <<fs, kout, atx, qm, txbuf, rxbuf>>

\* The end of a poll, when the queue is empty or the event array is full: the
\* pending bump is queued unless the queue is full.
conns_bump ==
  /\ conn.polling /\ conn.status # "aborted"
  /\ IF conn.bump_pending /\ Len(atx) < AtxLen
     THEN /\ atx' = Append(atx, [rx_tail |-> conn.rxb_tail,
                                 tx_head |-> conn.txb_head,
                                 bump_seq |-> conn.bump_seq,
                                 freed |-> hist.freed, head |-> hist.head])
          /\ conn' = [conn EXCEPT !.polling = FALSE,
                                  !.bump_pending = FALSE,
                                  !.bump_seq = U32(@ + 1),
                                  !.rxb_nictail = conn.rxb_tail]
     ELSE /\ conn' = [conn EXCEPT !.polling = FALSE]
          /\ UNCHANGED atx
  /\ UNCHANGED <<fs, kout, arx, qm, txbuf, rxbuf, hist>>

\* Library calls are made between polls, on an open connection.
user == ~conn.polling /\ conn.status = "open"

\* The application is done with the next `len' received bytes; the fast path is
\* told once a quarter of the buffer has been received since the last bump.
connection_rx_done(len) ==
  /\ user /\ len <= conn_rx_recvdbytes
  /\ conn' = [conn EXCEPT
                !.rxb_tail = CircFwd(@, len, RxLen),
                !.bump_pending =
                   @ \/ U32(conn.rxb_head - conn.rxb_nictail) % RxLen >= RxLen \div 4]
  /\ hist' = [hist EXCEPT !.freed = @ + len]
  /\ UNCHANGED <<fs, kout, arx, atx, qm, txbuf, rxbuf>>

\* The application asks for `len' bytes and fills what it gets with its next
\* bytes: at most what is free, and unless it takes two pieces (tx_alloc2) at
\* most up to the end of the buffer.
tx_allocated(len, pieces) ==
  LET n == MinOf(len, conn_tx_allocbytes)
  IN  IF pieces = 2 THEN n ELSE MinOf(n, TxLen - conn.txb_head_alloc)

connection_tx_alloc(len, pieces) ==
  LET n == tx_allocated(len, pieces)
  IN  /\ user /\ hist.alloc + n <= MaxSend
      /\ conn' = [conn EXCEPT !.txb_head_alloc = CircFwd(@, n, TxLen)]
      /\ txbuf' = [i \in DOMAIN txbuf |->
                     LET k == CircDist(conn.txb_head_alloc, i, TxLen)
                     IN  IF k < n THEN hist.alloc + k ELSE txbuf[i]]
      /\ hist' = [hist EXCEPT !.alloc = @ + n]
      /\ UNCHANGED <<fs, kout, arx, atx, qm, rxbuf>>

connection_tx_send(len) ==
  /\ user /\ len <= conn_tx_sendbytes
  /\ conn' = [conn EXCEPT !.txb_head = CircFwd(@, len, TxLen),
                          !.bump_pending = TRUE]
  /\ hist' = [hist EXCEPT !.head = @ + len]
  /\ UNCHANGED <<fs, kout, arx, atx, qm, txbuf, rxbuf>>

-----------------------------------------------------------------------------
(* Specification *)

\* nicif_connection_add; the flow's memory is zero before.
FlowInit == [rx_avail |-> RxLen, rx_next_pos |-> 0, rx_next_seq |-> RemoteIsn,
             rx_remote_avail |-> RxLen, rx_dupack_cnt |-> 0,
             rx_ooo_start |-> 0, rx_ooo_len |-> 0,
             tx_sent |-> 0, tx_next_pos |-> 0, tx_next_seq |-> LocalIsn,
             tx_head |-> 0, bump_seq |-> 0, slowpath |-> FALSE]

connection_init ==
  [status |-> "requested", polling |-> FALSE, bump_pending |-> FALSE,
   bump_seq |-> 0, rxb_head |-> 0, rxb_tail |-> 0, rxb_nictail |-> 0,
   txb_head |-> 0, txb_head_alloc |-> 0, txb_tail |-> 0]

InitWith(status) ==
  /\ fs = FlowInit
  /\ conn = [connection_init EXCEPT !.status = status]
  /\ kout = FALSE /\ arx = << >> /\ atx = << >> /\ qm = 0
  /\ txbuf = [i \in 0 .. TxLen - 1 |-> NoByte]
  /\ rxbuf = [i \in 0 .. RxLen - 1 |-> NoByte]
  /\ hist = [rcvd |-> 0, known |-> 0, freed |-> 0,
             acked |-> 0, tail |-> 0, head |-> 0, alloc |-> 0]

Init == InitWith("requested")

\* The network delivers a segment of the peer's stream that starts `off' bytes
\* from the next one expected.
network_rx ==
  \E off \in Offsets, len \in Lens, a \in Acks, wnd \in Windows,
     kind \in {"ack", "plain", "syn", "other"} :
    LET seq == U32(fs.rx_next_seq + off)
        ack == U32(U32(fs.tx_next_seq - fs.tx_sent) + a)
        data == [i \in 1 .. len |-> hist.rcvd + off + i - 1]
    IN  /\ qm <= MaxCredit
        /\ hist.rcvd + off >= 0 /\ hist.rcvd + off + len <= MaxRcvd
        /\ ~TrimMisses(fs, seq, len)
        /\ fast_flows_packet(Segment(kind, seq, ack, wnd, data))

Library ==
  \/ context_poll \/ event_arx_connupdate \/ conns_bump
  \/ \E len \in RxChunks : connection_rx_done(len)
  \/ \E len \in TxChunks :
       \/ \E pieces \in {1, 2} : connection_tx_alloc(len, pieces)
       \/ connection_tx_send(len)

Next ==
  \/ network_rx
  \/ flast_flows_bump \/ fast_flows_qman \/ fast_flows_retransmit
  \/ appif_conn_opened
  \/ Library

Spec == Init /\ [][Next]_vars

-----------------------------------------------------------------------------
(* Properties *)

FlowState ==
  [rx_avail : 0 .. RxLen, rx_next_pos : 0 .. RxLen - 1, rx_next_seq : SeqNo,
   rx_remote_avail : SeqNo, rx_dupack_cnt : 0 .. 2,
   rx_ooo_start : SeqNo, rx_ooo_len : 0 .. RxLen,
   tx_sent : 0 .. TxLen - 1, tx_next_pos : 0 .. TxLen - 1, tx_next_seq : SeqNo,
   tx_head : 0 .. TxLen - 1, bump_seq : SeqNo, slowpath : BOOLEAN]

Connection ==
  [status : {"requested", "open", "aborted"}, polling : BOOLEAN,
   bump_pending : BOOLEAN, bump_seq : SeqNo, rxb_head : 0 .. RxLen,
   rxb_tail : 0 .. RxLen - 1, rxb_nictail : 0 .. RxLen - 1,
   txb_head : 0 .. TxLen - 1, txb_head_alloc : 0 .. TxLen - 1,
   txb_tail : 0 .. TxLen - 1]

Notification == [rx_bump : Nat, tx_bump : Nat, rcvd : Nat, acked : Nat]
Bump == [rx_tail : 0 .. RxLen - 1, tx_head : 0 .. TxLen - 1, bump_seq : SeqNo,
         freed : Nat, head : Nat]
Indices == [rcvd : Nat, known : Nat, freed : Nat,
            acked : Nat, tail : Nat, head : Nat, alloc : Nat]

\* Every variable has its type: in particular the unsigned counters rx_avail,
\* tx_sent and rx_ooo_len never wrap below zero or grow past their buffer, and
\* no position leaves its buffer, whatever segments arrive.
TypeOK ==
  /\ fs \in FlowState
  /\ conn \in Connection
  /\ kout \in BOOLEAN
  /\ arx \in Seq(Notification)
  /\ atx \in Seq(Bump)
  /\ qm \in Nat
  /\ txbuf \in [0 .. TxLen - 1 -> Int]
  /\ rxbuf \in [0 .. RxLen - 1 -> Int]
  /\ hist \in Indices

\* Stream index behind the data the fast path may send, and of the first byte
\* whose place in the receive buffer the fast path regards as occupied.
nic_head == hist.acked + fs.tx_sent + tx_unsent(fs, fs.tx_head)
nic_tail == hist.rcvd + fs.rx_avail - RxLen

\* The fast path never takes the place of a byte that the application has not
\* freed: what it regards as free in flast_flows_bump is free.
RxNoOverrun == nic_tail <= hist.freed /\ hist.freed <= hist.known
                 /\ hist.known <= hist.rcvd

\* The out-of-order interval lies in the free part of the receive buffer, and
\* never touches the next byte expected.
ooo_fits(f) ==
  f.rx_ooo_len > 0 =>
    LET off == U32(f.rx_ooo_start - f.rx_next_seq)
    IN  off > 0 /\ off + f.rx_ooo_len <= f.rx_avail
OooInWindow == ooo_fits(fs)

\* A byte of the transmit buffer is reused only after it was acknowledged, and
\* the pointers of library and fast path never overtake each other, lost
\* notifications and acks of unsent bytes included.
TxNoReuse ==
  /\ hist.tail <= hist.acked /\ nic_head <= hist.head
  /\ hist.head <= hist.alloc /\ hist.alloc < hist.tail + TxLen

\* The assertion on tx_bump in event_arx_connupdate: nothing is acknowledged
\* before the application has seen its connection open, whatever acks arrive.
NoEarlyTxBump ==
  conn.status = "requested" => \A i \in DOMAIN arx : arx[i].tx_bump = 0

\* Received bytes stay intact until they are freed, and so do bytes received
\* ahead of a gap: each is where the positions say, with the value sent.
RxContent ==
  LET off == U32(fs.rx_ooo_start - fs.rx_next_seq)
  IN  /\ \A i \in hist.freed .. hist.rcvd - 1 :
             rxbuf[CircBack(fs.rx_next_pos, hist.rcvd - i, RxLen)] = i
      /\ \A k \in off .. off + fs.rx_ooo_len - 1 :
             rxbuf[CircFwd(fs.rx_next_pos, k, RxLen)] = hist.rcvd + k

\* Bytes handed to the library stay intact in the transmit buffer until they
\* are acknowledged, so a retransmission sends what was sent before.
TxContent ==
  \A i \in hist.acked .. hist.head - 1 :
    txbuf[CircFwd(CircBack(fs.tx_next_pos, fs.tx_sent, TxLen),
                  i - hist.acked, TxLen)] = i

\* No lost wake-up: the queue manager always holds credit for every byte that
\* could be sent now, though credit is only ever added by differences.
QmanCovers == qm >= tcp_txavail(fs, fs.tx_head)

\* The right edge of the window a flow advertises, as a sequence number.
win_edge(f) == U32(f.rx_next_seq + f.rx_avail)

\* The right edge of the advertised window never moves back, and never by more
\* than the receive buffer at once, whatever order segments and bumps come in.
WindowNeverShrinks == [][U32(win_edge(fs') - win_edge(fs)) <= RxLen]_vars

\* The comment of conn_rx_recvdbytes: it is the number of bytes in the receive
\* buffer that have been received (and not freed).
RecvdBytesExact ==
  conn.status = "open" => conn_rx_recvdbytes = hist.known - hist.freed

\* The assertion in event_kappin_conn_opened: the bytes notified before the
\* event are fewer than the receive buffer holds.
OpenAssertion == conn.status # "aborted"

\* The comment of tcp_txavail: what is sent is based on the flow control
\* window, so unacknowledged bytes never exceed the window when sending.
SendInWindow ==
  [][fs'.tx_sent > fs.tx_sent => fs'.tx_sent <= fs.rx_remote_avail]_vars
=============================================================================
