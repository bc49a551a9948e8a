------------------------------ MODULE SockData ------------------------------
(***************************************************************************)
(* The data path of the socket layer over one connection: events of the    *)
(* stack (stack/init.c) become at most two pieces of the circular receive  *)
(* buffer (sockets/context.c), which recv and recvmsg hand out, and send   *)
(* and sendmsg allocate and fill the circular transmit buffer              *)
(* (sockets/transfer.c, stack/conn.c).  One thread; while a call waits it  *)
(* only polls.  Bytes are identified by their place in the buffers.        *)
(***************************************************************************)
EXTENDS Integers, Sequences, SequencesExt

CONSTANTS RxLen, TxLen,  \* sizes of the buffers
          Iovs           \* vectors of lengths that calls are made with

DataAssumption == RxLen \in Nat \ {0} /\ TxLen \in Nat \ {0} /\ Iovs \subseteq Seq(Nat)

VARIABLES
  c,        \* struct flextcp_connection
  sk,       \* struct socket
  used,     \* bytes of the receive buffer the stack has not got back
  call,     \* the call in progress: which, and its vector
  rd,       \* place of the next byte of the stream the application reads
  out,      \* places the last receive copied from, and where it started
  in,       \* places the last send copied to, as <<place, byte>>, and start
  aborted

vars == <<c, sk, used, call, rd, out, in, aborted>>

Null == -1
NoCall == [op |-> "app", iov |-> <<>>]
Total(iov) == FoldLeft(LAMBDA a, b : a + b, 0, iov)
Least(a, b) == IF a < b THEN a ELSE b

Init ==
  /\ c = [open |-> FALSE, rxb_head |-> 0, rxb_tail |-> 0, txb_head |-> 0, txb_head_alloc |-> 0, txb_tail |-> 0]
  /\ sk \in {[connected |-> FALSE, b1 |-> Null, l1 |-> 0, b2 |-> Null, l2 |-> 0, ep |-> {}, nonblock |-> n] : n \in BOOLEAN}
  /\ used = 0 /\ rd = 0 /\ aborted = "no" /\ call = NoCall
  /\ out = [from |-> 0, bytes |-> <<>>, want |-> 0] /\ in = [from |-> 0, bytes |-> {}, n |-> 0]
-----------------------------------------------------------------------------
(* Mutation of Received: the first piece grows without comparing places. *)
ReceivedGrow(k, buf, len) ==
  CASE k.l1 = 0 -> [k EXCEPT !.b1 = buf, !.l1 = len, !.l2 = 0, !.ep = @ \cup {"in"}]
    [] k.l1 # 0 /\ k.l2 = 0 -> [k EXCEPT !.l1 = @ + len, !.ep = @ \cup {"in"}]
    [] OTHER -> [k EXCEPT !.l2 = @ + len, !.ep = @ \cup {"in"}]

(* ev_conn_received: a new piece, or one that continues the first or the   *)
(* second.                                                                 *)
Received(k, buf, len) ==
  CASE k.l1 = 0 -> [k EXCEPT !.b1 = buf, !.l1 = len, !.l2 = 0, !.ep = @ \cup {"in"}]
    [] k.l1 # 0 /\ k.l2 = 0 /\ buf = k.b1 + k.l1 -> [k EXCEPT !.l1 = @ + len, !.ep = @ \cup {"in"}]
    [] k.l1 # 0 /\ ~(k.l2 = 0 /\ buf = k.b1 + k.l1) /\ buf = k.b2 + k.l2 ->
         [k EXCEPT !.l2 = @ + len, !.ep = @ \cup {"in"}]
    [] OTHER -> [k EXCEPT !.b2 = buf, !.l2 = len, !.ep = @ \cup {"in"}]

(* More than two pieces. *)
ThirdPiece(k, buf) == k.l1 # 0 /\ k.l2 # 0 /\ buf # k.b2 + k.l2

(* The events event_arx_connupdate makes of a bump: two if it wraps. *)
RxEvents(head, bump) ==
  IF bump = 0 THEN <<>>
  ELSE IF head + bump > RxLen THEN <<<<head, RxLen - head>>, <<0, head + bump - RxLen>>>>
  ELSE <<<<head, bump>>>>

(* conn_tx_allocbytes *)
Free(k) == IF k.txb_tail <= k.txb_head_alloc THEN TxLen - k.txb_head_alloc + k.txb_tail - 1
           ELSE k.txb_tail - k.txb_head_alloc - 1

(* An update from the NIC reaches the open connection in a poll: rx bytes  *)
(* were received and tx bytes acknowledged.                                *)
Update(rx, tx) ==
  LET evs == RxEvents(c.rxb_head, rx)
      k == FoldLeft(LAMBDA s, e : Received(s, e[1], e[2]), sk, evs) IN
  /\ c.open /\ rx + tx > 0
  /\ rx <= RxLen - used /\ tx <= (c.txb_head - c.txb_tail) % TxLen
  /\ c' = [c EXCEPT !.rxb_head = (@ + rx) % RxLen, !.txb_tail = (@ + tx) % TxLen]
  /\ sk' = IF tx > 0 /\ Free(c) = 0 THEN [k EXCEPT !.ep = @ \cup {"out"}] ELSE k
  /\ aborted' = IF \E i \in DOMAIN evs :
                       ThirdPiece(IF i = 1 THEN sk ELSE Received(sk, evs[1][1], evs[1][2]), evs[i][1])
                  THEN "pieces" ELSE aborted
  /\ used' = used + rx
  /\ UNCHANGED <<call, rd, out, in>>

(* An update before the connection is confirmed is only counted. *)
EarlyUpdate(rx) ==
  /\ ~c.open /\ rx > 0 /\ rx <= RxLen - used
  /\ c' = [c EXCEPT !.rxb_head = @ + rx] /\ used' = used + rx
  /\ UNCHANGED <<sk, call, rd, out, in, aborted>>

(* The confirmation: event_kappin_conn_opened or event_kappin_accept_conn  *)
(* injects the bytes counted so far as a second event.                     *)
Opened ==
  LET k == [sk EXCEPT !.connected = TRUE, !.ep = @ \cup {"out"}] IN
  /\ ~c.open
  /\ c' = [c EXCEPT !.open = TRUE] /\ aborted' = IF c.rxb_head >= RxLen THEN "early" ELSE aborted
  /\ sk' = IF c.rxb_head > 0 THEN Received(k, 0, c.rxb_head) ELSE k
  /\ UNCHANGED <<used, call, rd, out, in>>
-----------------------------------------------------------------------------
Places(b, n) == [i \in 1..n |-> b + i - 1]

(* Copy into one part of the caller's vector: all of the first piece and   *)
(* then of what was the second, or part of the first.                      *)
CopyOut(r, n) ==
  LET all == r.k.l1 <= n
      k1 == IF all THEN [r.k EXCEPT !.b1 = r.k.b2, !.l1 = r.k.l2, !.b2 = Null, !.l2 = 0] ELSE r.k
      off == IF all THEN r.k.l1 ELSE 0
      m == Least(k1.l1, n - off)
  IN IF r.k.l1 = 0 THEN r
     ELSE [k |-> [k1 EXCEPT !.b1 = @ + m, !.l1 = @ - m],
           bytes |-> r.bytes \o Places(r.k.b1, off) \o Places(k1.b1, m)]

(* The copy, and flextcp_connection_rx_done, which gives up without effect *)
(* when the buffer seems to hold less: rxb_head = rxb_tail also when it is *)
(* full.                                                                   *)
Recvd(iov) ==
  LET r == FoldLeft(CopyOut, [k |-> sk, bytes |-> <<>>], iov)
      n == Len(r.bytes)
      have == (c.rxb_head - c.rxb_tail) % RxLen IN
  /\ sk' = IF r.k.l1 = 0 THEN [r.k EXCEPT !.ep = @ \ {"in"}] ELSE r.k
  /\ c' = IF have < n THEN c ELSE [c EXCEPT !.rxb_tail = (@ + n) % RxLen]
  /\ used' = IF have < n THEN used ELSE used - n
  /\ out' = [from |-> rd, bytes |-> r.bytes, want |-> Least(Total(iov), sk.l1 + sk.l2)]
  /\ rd' = (rd + n) % RxLen /\ call' = NoCall

(* recv, read, recvfrom (a vector of one) and recvmsg: without data EAGAIN *)
(* or wait.                                                                *)
Recv(iov) ==
  /\ call.op = "app" /\ sk.connected /\ Total(iov) > 0
  /\ IF sk.l1 > 0 THEN Recvd(iov)
     ELSE /\ sk' = [sk EXCEPT !.ep = @ \ {"in"}]
          /\ call' = IF sk.nonblock THEN NoCall ELSE [op |-> "recv", iov |-> iov]
          /\ UNCHANGED <<c, used, rd, out>>
  /\ UNCHANGED <<in, aborted>>

RecvWaited ==
  /\ call.op = "recv" /\ sk.l1 > 0 /\ Recvd(call.iov)
  /\ UNCHANGED <<in, aborted>>
-----------------------------------------------------------------------------
(* split_write: l bytes of the message from off on, into two parts of      *)
(* len_1 bytes at b1 and the rest at the start of the buffer.              *)
SplitWrite(b1, len1, off, l) ==
  {<<IF i < len1 THEN b1 + i ELSE i - len1, i>> : i \in off..off + l - 1}

(* The loop of sendmsg over the caller's vector, n bytes in all. *)
CopyIn(b1, len1, n, iov) ==
  LET off(i) == Total(SubSeq(iov, 1, i - 1)) IN
  UNION {SplitWrite(b1, len1, off(i), Least(iov[i], n - off(i))) : i \in {j \in DOMAIN iov : off(j) < n}}

(* conn_tx_sendbytes *)
Pending(k) == (k.txb_head_alloc - k.txb_head) % TxLen

(* flextcp_connection_tx_alloc2 with room, the copy, and                   *)
(* flextcp_connection_tx_send, which is tried until it succeeds.           *)
Sent(iov) ==
  LET n == Least(Total(iov), Free(c))
      len1 == IF c.txb_head_alloc + n > TxLen THEN TxLen - c.txb_head_alloc ELSE n
      a == [c EXCEPT !.txb_head_alloc = (@ + n) % TxLen] IN
  /\ in' = [from |-> c.txb_head_alloc, bytes |-> CopyIn(c.txb_head_alloc, len1, n, iov), n |-> n]
  /\ IF Pending(a) < n THEN c' = a /\ call' = [op |-> "flush", iov |-> <<n>>]
     ELSE c' = [a EXCEPT !.txb_head = (@ + n) % TxLen] /\ call' = NoCall

(* send, write, sendto and sendmsg: without room EAGAIN or wait. *)
Send(iov) ==
  /\ call.op = "app" /\ sk.connected /\ Total(iov) > 0
  /\ IF Free(c) > 0 THEN Sent(iov)
     ELSE call' = (IF sk.nonblock THEN NoCall ELSE [op |-> "send", iov |-> iov]) /\ UNCHANGED <<c, in>>
  /\ UNCHANGED <<sk, used, rd, out, aborted>>

SendWaited ==
  /\ call.op = "send" /\ Free(c) > 0 /\ Sent(call.iov)
  /\ UNCHANGED <<sk, used, rd, out, aborted>>

(* fcntl(F_SETFL) *)
SetNonblock ==
  /\ call.op = "app" /\ sk' = [sk EXCEPT !.nonblock = ~@]
  /\ UNCHANGED <<c, used, call, rd, out, in, aborted>>

Next ==
  /\ aborted = "no"
  /\ \/ \E rx \in 0..RxLen, tx \in 0..TxLen : Update(rx, tx)
     \/ \E rx \in 1..RxLen : EarlyUpdate(rx)
     \/ Opened \/ RecvWaited \/ SendWaited \/ SetNonblock
     \/ \E iov \in Iovs : Recv(iov) \/ Send(iov)

Spec == Init /\ [][Next]_vars
-----------------------------------------------------------------------------
(* Types of positions and lengths. *)
TypeOK ==
  /\ c.rxb_head \in 0..RxLen /\ c.rxb_tail \in 0..RxLen - 1 /\ used \in 0..RxLen
  /\ {c.txb_head, c.txb_head_alloc, c.txb_tail} \subseteq 0..TxLen - 1
  /\ sk.l1 \in 0..RxLen /\ sk.l2 \in 0..RxLen /\ sk.b1 \in -1..RxLen /\ sk.b2 \in -1..RxLen

(* The pieces of the socket are, in order, the bytes of the receive buffer *)
(* that were not read, each inside the buffer: none twice, none left out.  *)
PiecesExact ==
  sk.connected /\ aborted = "no" =>
    /\ sk.l1 = 0 => sk.l2 = 0
    /\ \A i \in 0..sk.l1 - 1 : sk.b1 + i < RxLen /\ sk.b1 + i = (rd + i) % RxLen
    /\ \A i \in 0..sk.l2 - 1 : sk.b2 + i < RxLen /\ sk.b2 + i = (rd + sk.l1 + i) % RxLen
    /\ (rd + sk.l1 + sk.l2) % RxLen = c.rxb_head % RxLen

(* A receive copies the next bytes of the stream, as many as are there and *)
(* fit into the vector.                                                    *)
RecvExact ==
  /\ Len(out.bytes) = out.want
  /\ \A i \in DOMAIN out.bytes : out.bytes[i] = (out.from + i - 1) % RxLen

(* A send copies the bytes of the message, in order, to the next places of *)
(* the transmit buffer.                                                    *)
SendExact == in.bytes = {<<(in.from + i) % TxLen, i>> : i \in 0..in.n - 1}

(* The socket is readable for epoll exactly when a receive finds data. *)
ReadableExact == sk.connected => ("in" \in sk.ep <=> sk.l1 > 0)

(* The stack never delivers more than two pieces. *)
TwoPieces == aborted # "pieces"

(* Sending does not block a non-blocking socket: once space was allocated, *)
(* flextcp_connection_tx_send succeeds.                                    *)
NonblockReturns == call.op # "flush" /\ (call.op # "app" => ~sk.nonblock)

(* The bytes counted before the connection is confirmed do not reach the   *)
(* end of the buffer.                                                      *)
EarlyFits == aborted # "early"

(* EPOLLOUT is active on the socket only when there is room to send. *)
WritableExact == "out" \in sk.ep => Free(c) > 0
=============================================================================
