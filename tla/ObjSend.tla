------------------------------ MODULE ObjSend -------------------------------
(***************************************************************************)
(* The send side of an object connection (stack/conn.c, stack/init.c,      *)
(* flexnic/fast_flows.c).  Threads allocate objects in the send buffer and *)
(* declare them ready in any order; the library announces the ready prefix *)
(* in bumps, each on the queue of the thread's context; the fast path cuts *)
(* what it may send into segments that end with an object.  Of the queue   *)
(* manager only this flow's entry is kept (Qman has the rest).  The peer   *)
(* acknowledges in order and does not take its window back.                *)
(***************************************************************************)
EXTENDS Integers, Sequences

CONSTANTS
  Contexts,   \* of the application
  TxLen,      \* txb_len
  Sizes,      \* lengths of objects, header included
  HdrLen,     \* sizeof(struct obj_hdr) + dstlen
  Mss,        \* TCP_MSS
  Windows,    \* windows the peer announces
  QueueLen,   \* of a context's queue to the fast path
  BumpMod     \* values of bump_seq, 2^32 in the code

ObjSendAssumption ==
  /\ TxLen \in Nat \ {0} /\ HdrLen \in Nat \ {0} /\ Mss \in Nat /\ HdrLen <= Mss
  /\ Sizes \subseteq HdrLen..TxLen - 1 /\ Windows \subseteq Nat

VARIABLES
  txb_head_alloc, txb_head, txb_nichead, txb_tail, \* the library's positions
  hdr,                \* headers in the buffer, at their position
  held,               \* positions of the objects the threads are filling
  objs,               \* objects from the tail on, in order
  bump_seq, atx,      \* bumps: the next number, and the contexts' queues
  arx,                \* acknowledged lengths on their way to the library
  tx_head, tx_next_pos, tx_sent, tx_objrem, rx_remote_avail, rx_dupack_cnt, fs_bump_seq,
  credit, chunk,      \* avail and max_chunk of the queue manager's entry
  aborted             \* the fast path called abort()

libvars == <<txb_head_alloc, txb_head, txb_nichead, txb_tail, hdr, held, objs, bump_seq>>
fsvars == <<tx_head, tx_next_pos, tx_sent, tx_objrem, rx_remote_avail, rx_dupack_cnt, fs_bump_seq, credit, chunk, aborted>>
vars == <<libvars, atx, arx, fsvars>>

Pos == 0..TxLen - 1
Fwd(p, n) == IF p + n >= TxLen THEN p + n - TxLen ELSE p + n
Dist(p, q) == (q - p) % TxLen
Least(a, b) == IF a <= b THEN a ELSE b
NoHdr == [len |-> 0, done |-> FALSE]

(* tcp_txavail with the head h *)
TxAvail(h) == Least(Dist(tx_next_pos, h), rx_remote_avail - tx_sent)

Init ==
  /\ txb_head_alloc = 0 /\ txb_head = 0 /\ txb_nichead = 0 /\ txb_tail = 0
  /\ hdr = [p \in Pos |-> NoHdr] /\ held = {} /\ objs = <<>>
  /\ bump_seq = 0 /\ atx = [c \in Contexts |-> <<>>] /\ arx = <<>>
  /\ tx_head = 0 /\ tx_next_pos = 0 /\ tx_sent = 0 /\ tx_objrem = 0
  /\ rx_remote_avail \in {w \in Windows : \A v \in Windows : v <= w}  \* the length of the receive buffer
  /\ rx_dupack_cnt = 0 /\ fs_bump_seq = 0 /\ credit = 0 /\ chunk = 0 /\ aborted = FALSE
-----------------------------------------------------------------------------
(* The application library *)

(* conn_tx_allocbytes *)
AllocBytes == Dist(txb_head_alloc, txb_tail - 1)

(* flextcp_obj_connection_tx_alloc: a header with clear flags, and what    *)
(* was there before is overwritten with the object.                        *)
TxAlloc(len) ==
  /\ len <= AllocBytes
  /\ hdr' = [p \in Pos |-> IF p = txb_head_alloc THEN [len |-> len, done |-> FALSE]
                           ELSE IF Dist(txb_head_alloc, p) < len THEN NoHdr ELSE hdr[p]]
  /\ held' = held \cup {txb_head_alloc}
  /\ objs' = Append(objs, [pos |-> txb_head_alloc, len |-> len, ready |-> FALSE])
  /\ txb_head_alloc' = Fwd(txb_head_alloc, len)
  /\ UNCHANGED <<txb_head, txb_nichead, txb_tail, bump_seq, atx, arx, fsvars>>

(* The loop of tx_send: the end of the run of ready objects that starts    *)
(* with the one at p; k bounds the objects.                                *)
RunEnd[k \in 0..TxLen, p \in Pos] ==
  LET e == Fwd(p, hdr[p].len)
  IN IF k = 0 \/ e = txb_head_alloc \/ ~hdr[e].done THEN e ELSE RunEnd[k - 1, e]

(* flextcp_obj_connection_tx_send: the magic number of a sent object has   *)
(* the bit that is OBJ_FLAG_DONE.                                          *)
TxSend(p) ==
  /\ p \in held /\ held' = held \ {p}
  /\ objs' = [i \in DOMAIN objs |-> IF objs[i].pos = p THEN [objs[i] EXCEPT !.ready = TRUE] ELSE objs[i]]
  /\ hdr' = [hdr EXCEPT ![p].done = TRUE]
  /\ txb_head' = (IF p = txb_head THEN RunEnd[TxLen, p] ELSE txb_head)
  /\ UNCHANGED <<txb_head_alloc, txb_nichead, txb_tail, bump_seq, atx, arx, fsvars>>

(* flextcp_obj_connection_bump, with nothing received.  No bump is delayed *)
(* over half of the sequence numbers, 2^31 bumps in the code.              *)
Bump(c) ==
  /\ txb_head # txb_nichead /\ Len(atx[c]) < QueueLen
  /\ \A d \in Contexts : \A i \in DOMAIN atx[d] : (bump_seq - atx[d][i].seq) % BumpMod < BumpMod \div 2
  /\ atx' = [atx EXCEPT ![c] = Append(@, [seq |-> bump_seq, head |-> txb_head])]
  /\ bump_seq' = (bump_seq + 1) % BumpMod /\ txb_nichead' = txb_head
  /\ UNCHANGED <<txb_head_alloc, txb_head, txb_tail, hdr, held, objs, arx, fsvars>>

(* event_arx_objupdate, without a receive bump: the tail moves over what   *)
(* was acknowledged.                                                       *)
Acked ==
  /\ arx # <<>> /\ arx' = Tail(arx)
  /\ txb_tail' = Fwd(txb_tail, Head(arx))
  /\ objs' = SelectSeq(objs, LAMBDA o : Dist(txb_tail, Fwd(o.pos, o.len)) > Head(arx))
  /\ UNCHANGED <<txb_head_alloc, txb_head, txb_nichead, hdr, held, bump_seq, atx, fsvars>>
-----------------------------------------------------------------------------
(* The fast path *)

(* fast_flows_bump: an older bump is dropped; the entry is armed when      *)
(* there was nothing to send.                                              *)
FlowBump(c) ==
  LET b == Head(atx[c])
      old == (b.seq - fs_bump_seq) % BumpMod > BumpMod \div 2
      arm == TxAvail(tx_head) = 0 /\ TxAvail(b.head) # 0
  IN /\ ~aborted /\ atx[c] # <<>> /\ atx' = [atx EXCEPT ![c] = Tail(@)]
     /\ IF old THEN UNCHANGED <<fs_bump_seq, tx_head, credit, chunk>>
        ELSE /\ fs_bump_seq' = b.seq /\ tx_head' = b.head
             /\ credit' = (IF arm THEN credit + 1 ELSE credit) /\ chunk' = (IF arm THEN 1 ELSE chunk)
     /\ UNCHANGED <<libvars, arx, tx_next_pos, tx_sent, tx_objrem, rx_remote_avail, rx_dupack_cnt, aborted>>

(* What the fast path takes the object at tx_next_pos to have left, 0 if   *)
(* it aborts: the rest of the one it is in, or the length in the header.   *)
(* Where there is no header, data is read as one.                          *)
ObjLeft(n) ==
  IF tx_objrem > 0 THEN {tx_objrem}
  ELSE IF n < HdrLen THEN {0}
  ELSE IF hdr[tx_next_pos].len > 0 THEN {hdr[tx_next_pos].len}
  ELSE 0..TxLen

(* A segment of an object that has rem left, and the entry armed again if  *)
(* there is more to send.                                                  *)
Segment(rem) ==
  LET avail == TxAvail(tx_head)
      len == Least(Least(avail, Mss), rem)
      left == credit - Least(credit, chunk)
  IN /\ rem \in ObjLeft(Least(avail, Mss)) \ {0}
     /\ tx_objrem' = rem - len
     /\ tx_next_pos' = Fwd(tx_next_pos, len) /\ tx_sent' = tx_sent + len
     /\ credit' = (IF avail > len THEN left + 1 ELSE left) /\ chunk' = (IF avail > len THEN 1 ELSE chunk)
     /\ UNCHANGED aborted

(* fast_flows_qman, when the queue manager has credit for the flow. *)
SendSegment ==
  /\ ~aborted /\ credit > 0
  /\ \/ /\ TxAvail(tx_head) = 0 /\ credit' = credit - Least(credit, chunk)
        /\ UNCHANGED <<tx_objrem, tx_next_pos, tx_sent, chunk, aborted>>
     \/ TxAvail(tx_head) > 0 /\ \E rem \in 1..TxLen : Segment(rem)
  /\ UNCHANGED <<libvars, atx, arx, tx_head, rx_remote_avail, rx_dupack_cnt, fs_bump_seq>>

(* The header is not all there: fast_flows_qman calls abort(). *)
SendAbort ==
  /\ ~aborted /\ credit > 0 /\ TxAvail(tx_head) > 0
  /\ 0 \in ObjLeft(Least(TxAvail(tx_head), Mss)) /\ aborted' = TRUE
  /\ UNCHANGED <<libvars, atx, arx, tx_head, tx_next_pos, tx_sent, tx_objrem, rx_remote_avail, rx_dupack_cnt, fs_bump_seq, credit, chunk>>

(* Mutation of Rearm: only when the buffer was sent out, not when flow     *)
(* control capped it.                                                      *)
RearmSent(old, new) ==
  LET arm == new > old /\ old = 0 /\ tx_next_pos = tx_head
  IN credit' = (IF arm THEN credit + 1 ELSE credit) /\ chunk' = (IF arm THEN 1 ELSE chunk)

(* The end of fast_flows_packet *)
Rearm(old, new) ==
  LET arm == new > old /\ old = 0
  IN credit' = (IF arm THEN credit + 1 ELSE credit) /\ chunk' = (IF arm THEN 1 ELSE chunk)

(* fast_flows_packet: k more units acknowledged, and the window w, which   *)
(* reaches at least as far as the one before.                              *)
Ack(k, w) ==
  /\ ~aborted /\ k \in 1..tx_sent /\ w >= rx_remote_avail - k
  /\ tx_sent' = tx_sent - k /\ rx_remote_avail' = w /\ rx_dupack_cnt' = 0
  /\ arx' = Append(arx, k)
  /\ Rearm(TxAvail(tx_head), Least(Dist(tx_next_pos, tx_head), w - (tx_sent - k)))
  /\ UNCHANGED <<libvars, atx, tx_head, tx_next_pos, tx_objrem, fs_bump_seq, aborted>>

(* The peer's window update, when it had closed the window.  It counts as  *)
(* a duplicate acknowledgement.                                            *)
WindowUpdate(w) ==
  /\ ~aborted /\ tx_sent = 0 /\ rx_remote_avail = 0 /\ w > 0 /\ rx_dupack_cnt < 2
  /\ rx_remote_avail' = w /\ rx_dupack_cnt' = rx_dupack_cnt + 1
  /\ Rearm(0, Least(Dist(tx_next_pos, tx_head), w))
  /\ UNCHANGED <<libvars, atx, arx, tx_head, tx_next_pos, tx_sent, tx_objrem, fs_bump_seq, aborted>>
-----------------------------------------------------------------------------
(* Loss *)

(* flow_reset_retransmit *)
ResetRetransmit ==
  /\ rx_dupack_cnt' = 0 /\ tx_next_pos' = Dist(tx_sent, tx_next_pos) /\ tx_sent' = 0
  /\ UNCHANGED tx_objrem

AvailAfterReset == Least(Dist(Dist(tx_sent, tx_next_pos), tx_head), rx_remote_avail)

(* A duplicate acknowledgement; the third starts over from the last        *)
(* acknowledged position.                                                  *)
DupAck ==
  /\ ~aborted /\ tx_sent > 0
  /\ IF rx_dupack_cnt < 2
     THEN rx_dupack_cnt' = rx_dupack_cnt + 1 /\ UNCHANGED <<tx_next_pos, tx_sent, tx_objrem, credit, chunk>>
     ELSE ResetRetransmit /\ Rearm(TxAvail(tx_head), AvailAfterReset)
  /\ UNCHANGED <<libvars, atx, arx, tx_head, rx_remote_avail, fs_bump_seq, aborted>>

(* fast_flows_retransmit, for the kernel *)
Retransmit ==
  LET more == AvailAfterReset - TxAvail(tx_head)
  IN /\ ~aborted /\ tx_sent > 0 /\ ResetRetransmit
     /\ credit' = (IF more > 0 THEN credit + more ELSE credit) /\ chunk' = (IF more > 0 THEN Mss ELSE chunk)
     /\ UNCHANGED <<libvars, atx, arx, tx_head, rx_remote_avail, fs_bump_seq, aborted>>
-----------------------------------------------------------------------------
Next ==
  \/ (\E len \in Sizes : TxAlloc(len)) \/ (\E p \in held : TxSend(p)) \/ Acked
  \/ (\E c \in Contexts : Bump(c) \/ FlowBump(c)) \/ SendSegment
  \/ (\E w \in Windows : WindowUpdate(w) \/ \E k \in 1..TxLen : Ack(k, w))

NextLoss == Next \/ DupAck \/ Retransmit \/ SendAbort

(* The threads send what they allocated, bump and poll; the fast path      *)
(* serves its queues; the peer acknowledges and opens its window again.    *)
Fairness ==
  /\ (\A p \in Pos : WF_vars(TxSend(p))) /\ WF_vars(Acked) /\ WF_vars(\E c \in Contexts : Bump(c))
  /\ (\A c \in Contexts : WF_vars(FlowBump(c))) /\ WF_vars(SendSegment)
  /\ WF_vars(\E w \in Windows : WindowUpdate(w)) /\ WF_vars(\E w \in Windows, k \in 1..TxLen : Ack(k, w))

Spec == Init /\ [][Next]_vars /\ Fairness

(* With loss, and with windows that end within a header. *)
SpecLoss == Init /\ [][NextLoss]_vars
SpecWindow == Init /\ [][Next \/ SendAbort]_vars
-----------------------------------------------------------------------------
(* Types *)
TypeOK ==
  /\ {txb_head_alloc, txb_head, txb_nichead, txb_tail, tx_head, tx_next_pos} \subseteq Pos
  /\ held \subseteq Pos /\ tx_sent \in 0..TxLen /\ tx_objrem \in 0..TxLen /\ credit \in Nat
  /\ rx_remote_avail >= tx_sent

(* Whatever the order in which the threads finish their objects, the       *)
(* library's head is at the first that is not ready, and the fast path's   *)
(* never beyond it: no unfinished object is sent.                          *)
ReadyPrefix ==
  /\ \A i \in DOMAIN objs :
       ~objs[i].ready /\ (\A j \in 1..i - 1 : objs[j].ready) => txb_head = objs[i].pos
  /\ (\A i \in DOMAIN objs : objs[i].ready) => txb_head = txb_head_alloc
  /\ Dist(txb_tail, tx_next_pos) <= Dist(txb_tail, tx_head)
  /\ Dist(txb_tail, tx_head) <= Dist(txb_tail, txb_head)

(* While there is something the flow may send, the queue manager has       *)
(* credit for it: no order of bumps, segments, acknowledgements and        *)
(* retransmissions loses the wake-up.                                      *)
Armed == ~aborted /\ TxAvail(tx_head) > 0 => credit > 0

(* "we need to be careful to make segments end on segment boundaries": no  *)
(* segment reaches from one object into the next.                          *)
SegmentsWithinStep ==
  tx_sent' > tx_sent =>
    \A i \in DOMAIN objs :
      LET end == Dist(tx_next_pos, Fwd(objs[i].pos, objs[i].len))
      IN end = 0 \/ end >= tx_sent' - tx_sent
SegmentsWithin == [][SegmentsWithinStep]_vars

(* The abort of fast_flows_qman for "bump not on object boundary" and      *)
(* "header does not fit in first segment" is for an application that bumps *)
(* within an object; this one does not.                                    *)
NoAbort == ~aborted

(* What the library declared ready is sent. *)
Sent == \A p \in Pos : txb_head = p ~> tx_next_pos = p
=============================================================================
