------------------------------ MODULE ObjRecv -------------------------------
(***************************************************************************)
(* The receive side of an object connection (flexnic/fast_flows.c,         *)
(* stack/init.c, stack/conn.c).  The fast path cuts the stream into        *)
(* objects and steers each to a context; the contexts' threads find their  *)
(* objects complete and give them back in any order, under a lock, and the *)
(* buffer is freed from the front.  A header is one unit long.  Segments   *)
(* come in order in Spec; in SpecReorder the first segment of the next     *)
(* object may come before the end of this one.                             *)
(***************************************************************************)
EXTENDS Integers, Sequences, FiniteSets

CONSTANTS
  Contexts,   \* of the application
  RxLen,      \* rxb_len
  Sizes,      \* lengths of objects, header included
  MaxFill,    \* what the peer lets be outstanding, at most the window
  Apart       \* an object of several segments may go to another context than the one before it

ObjRecvAssumption ==
  RxLen \in Nat \ {0} /\ MaxFill \in 1..RxLen /\ Sizes \subseteq 1..RxLen /\ Apart \in BOOLEAN

VARIABLES
  pos, avail,          \* rx_next_pos, rx_avail of the flow
  objrem, db,          \* rx_objrem, and the context of the object, db_id
  ooo,                 \* length of the out-of-order interval, rx_ooo_len
  hdr,                 \* headers in the buffer, at their position
  notes,               \* the contexts' queues of notifications
  obj_len_rem, obj_pos,\* per context: the object being received
  rxb_head, rxb_tail, rxb_nictail,
  held,                \* positions of the objects the threads have
  live                 \* objects from the front of the buffer on, in order

fpvars == <<pos, avail, objrem, db, ooo>>
ctxvars == <<obj_len_rem, obj_pos>>
vars == <<pos, avail, objrem, db, ooo, hdr, notes, obj_len_rem, obj_pos, rxb_head, rxb_tail, rxb_nictail, held, live>>

Pos == 0..RxLen - 1

Off(p, n) == IF p + n >= RxLen THEN p + n - RxLen ELSE p + n
NoHdr == [len |-> 0, done |-> FALSE]

Init ==
  /\ pos = 0 /\ avail = RxLen /\ objrem = 0 /\ db \in Contexts /\ ooo = 0
  /\ hdr = [p \in Pos |-> NoHdr] /\ notes = [c \in Contexts |-> <<>>]
  /\ obj_len_rem = [c \in Contexts |-> 0] /\ obj_pos = obj_len_rem
  /\ rxb_head = 0 /\ rxb_tail = 0 /\ rxb_nictail = 0 /\ held = {} /\ live = <<>>
-----------------------------------------------------------------------------
(* fast_flows_packet, with n units of payload that end no later than the   *)
(* object: into the buffer, and a notification to the context of db_id as  *)
(* it was when the packet came: actx is read before the steering decision  *)
(* writes db_id.  When the payload closes the gap the out-of-order         *)
(* interval goes with it.                                                  *)
Receive(n, o, c) ==
  LET all == n + IF n = o.len THEN ooo ELSE 0
  IN /\ all <= avail /\ RxLen - avail + all <= MaxFill /\ n <= o.len
     /\ pos' = Off(pos, all) /\ avail' = avail - all /\ objrem' = o.len - n /\ db' = c
     /\ ooo' = (IF n = o.len THEN 0 ELSE ooo)
     /\ notes' = [notes EXCEPT ![db] = Append(@, [pos |-> pos, bump |-> all])]
     /\ UNCHANGED <<ctxvars, rxb_head, rxb_tail, rxb_nictail, held>>

(* The first segment has the header and with it the steering decision, for *)
(* the segments after it.                                                  *)
ReceiveNew(n, len, c) ==
  /\ objrem = 0 /\ (n = len \/ c = db \/ Apart) /\ Receive(n, [len |-> len], c)
  /\ hdr' = [hdr EXCEPT ![pos] = [len |-> len, done |-> FALSE]]
  /\ live' = Append(live, [pos |-> pos, len |-> len, done |-> FALSE])

ReceiveMore(n) == objrem > 0 /\ Receive(n, [len |-> objrem], db) /\ UNCHANGED <<hdr, live>>

(* The first segment of the next object comes before the end of this one:  *)
(* it is written where it belongs, without a look at the header, whose     *)
(* magic number keeps the bit that is OBJ_FLAG_DONE.                       *)
ReceiveOutOfOrder(n, len) ==
  /\ objrem > 0 /\ ooo = 0 /\ n <= len /\ objrem + n <= avail /\ RxLen - avail + objrem + n <= MaxFill
  /\ ooo' = n /\ hdr' = [hdr EXCEPT ![Off(pos, objrem)] = [len |-> len, done |-> TRUE]]
  /\ live' = Append(live, [pos |-> Off(pos, objrem), len |-> len, done |-> FALSE])
  /\ UNCHANGED <<pos, avail, objrem, db, notes, ctxvars, rxb_head, rxb_tail, rxb_nictail, held>>
-----------------------------------------------------------------------------
(* circ_in_interval *)
InInterval(s, e, p) == IF s < e THEN p >= s /\ p <= e ELSE p >= s \/ p <= e

(* event_arx_objupdate: a complete object goes to the application, and     *)
(* moves the head if it is beyond it.  It aborts if the notification is    *)
(* longer than the object.                                                 *)
Update(c) ==
  LET n == Head(notes[c])
      new == obj_len_rem[c] = 0
      start == IF new THEN n.pos ELSE obj_pos[c]
      rem == (IF new THEN hdr[n.pos].len ELSE obj_len_rem[c]) - n.bump
      end == Off(start, hdr[start].len)
  IN /\ notes[c] # <<>> /\ rem >= 0 /\ notes' = [notes EXCEPT ![c] = Tail(@)]
     /\ obj_len_rem' = [obj_len_rem EXCEPT ![c] = rem] /\ obj_pos' = [obj_pos EXCEPT ![c] = start]
     /\ held' = (IF rem = 0 THEN held \cup {start} ELSE held)
     /\ rxb_head' = (IF rem = 0 /\ InInterval(rxb_head, rxb_tail, end) THEN end ELSE rxb_head)
     /\ UNCHANGED <<fpvars, hdr, rxb_tail, rxb_nictail, live>>

(* The loop of rx_done, from the object at the tail on: the position after  *)
(* k more rounds.  It ends at the head or at an object not given back.     *)
RunEnd[k \in 0..RxLen] ==
  IF k = 0 THEN Off(rxb_tail, hdr[rxb_tail].len)
  ELSE LET e == RunEnd[k - 1]
       IN IF e = rxb_head \/ ~hdr[e].done THEN e ELSE Off(e, hdr[e].len)

(* What is left of the objects when the one at p is given back. *)
Returned(p) ==
  LET l == [i \in DOMAIN live |-> IF live[i].pos = p THEN [live[i] EXCEPT !.done = TRUE] ELSE live[i]]
      first == CHOOSE i \in 1..Len(l) + 1 :
                 (i = Len(l) + 1 \/ ~l[i].done) /\ \A j \in 1..i - 1 : l[j].done
  IN SubSeq(l, first, Len(l))

(* flextcp_obj_connection_rx_done *)
RxDone(p) ==
  /\ p \in held /\ held' = held \ {p} /\ live' = Returned(p)
  /\ IF p = rxb_tail
     THEN rxb_tail' = RunEnd[RxLen] /\ UNCHANGED hdr
     ELSE hdr' = [hdr EXCEPT ![p].done = TRUE] /\ UNCHANGED rxb_tail
  /\ UNCHANGED <<fpvars, notes, ctxvars, rxb_head, rxb_nictail>>

(* Mutation of Bump: waits for most of the buffer. *)
BumpLate ==
  /\ (rxb_head - rxb_nictail) % RxLen >= RxLen - 1
  /\ LET end == Off(pos, avail)
     IN avail' = avail + (IF rxb_tail >= end THEN rxb_tail - end ELSE RxLen - end + rxb_tail)
  /\ rxb_nictail' = rxb_tail
  /\ UNCHANGED <<pos, objrem, db, ooo, hdr, notes, ctxvars, rxb_head, rxb_tail, held, live>>

(* flextcp_obj_connection_bump, with nothing to send: if half of the       *)
(* buffer was received since; and flast_flows_bump.                        *)
Bump ==
  /\ (rxb_head - rxb_nictail) % RxLen >= RxLen \div 2
  /\ LET end == Off(pos, avail)
     IN avail' = avail + (IF rxb_tail >= end THEN rxb_tail - end ELSE RxLen - end + rxb_tail)
  /\ rxb_nictail' = rxb_tail
  /\ UNCHANGED <<pos, objrem, db, ooo, hdr, notes, ctxvars, rxb_head, rxb_tail, held, live>>

Next ==
  \/ \E n \in 1..RxLen : ReceiveMore(n) \/ \E len \in Sizes, c \in Contexts : ReceiveNew(n, len, c)
  \/ (\E c \in Contexts : Update(c)) \/ (\E p \in held : RxDone(p)) \/ Bump

(* The peer sends on an object it has begun, the threads poll, give        *)
(* objects back and bump.                                                  *)
Fairness ==
  /\ WF_vars(\E n \in 1..RxLen : ReceiveMore(n)) /\ WF_vars(Bump)
  /\ (\A c \in Contexts : WF_vars(Update(c))) /\ (\A p \in Pos : WF_vars(RxDone(p)))

Spec == Init /\ [][Next]_vars /\ Fairness

(* With segments out of order. *)
SpecReorder ==
  Init /\ [][Next \/ \E n \in 1..RxLen, len \in Sizes : ReceiveOutOfOrder(n, len)]_vars
-----------------------------------------------------------------------------
(* Types *)
TypeOK ==
  /\ {pos, rxb_head, rxb_tail, rxb_nictail} \subseteq Pos /\ avail \in 0..RxLen /\ held \subseteq Pos
  /\ \A c \in Contexts : obj_len_rem[c] \in 0..RxLen

(* The buffer is freed exactly up to the first object not given back,      *)
(* whatever the order in which the contexts finish.                        *)
FreedExact ==
  rxb_tail = IF live # <<>> THEN live[1].pos ELSE pos

(* "if this object is beyond any previously received objects, bump         *)
(* rxb_head": the head never moves back over objects a thread was given.   *)
HeadBeyond ==
  \A i \in DOMAIN live :
    live[i].pos \in held =>
      ((rxb_head - rxb_tail - 1) % RxLen) + 1 >= ((live[i].pos - rxb_tail) % RxLen) + live[i].len

(* event_arx_objupdate aborts on "rx bump larger than object": a           *)
(* notification never reaches past the object it is about, which is what   *)
(* lets it go to one context.                                              *)
BumpWithin ==
  \A c \in Contexts : notes[c] # <<>> =>
    Head(notes[c]).bump <= IF obj_len_rem[c] = 0 THEN hdr[Head(notes[c]).pos].len ELSE obj_len_rem[c]

(* "make steering decision": what an object's header decides is where its  *)
(* notifications go.                                                       *)
NotifiedSteered == [][\A c \in Contexts : Len(notes'[c]) > Len(notes[c]) => db' = c]_vars

(* An object whose first segment came is received. *)
Received == objrem > 0 ~> objrem = 0

(* Every object in the buffer is given to a thread. *)
Given ==
  \A p \in Pos :
    (\E i \in DOMAIN live : live[i].pos = p /\ ~live[i].done /\ p \notin held) ~> p \in held
=============================================================================
