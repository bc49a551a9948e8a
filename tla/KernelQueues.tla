---------------------------- MODULE KernelQueues ----------------------------
(***************************************************************************)
(* The queues between the kernel and the fast path, one pair per core      *)
(* (kernel/nicif.c, flexnic/fast_kernel.c): rings in shared memory whose   *)
(* entries are handed over by their type field.  The kernel sends packets  *)
(* through core 0, from its main loop and from the thread that reads the   *)
(* TAP device, and retransmission requests through any core.               *)
(***************************************************************************)
EXTENDS Integers, Sequences

CONSTANTS
  NumCores,     \* fn_cores
  RxLen, TxLen, \* config.nic_rx_len, nic_tx_len
  Threads,      \* of the kernel that send packets
  Payloads      \* packets a thread sends

Cores == 0..NumCores - 1
Slots == 0..TxLen - 1
(* Packets are numbered modulo more than a ring holds. *)
Num == 0..RxLen + 1

KernelQueuesAssumption == {NumCores, RxLen, TxLen} \subseteq Nat \ {0} /\ RxLen <= TxLen

VARIABLES
  up,                        \* the core's queues were announced
  rx, rx_head, rx_tail,      \* receive rings; index of the fast path, of the kernel
  accepted, processed,       \* the number of the next packet to enter, to leave
  rxq_next,                  \* the core the kernel polls next
  tx, tx_head, tx_tail,      \* transmit rings
  hold,                      \* what each thread is composing
  sent,                      \* entries sent and not yet taken, oldest first
  intact                     \* the packet taken last was one packet, whole

rxvars == <<rx, rx_head, rx_tail, accepted, processed, rxq_next>>
txvars == <<tx, tx_head, tx_tail, hold, sent, intact>>
vars == <<up, rx, rx_head, rx_tail, accepted, processed, rxq_next, tx, tx_head, tx_tail, hold, sent, intact>>

NoPkt == -1
PacketOf(t, n) == <<t, n>>
Empty == [type |-> "none", len |-> PacketOf("none", 0), buf |-> PacketOf("none", 0)]
Nothing == [state |-> "idle", slot |-> 0, opaque |-> 0, pkt |-> PacketOf("none", 0)]

Init ==
  /\ up = [c \in Cores |-> FALSE]
  /\ rx = [c \in Cores |-> [i \in 0..RxLen - 1 |-> NoPkt]]
  /\ rx_head = [c \in Cores |-> 0] /\ rx_tail = rx_head /\ accepted = rx_head /\ processed = rx_head
  /\ rxq_next = 0 /\ tx = [c \in Cores |-> [i \in Slots |-> Empty]]
  /\ tx_head = rx_head /\ tx_tail = rx_head /\ hold = [t \in Threads |-> Nothing]
  /\ sent = [c \in Cores |-> <<>>] /\ intact = TRUE

(* adminq_init_core: the lengths, which tell the fast path of the queues,  *)
(* are written last.                                                       *)
AdminqInitCore(c) ==
  /\ ~up[c] /\ \A d \in 0..c - 1 : up[d]
  /\ up' = [up EXCEPT ![c] = TRUE] /\ UNCHANGED <<rxvars, txvars>>
Running == \A c \in Cores : up[c]
-----------------------------------------------------------------------------
(* Mutation of FastKernelPacket: a full ring is overwritten. *)
FastKernelPacketOver(c) ==
  /\ up[c]
  /\ rx' = [rx EXCEPT ![c][rx_head[c]] = accepted[c]]
  /\ rx_head' = [rx_head EXCEPT ![c] = (@ + 1) % RxLen]
  /\ accepted' = [accepted EXCEPT ![c] = (@ + 1) % (RxLen + 2)]
  /\ UNCHANGED <<up, rx_tail, processed, rxq_next, txvars>>

(* fast_kernel_packet, for a packet that fits; others are dropped. *)
FastKernelPacket(c) ==
  /\ up[c] /\ rx[c][rx_head[c]] = NoPkt
  /\ rx' = [rx EXCEPT ![c][rx_head[c]] = accepted[c]]
  /\ rx_head' = [rx_head EXCEPT ![c] = (@ + 1) % RxLen]
  /\ accepted' = [accepted EXCEPT ![c] = (@ + 1) % (RxLen + 2)]
  /\ UNCHANGED <<up, rx_tail, processed, rxq_next, txvars>>

FastKernelDrop(c) == (~up[c] \/ rx[c][rx_head[c]] # NoPkt) /\ UNCHANGED vars

(* Mutation of RxqPoll: a core that has packets is polled again. *)
RxqPollGreedy ==
  LET c == rxq_next
      r == rx[c][rx_tail[c]]
  IN /\ Running
     /\ IF r = NoPkt THEN rxq_next' = (c + 1) % NumCores /\ UNCHANGED <<rx, rx_tail, processed>>
        ELSE /\ processed' = [processed EXCEPT ![c] = (r + 1) % (RxLen + 2)]
             /\ rx' = [rx EXCEPT ![c][rx_tail[c]] = NoPkt]
             /\ rx_tail' = [rx_tail EXCEPT ![c] = (@ + 1) % RxLen]
             /\ UNCHANGED rxq_next
     /\ UNCHANGED <<up, rx_head, accepted, txvars>>

(* rxq_poll: one core after the other. *)
RxqPoll ==
  LET c == rxq_next
      r == rx[c][rx_tail[c]]
  IN /\ Running /\ rxq_next' = (c + 1) % NumCores
     /\ IF r = NoPkt THEN UNCHANGED <<rx, rx_tail, processed>>
        ELSE /\ processed' = [processed EXCEPT ![c] = (r + 1) % (RxLen + 2)]
             /\ rx' = [rx EXCEPT ![c][rx_tail[c]] = NoPkt]
             /\ rx_tail' = [rx_tail EXCEPT ![c] = (@ + 1) % RxLen]
     /\ UNCHANGED <<up, rx_head, accepted, txvars>>
-----------------------------------------------------------------------------
(* ktx_try_alloc: the next index wraps at the length of the receive ring. *)
Wrapped(i) == IF i + 1 = RxLen THEN 0 ELSE i + 1
Free(c) == tx[c][tx_tail[c]].type = "none"

(* nicif_tx_alloc, for a packet of its own length.  If the ring is full    *)
(* the caller drops its packet, except send_network_raw, which goes on     *)
(* with uninitialised values: that case is not modelled.                   *)
TxAlloc(t, n) ==
  /\ Running /\ hold[t].state = "idle" /\ Free(0)
  /\ hold' = [hold EXCEPT ![t] = [state |-> "empty", slot |-> tx_tail[0], opaque |-> Wrapped(tx_tail[0]), pkt |-> PacketOf(t, n)]]
  /\ tx' = [tx EXCEPT ![0][tx_tail[0]].len = PacketOf(t, n)]
  /\ UNCHANGED <<up, rxvars, tx_head, tx_tail, sent, intact>>

(* The caller composes the packet in the buffer (send_control, arp_request,*)
(* send_network_raw).                                                      *)
Compose(t) ==
  /\ hold[t].state = "empty" /\ hold' = [hold EXCEPT ![t].state = "full"]
  /\ tx' = [tx EXCEPT ![0][hold[t].slot].buf = hold[t].pkt]
  /\ UNCHANGED <<up, rxvars, tx_head, tx_tail, sent, intact>>

(* nicif_tx_send *)
TxSend(t) ==
  /\ hold[t].state = "full" /\ hold' = [hold EXCEPT ![t] = Nothing]
  /\ LET i == IF hold[t].opaque = 0 THEN TxLen - 1 ELSE hold[t].opaque - 1
     IN tx' = [tx EXCEPT ![0][i].type = "packet"]
  /\ tx_tail' = [tx_tail EXCEPT ![0] = hold[t].opaque]
  /\ sent' = [sent EXCEPT ![0] = Append(@, <<"packet", hold[t].pkt>>)]
  /\ UNCHANGED <<up, rxvars, tx_head, intact>>

(* nicif_connection_retransmit, by the main loop: not while it composes. *)
Retransmit(c) ==
  /\ Running /\ hold["main"].state = "idle" /\ Free(c)
  /\ tx' = [tx EXCEPT ![c][tx_tail[c]].type = "retran"]
  /\ tx_tail' = [tx_tail EXCEPT ![c] = Wrapped(@)]
  /\ sent' = [sent EXCEPT ![c] = Append(@, <<"retran", PacketOf("none", 0)>>)]
  /\ UNCHANGED <<up, rxvars, tx_head, hold, intact>>

(* fast_kernel_poll *)
FastKernelPoll(c) ==
  LET e == tx[c][tx_head[c]]
  IN /\ up[c] /\ e.type # "none"
     /\ intact' = (e.type = "packet" => e.len = e.buf)
     /\ tx' = [tx EXCEPT ![c][tx_head[c]].type = "none"]
     /\ tx_head' = [tx_head EXCEPT ![c] = (@ + 1) % TxLen]
     /\ sent' = [sent EXCEPT ![c] = IF @ = <<>> THEN @ ELSE Tail(@)]
     /\ UNCHANGED <<up, rxvars, tx_tail, hold>>

Next ==
  \/ RxqPoll
  \/ \E c \in Cores :
       AdminqInitCore(c) \/ FastKernelPacket(c) \/ FastKernelDrop(c) \/ Retransmit(c) \/ FastKernelPoll(c)
  \/ \E t \in Threads : Compose(t) \/ TxSend(t) \/ \E n \in Payloads : TxAlloc(t, n)

(* The kernel's loop and every core's poll run. *)
Fairness == WF_vars(RxqPoll) /\ \A c \in Cores : WF_vars(AdminqInitCore(c)) /\ WF_vars(FastKernelPoll(c))

Spec == Init /\ [][Next]_vars /\ Fairness

(* While a thread has an entry of core 0, which nicif_tx_alloc leaves in   *)
(* place, no other thread takes, composes or sends one.  The code does not *)
(* ensure it (README, deviations).                                         *)
Unmixed ==
  \A t \in Threads :
    hold[t].state # "idle" /\ hold'[t] = hold[t] => hold' = hold /\ Len(sent'[0]) <= Len(sent[0])
-----------------------------------------------------------------------------
(* Types *)
TypeOK ==
  /\ \A c \in Cores : \A i \in 0..RxLen - 1 : rx[c][i] \in Num \cup {NoPkt}
  /\ \A c \in Cores : {tx_head[c], tx_tail[c]} \subseteq Slots /\ {rx_head[c], rx_tail[c]} \subseteq 0..RxLen - 1
  /\ \A c \in Cores : Len(sent[c]) <= TxLen

(* The receive ring holds exactly the packets accepted and not processed,  *)
(* in order from the kernel's index: none is lost, doubled or reordered,   *)
(* although the two sides share no index.                                  *)
RxInOrder ==
  \A c \in Cores : \E k \in 0..RxLen :
    /\ accepted[c] = (processed[c] + k) % (RxLen + 2)
    /\ \A i \in 0..RxLen - 1 :
         rx[c][(rx_tail[c] + i) % RxLen] = IF i < k THEN (processed[c] + i) % (RxLen + 2) ELSE NoPkt

(* The transmit ring holds exactly what was sent and not taken, in order.  *)
TxInOrder ==
  \A c \in Cores : \A i \in Slots :
    LET e == tx[c][(tx_head[c] + i) % TxLen]
    IN IF i < Len(sent[c])
       THEN e.type = sent[c][i + 1][1] /\ (e.type = "packet" => {e.len, e.buf} = {sent[c][i + 1][2]})
       ELSE e.type = "none"

(* What both rings promise. *)
RingsInOrder == TypeOK /\ RxInOrder /\ TxInOrder

(* "lens need to match": what the fast path sends is one packet, with its  *)
(* own length.                                                             *)
Intact == intact

(* Every packet for the kernel is processed, from whichever core: rxq_poll *)
(* goes round although one core may always have packets.                   *)
RxServed ==
  \A c \in Cores : \A n \in Num : (processed[c] = n /\ accepted[c] # n) ~> (processed[c] # n)

(* What the kernel sends is taken: a core that has something to take       *)
(* advances.                                                               *)
TxServed ==
  \A c \in Cores : \A h \in Slots : (sent[c] # <<>> /\ tx_head[c] = h) ~> (tx_head[c] # h)
=============================================================================
