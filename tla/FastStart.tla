----------------------------- MODULE FastStart ------------------------------
(***************************************************************************)
(* Start of the fast path (flexnic/flexnic.c, flexnic/network.c): every    *)
(* core sets up its own queues of the NIC, and the device, which must be   *)
(* started once and after all of them, is started by the core that finds   *)
(* itself last.                                                            *)
(***************************************************************************)
EXTENDS Integers

CONSTANT CoresMax   \* fp_cores_max

FastStartAssumption == CoresMax \in Nat \ {0}

Cores == 0..CoresMax - 1

VARIABLES
  launched,               \* threads_launched
  pc,                     \* of each core's thread
  rxq, txq,               \* cores whose queue is set up
  next_rx_id, next_tx_id, \* how many were counted
  starts,                 \* of the device
  ready,                  \* cores whose queues were all there when it started
  device_running,
  aborted                 \* the process

vars == <<launched, pc, rxq, txq, next_rx_id, next_tx_id, starts, ready, device_running, aborted>>

Init ==
  /\ launched = 0 /\ pc = [c \in Cores |-> "off"] /\ rxq = {} /\ txq = {}
  /\ next_rx_id = 0 /\ next_tx_id = 0 /\ starts = 0 /\ ready = Cores
  /\ device_running = FALSE /\ aborted = FALSE

At(c, l) == ~aborted /\ pc[c] = l
Go(c, l) == pc' = [pc EXCEPT ![c] = l]

(* common_thread: the receive queue first. *)
FirstStep == "rx"
AfterRx == IF FirstStep = "rx" THEN "tx" ELSE "context"
AfterTx == IF FirstStep = "rx" THEN "context" ELSE "rx"

(* start_threads; the last core runs on the main thread. *)
StartThread ==
  /\ ~aborted /\ launched < CoresMax /\ Go(launched, FirstStep) /\ launched' = launched + 1
  /\ UNCHANGED <<rxq, txq, next_rx_id, next_tx_id, starts, ready, device_running, aborted>>

(* network_rx_thread_init: the queue, *)
RxSetup(c) ==
  /\ At(c, "rx") /\ rxq' = rxq \cup {c} /\ Go(c, "rxcount")
  /\ UNCHANGED <<launched, txq, next_rx_id, next_tx_id, starts, ready, device_running, aborted>>

(* an atomic increment, and if this was the last receive queue *)
RxCount(c) ==
  /\ At(c, "rxcount") /\ next_rx_id' = next_rx_id + 1
  /\ Go(c, IF next_rx_id' = CoresMax THEN "rxlast" ELSE AfterRx)
  /\ UNCHANGED <<launched, rxq, txq, next_tx_id, starts, ready, device_running, aborted>>

(* a look at the transmit queues. *)
RxLast(c) ==
  /\ At(c, "rxlast") /\ Go(c, IF next_tx_id = CoresMax THEN "rxstart" ELSE AfterRx)
  /\ UNCHANGED <<launched, rxq, txq, next_rx_id, next_tx_id, starts, ready, device_running, aborted>>

(* network_tx_thread_init *)
TxSetup(c) ==
  /\ At(c, "tx") /\ txq' = txq \cup {c} /\ Go(c, "txcount")
  /\ UNCHANGED <<launched, rxq, next_rx_id, next_tx_id, starts, ready, device_running, aborted>>

(* Mutation of TxCount: compares the count before its own increment. *)
TxCountOld(c) ==
  /\ At(c, "txcount") /\ next_tx_id' = next_tx_id + 1
  /\ Go(c, IF next_tx_id = CoresMax THEN "txstart" ELSE AfterTx)
  /\ UNCHANGED <<launched, rxq, txq, next_rx_id, starts, ready, device_running, aborted>>

(* Both halves of the condition compare the count of transmit queues. *)
TxCount(c) ==
  /\ At(c, "txcount") /\ next_tx_id' = next_tx_id + 1
  /\ Go(c, IF next_tx_id' = CoresMax THEN "txstart" ELSE AfterTx)
  /\ UNCHANGED <<launched, rxq, txq, next_rx_id, starts, ready, device_running, aborted>>

(* rte_eth_dev_start, the redirection table, device_running. *)
DevStart(c) ==
  /\ ~aborted /\ pc[c] \in {"rxstart", "txstart"}
  /\ starts' = starts + 1 /\ ready' = ready \cap rxq \cap txq /\ device_running' = TRUE
  /\ Go(c, IF pc[c] = "rxstart" THEN AfterRx ELSE AfterTx)
  /\ UNCHANGED <<launched, rxq, txq, next_rx_id, next_tx_id, aborted>>

(* dataplane_context_init, then dataplane_loop. *)
Context(c) ==
  /\ At(c, "context") /\ Go(c, "loop")
  /\ UNCHANGED <<launched, rxq, txq, next_rx_id, next_tx_id, starts, ready, device_running, aborted>>

(* Any of these steps may fail: thread_error. *)
Fail(c) ==
  /\ pc[c] \in {"rx", "tx", "rxstart", "txstart", "context"} /\ ~aborted /\ aborted' = TRUE
  /\ UNCHANGED <<launched, pc, rxq, txq, next_rx_id, next_tx_id, starts, ready, device_running>>

Step(c) == RxSetup(c) \/ RxCount(c) \/ RxLast(c) \/ TxSetup(c) \/ TxCount(c) \/ DevStart(c) \/ Context(c)
Next == StartThread \/ \E c \in Cores : Step(c) \/ Fail(c)

(* Every thread runs. *)
Fairness == WF_vars(StartThread) /\ \A c \in Cores : WF_vars(Step(c))

Spec == Init /\ [][Next]_vars /\ Fairness
-----------------------------------------------------------------------------
(* Types *)
TypeOK ==
  /\ {launched, next_rx_id, next_tx_id} \subseteq 0..CoresMax /\ rxq \subseteq Cores /\ txq \subseteq Cores
  /\ \A c \in Cores : (c < launched) <=> (pc[c] # "off")

(* The device is started once, and only when every queue is set up,        *)
(* although the transmit side never looks at the count of receive queues.  *)
StartedComplete == starts <= 1 /\ ready = Cores

(* The device starts, unless the process gave up. *)
Starts == <>(device_running \/ aborted)
=============================================================================
