----------------------------- MODULE Dataplane ------------------------------
(***************************************************************************)
(* One fast path core's loop and its packet buffers (flexnic/fastemu.c):   *)
(* buffers move between the pools, the ring of preallocated buffers, the   *)
(* transmit batch and the NIC.  Which free buffer a pool hands out is left *)
(* out.  The cores do not share any of this.                               *)
(***************************************************************************)
EXTENDS Integers, Sequences, FiniteSets, SequencesExt

CONSTANTS
  Batch,          \* BATCH_SIZE
  CacheSize,      \* BUFCACHE_SIZE
  KernelMax,      \* 8
  Contexts,       \* FLEXNIC_PL_APPCTX_NUM
  TxBufs, RxBufs, \* how many buffers the pools have
  Ring            \* TX_DESCRIPTORS

DataplaneAssumption ==
  /\ {Batch, CacheSize, KernelMax, Contexts, TxBufs, RxBufs, Ring} \subseteq Nat \ {0}
  /\ CacheSize >= Batch

TxBufSize == 2 * Batch
TxPool == 1..TxBufs
RxPool == TxBufs + 1..TxBufs + RxBufs
NoBuf == 0

VARIABLES
  pc,                \* "rx", "flush", "qman", "queues", "polling", "kernel", "flush2"
  txpool, rxpool,    \* free buffers
  cache,             \* bufcache_handles
  head, num,         \* bufcache_head, bufcache_num
  batch,             \* tx_handles
  nic,               \* being transmitted
  work,              \* contexts with an entry in their queue
  next_ctx,          \* poll_next_ctx
  q                  \* the loop of poll_queues: n, i, k, max

bufvars == <<txpool, rxpool, cache, head, num, batch, nic>>
vars == <<pc, txpool, rxpool, cache, head, num, batch, nic, work, next_ctx, q>>

NoLoop == [n |-> 0, i |-> 0, k |-> 0, max |-> 0]
Ctxs == 0..Contexts - 1

Init ==
  /\ pc = "rx" /\ txpool = TxPool /\ rxpool = RxPool /\ cache = [i \in 0..CacheSize - 1 |-> NoBuf]
  /\ head = 0 /\ num = 0 /\ batch = <<>> /\ nic = {}
  /\ work = {} /\ next_ctx = 0 /\ q = NoLoop

Least(a, b) == IF a < b THEN a ELSE b
(* k buffers of a pool. *)
Some(S, k) == SubSeq(SetToSeq(S), 1, k)

(* How much a poll may put into the batch. *)
Room == Least(Batch, TxBufSize - Len(batch))
-----------------------------------------------------------------------------
(* bufcache_prealloc: what it takes from the pool, where it puts it, and   *)
(* how many buffers the caller may use without wrapping.                   *)
Taken(want) ==
  IF num < want THEN Some(txpool, Least(CacheSize - num, Cardinality(txpool))) ELSE <<>>

Refilled(want) ==
  [i \in 0..CacheSize - 1 |->
    LET d == (i - (head + num)) % CacheSize
    IN IF d < Len(Taken(want)) THEN Taken(want)[d + 1] ELSE cache[i]]

Granted(want) ==
  LET n == num + Len(Taken(want))
  IN Least(want, IF head + n <= CacheSize THEN n ELSE CacheSize - head)

(* The k buffers from the head on are sent, and bufcache_alloc takes them. *)
SendFrom(want, k) ==
  /\ batch' = batch \o [j \in 1..k |-> Refilled(want)[head + j - 1]]
  /\ cache' = Refilled(want) /\ txpool' = txpool \ Range(Taken(want))
  /\ head' = (head + k) % CacheSize /\ num' = num + Len(Taken(want)) - k
-----------------------------------------------------------------------------
(* poll_rx: a received buffer is sent again as an acknowledgement or freed.*)
PollRx ==
  /\ pc = "rx" /\ pc' = "flush"
  /\ \E a \in 0..Least(Room, Cardinality(rxpool)) :
       batch' = batch \o Some(rxpool, a) /\ rxpool' = rxpool \ Range(Some(rxpool, a))
  /\ UNCHANGED <<txpool, cache, head, num, nic, work, next_ctx, q>>

(* Mutation of Unsent: the front of the batch is kept. *)
UnsentFront(s) == SubSeq(batch, 1, Len(batch) - s)

(* What tx_flush leaves after sending s. *)
Unsent(s) == SubSeq(batch, s + 1, Len(batch))

(* tx_flush; the NIC takes what its ring has room for. *)
TxFlush ==
  /\ pc \in {"flush", "flush2"} /\ pc' = (IF pc = "flush" THEN "qman" ELSE "rx")
  /\ LET s == Least(Len(batch), Ring - Cardinality(nic))
     IN nic' = nic \cup Range(SubSeq(batch, 1, s)) /\ batch' = Unsent(s)
  /\ UNCHANGED <<txpool, rxpool, cache, head, num, work, next_ctx, q>>

(* The NIC is done with a packet; the buffer returns to its own pool. *)
NicDone(b) ==
  /\ b \in nic /\ nic' = nic \ {b}
  /\ txpool' = txpool \cup ({b} \cap TxPool) /\ rxpool' = rxpool \cup ({b} \cap RxPool)
  /\ UNCHANGED <<pc, cache, head, num, batch, work, next_ctx, q>>

(* poll_qman: some of the flows found have something to send. *)
PollQman ==
  /\ pc = "qman" /\ pc' = "queues" /\ \E off \in 0..Granted(Room) : SendFrom(Room, off)
  /\ UNCHANGED <<rxpool, nic, work, next_ctx, q>>

(* poll_kernel *)
PollKernel ==
  /\ pc = "kernel" /\ pc' = "flush2"
  /\ LET want == Least(Room, KernelMax) IN \E k \in 0..Granted(want) : SendFrom(want, k)
  /\ UNCHANGED <<rxpool, nic, work, next_ctx, q>>
-----------------------------------------------------------------------------
(* poll_queues *)
QueuesStart ==
  /\ pc = "queues" /\ pc' = "polling" /\ q' = [NoLoop EXCEPT !.max = Granted(Room)]
  /\ SendFrom(Room, 0) /\ UNCHANGED <<rxpool, nic, work, next_ctx>>

InLoop == pc = "polling" /\ q.n < Contexts /\ (q.k < q.max \/ q.i > 0)
Inner == q.i < Batch /\ q.k < q.max

(* fast_appctx_poll takes an entry, which may or may not send a packet. *)
QueuesEntry ==
  /\ InLoop /\ Inner /\ next_ctx \in work /\ work' = work \ {next_ctx}
  /\ \/ q' = [q EXCEPT !.i = @ + 1] /\ batch' = batch
     \/ q' = [q EXCEPT !.i = @ + 1, !.k = @ + 1] /\ batch' = Append(batch, cache[head + q.k])
  /\ UNCHANGED <<pc, txpool, rxpool, cache, head, num, nic, next_ctx>>

(* Mutation of QueuesNext: a context that filled the batch is polled first *)
(* the next time.                                                          *)
QueuesNextStay ==
  /\ InLoop /\ ~(Inner /\ next_ctx \in work)
  /\ next_ctx' = (IF q.k = q.max THEN next_ctx ELSE (next_ctx + 1) % Contexts)
  /\ q' = [q EXCEPT !.n = @ + 1, !.i = 0]
  /\ UNCHANGED <<pc, bufvars, work>>

QueuesNext ==
  /\ InLoop /\ ~(Inner /\ next_ctx \in work)
  /\ next_ctx' = (next_ctx + 1) % Contexts /\ q' = [q EXCEPT !.n = @ + 1, !.i = 0]
  /\ UNCHANGED <<pc, bufvars, work>>

(* bufcache_alloc *)
QueuesEnd ==
  /\ pc = "polling" /\ ~InLoop /\ pc' = "kernel" /\ q' = NoLoop
  /\ head' = (head + q.k) % CacheSize /\ num' = num - q.k
  /\ UNCHANGED <<txpool, rxpool, cache, batch, nic, work, next_ctx>>

(* An application queues an entry. *)
AppPost(c) == c \notin work /\ work' = work \cup {c} /\ UNCHANGED <<pc, bufvars, next_ctx, q>>

Loop == PollRx \/ TxFlush \/ PollQman \/ QueuesStart \/ QueuesEntry \/ QueuesNext \/ QueuesEnd \/ PollKernel
Next == Loop \/ (\E b \in nic : NicDone(b)) \/ \E c \in Ctxs : AppPost(c)

(* The loop runs and the NIC sends. *)
Fairness == WF_vars(Loop) /\ WF_vars(\E b \in nic : NicDone(b))

Spec == Init /\ [][Next]_vars /\ Fairness
-----------------------------------------------------------------------------
(* Types *)
TypeOK ==
  /\ head \in 0..CacheSize - 1 /\ num \in 0..CacheSize /\ next_ctx \in Ctxs /\ work \subseteq Ctxs
  /\ cache \in [0..CacheSize - 1 -> {NoBuf} \cup TxPool] /\ nic \subseteq TxPool \cup RxPool

(* Every buffer is in one place: none is handed out while it is on its way *)
(* to the wire, and none is lost.                                          *)
OwnedOnce ==
  \A b \in TxPool \cup RxPool :
    LET cached == {i \in q.k..num - 1 : cache[(head + i) % CacheSize] = b}
        batched == {i \in 1..Len(batch) : batch[i] = b}
    IN Cardinality(cached) + Cardinality(batched)
         + Cardinality({b} \cap txpool) + Cardinality({b} \cap rxpool) + Cardinality({b} \cap nic) = 1

(* tx_send never finds the batch full, which aborts the fast path, and     *)
(* bufcache_alloc never more used than there is, whatever the polls before *)
(* left.                                                                   *)
NeverFull == Len(batch) <= TxBufSize /\ q.k <= num

(* Every context is served, also if another one always fills the batch,    *)
(* provided the NIC is again and again done with everything when tx_flush  *)
(* makes room for the transmit half of the loop.                           *)
ContextsServed ==
  []<>(pc = "flush" /\ nic = {}) => \A c \in Ctxs : c \in work ~> c \notin work
=============================================================================
