--------------------------- MODULE MCKernel_proofs ---------------------------
(***************************************************************************)
(* The parts of the kernel that MCKernel runs, for any number of cores,    *)
(* handles and bytes of memory, any ring and any request: RingsInOrder and *)
(* MemoryPartitioned.                                                      *)
(***************************************************************************)
EXTENDS MCKernel, TLAPS, SequenceTheorems, FiniteSetTheorems, FunctionTheorems, WellFoundedInduction

-----------------------------------------------------------------------------
(* The rings between kernel and fast path.                                 *)
(*                                                                         *)
(* The two sides of a ring share no index.  What makes them agree is that  *)
(* the writer's index is the reader's, advanced by the number of entries   *)
(* that are there: with a full ring both are equal and the type field of   *)
(* the entry tells full from empty.  The inductive invariant says this of  *)
(* both rings, and of the transmit ring also what the sending thread, which*)
(* has an entry before it advances the index, has got.                     *)

\* The fast path wraps both indices at the length of their ring; the kernel
\* wraps the one it writes to transmit at the length of the receive ring.
SameLengths == RxLen = TxLen

\* Types of the entries.
Pkt == (Threads \cup {"none"}) \X (Payloads \cup {0})
TxEntry == [type : {"none", "packet", "retran"}, len : Pkt, buf : Pkt]
Sent == {"packet", "retran"} \X Pkt
Hold == [state : {"idle", "empty", "full"}, slot : Slots, opaque : Slots, pkt : Pkt]
RxSlots == 0..RxLen - 1

RxTypes ==
  /\ rx \in [Cores -> [RxSlots -> Num \cup {NoPkt}]]
  /\ rx_head \in [Cores -> RxSlots] /\ rx_tail \in [Cores -> RxSlots]
  /\ accepted \in [Cores -> Num] /\ processed \in [Cores -> Num]
  /\ rxq_next \in Cores

TxTypes ==
  /\ tx \in [Cores -> [Slots -> TxEntry]]
  /\ tx_head \in [Cores -> Slots] /\ tx_tail \in [Cores -> Slots]
  /\ hold \in [Threads -> Hold]
  /\ sent \in [Cores -> Seq(Sent)]

\* n further on in a ring of m.
Plus(a, n, m) == IF a + n < m THEN a + n ELSE a + n - m

\* A receive ring r with k packets from the reader's index on.
RxRing(r, hd, tl, acc, done) ==
  \E k \in 0..RxLen :
    /\ acc = Plus(done, k, RxLen + 2)
    /\ hd = Plus(tl, k, RxLen)
    /\ \A i \in RxSlots : r[Plus(tl, i, RxLen)] = IF i < k THEN Plus(done, i, RxLen + 2) ELSE NoPkt

\* A transmit ring r with the entries s from the reader's index on.
TxRing(r, hd, tl, s) ==
  /\ Len(s) <= TxLen
  /\ tl = Plus(hd, Len(s), TxLen)
  /\ \A i \in Slots :
       LET e == r[Plus(hd, i, TxLen)]
       IN IF i < Len(s) THEN e.type = s[i + 1][1] /\ (e.type = "packet" => e.len = s[i + 1][2] /\ e.buf = s[i + 1][2])
          ELSE e.type = "none"

\* What a thread composes is the next entry, which is free.
Composed(h, i, e) ==
  /\ h.slot = i /\ h.opaque = Plus(i, 1, TxLen)
  /\ e.type = "none" /\ e.len = h.pkt
  /\ h.state = "full" => e.buf = h.pkt

\* At most one thread composes.
Busy(t) == hold[t].state # "idle"
Composing ==
  /\ \A s, t \in Threads : Busy(s) /\ Busy(t) => s = t
  /\ \A t \in Threads : Busy(t) => Composed(hold[t], tx_tail[0], tx[0][tx_tail[0]])

RxRings == \A c \in Cores : RxRing(rx[c], rx_head[c], rx_tail[c], accepted[c], processed[c])
TxRings == \A c \in Cores : TxRing(tx[c], tx_head[c], tx_tail[c], sent[c])

RxInv == RxTypes /\ RxRings
TxInv == TxTypes /\ TxRings /\ Composing
IInv == RxInv /\ TxInv
-----------------------------------------------------------------------------
(* Rings as arithmetic. *)

\* An index that went past the end at most once.
LEMMA Wraps ==
  ASSUME NEW n \in Nat \ {0}, NEW x \in 0..2 * n - 1
  PROVE  x % n = IF x < n THEN x ELSE x - n
  BY SMT

LEMMA PlusMod ==
  ASSUME NEW n \in Nat \ {0}, NEW a \in 0..n - 1, NEW i \in 0..n
  PROVE  (a + i) % n = Plus(a, i, n) /\ Plus(a, i, n) \in 0..n - 1
<1>1. PICK x \in 0..2 * n - 1 : x = a + i
  OBVIOUS
<1>2. x % n = IF x < n THEN x ELSE x - n
  BY Wraps
<1>. QED  BY <1>1, <1>2 DEF Plus

\* The next index, as the code computes it.
LEMMA PlusOne ==
  ASSUME NEW n \in Nat \ {0}, NEW a \in 0..n - 1
  PROVE  (a + 1) % n = Plus(a, 1, n) /\ Plus(a, 1, n) \in 0..n - 1
<1>1. PICK i \in 0..n : i = 1
  OBVIOUS
<1>2. (a + i) % n = Plus(a, i, n) /\ Plus(a, i, n) \in 0..n - 1
  BY PlusMod
<1>. QED  BY <1>1, <1>2

\* Two entries of a ring have two places, and the places from the next one on
\* are the next ones.
LEMMA PlusInjective ==
  ASSUME NEW n \in Nat \ {0}, NEW a \in 0..n - 1, NEW i \in 0..n - 1, NEW j \in 0..n - 1
  PROVE  Plus(a, i, n) = Plus(a, j, n) => i = j
  BY DEF Plus

LEMMA PlusNext ==
  ASSUME NEW n \in Nat \ {0}, NEW a \in 0..n - 1, NEW i \in 0..n - 1
  PROVE  /\ Plus(Plus(a, 1, n), i, n) = Plus(a, i + 1, n)
         /\ Plus(Plus(a, i, n), 1, n) = Plus(a, i + 1, n)
         /\ Plus(a, n, n) = a /\ Plus(a, 0, n) = a
  BY DEF Plus

\* A ring whose next entry is free is not full; one that has an entry to read
\* has the oldest there.
LEMMA RxPut ==
  ASSUME KernelQueuesAssumption, NEW r \in [RxSlots -> Num \cup {NoPkt}],
         NEW hd \in RxSlots, NEW tl \in RxSlots, NEW acc \in Num, NEW done \in Num,
         RxRing(r, hd, tl, acc, done), r[hd] = NoPkt
  PROVE  RxRing([r EXCEPT ![hd] = acc], Plus(hd, 1, RxLen), tl, Plus(acc, 1, RxLen + 2), done)
<1> DEFINE N == RxLen
<1> DEFINE M == RxLen + 2
<1> DEFINE q == [r EXCEPT ![hd] = acc]
<1>1. N \in Nat \ {0} /\ M \in Nat \ {0} /\ RxSlots = 0..N - 1 /\ Num = 0..M - 1 /\ NoPkt \notin Num
  BY DEF KernelQueuesAssumption, RxSlots, Num, NoPkt
<1>2. PICK k \in 0..N :
        /\ acc = Plus(done, k, M)
        /\ hd = Plus(tl, k, N)
        /\ \A i \in 0..N - 1 : r[Plus(tl, i, N)] = IF i < k THEN Plus(done, i, M) ELSE NoPkt
  BY <1>1 DEF RxRing
<1> HIDE DEF N, M
<1>3. k # N
  <2> SUFFICES ASSUME k = N PROVE FALSE
    OBVIOUS
  <2>1. hd = Plus(tl, 0, N) /\ Plus(done, 0, M) = done
    BY <1>1, <1>2, PlusNext DEF Plus
  <2>2. 0 \in 0..N - 1 /\ 0 < k
    BY <1>1
  <2>. QED  BY <1>1, <1>2, <2>1, <2>2
<1>4. k \in 0..N - 1 /\ k + 1 \in 0..N /\ k \in 0..M - 1
  BY <1>1, <1>2, <1>3 DEF N, M
<1>5. Plus(acc, 1, M) = Plus(done, k + 1, M)
  BY <1>1, <1>2, <1>4, PlusNext
<1>6. Plus(hd, 1, N) = Plus(tl, k + 1, N)
  BY <1>1, <1>2, <1>4, PlusNext
<1>7. ASSUME NEW i \in 0..N - 1
      PROVE  q[Plus(tl, i, N)] = IF i < k + 1 THEN Plus(done, i, M) ELSE NoPkt
  <2>1. Plus(tl, i, N) \in RxSlots
    BY <1>1, PlusMod
  <2>2. CASE i = k
    <3>1. i < k + 1 /\ q[Plus(tl, i, N)] = acc
      BY <1>1, <1>2, <2>1, <2>2
    <3>. QED  BY <1>2, <2>2, <3>1
  <2>3. CASE i # k
    <3>1. Plus(tl, i, N) # hd
      BY <1>1, <1>2, <1>4, <2>3, PlusInjective
    <3>2. i < k + 1 <=> i < k
      BY <1>1, <2>3
    <3>. QED  BY <1>2, <2>1, <3>1, <3>2
  <2>. QED  BY <2>2, <2>3
<1>. QED  BY <1>1, <1>4, <1>5, <1>6, <1>7 DEF RxRing, N, M

LEMMA RxTake ==
  ASSUME KernelQueuesAssumption, NEW r \in [RxSlots -> Num \cup {NoPkt}],
         NEW hd \in RxSlots, NEW tl \in RxSlots, NEW acc \in Num, NEW done \in Num,
         RxRing(r, hd, tl, acc, done), r[tl] # NoPkt
  PROVE  /\ r[tl] = done
         /\ RxRing([r EXCEPT ![tl] = NoPkt], hd, Plus(tl, 1, RxLen), acc, Plus(done, 1, RxLen + 2))
<1> DEFINE N == RxLen
<1> DEFINE M == RxLen + 2
<1> DEFINE q == [r EXCEPT ![tl] = NoPkt]
<1>1. N \in Nat \ {0} /\ M \in Nat \ {0} /\ RxSlots = 0..N - 1 /\ Num = 0..M - 1 /\ NoPkt \notin Num
  BY DEF KernelQueuesAssumption, RxSlots, Num, NoPkt
<1>2. PICK k \in 0..N :
        /\ acc = Plus(done, k, M)
        /\ hd = Plus(tl, k, N)
        /\ \A i \in 0..N - 1 : r[Plus(tl, i, N)] = IF i < k THEN Plus(done, i, M) ELSE NoPkt
  BY <1>1 DEF RxRing
<1> HIDE DEF N, M
<1>3. tl = Plus(tl, 0, N) /\ done = Plus(done, 0, M) /\ 0 \in 0..N - 1
  BY <1>1, PlusNext
<1>4. k # 0 /\ r[tl] = done
  BY <1>1, <1>2, <1>3
<1> DEFINE j == k - 1
<1>5. j \in 0..N - 1 /\ j \in 0..N /\ j \in 0..M - 1 /\ k = j + 1
  BY <1>1, <1>2, <1>4 DEF N, M
<1> HIDE DEF j
<1>6. acc = Plus(Plus(done, 1, M), j, M)
  BY <1>1, <1>2, <1>5, PlusNext
<1>7. hd = Plus(Plus(tl, 1, N), j, N)
  BY <1>1, <1>2, <1>5, PlusNext
<1>8. ASSUME NEW i \in 0..N - 1
      PROVE  q[Plus(Plus(tl, 1, N), i, N)] = IF i < j THEN Plus(Plus(done, 1, M), i, M) ELSE NoPkt
  <2>1. Plus(Plus(tl, 1, N), i, N) = Plus(tl, i + 1, N) /\ i \in 0..M - 1
    BY <1>1, PlusNext DEF N, M
  <2>2. CASE i = N - 1
    <3>1. Plus(tl, i + 1, N) = tl /\ ~(i < j)
      BY <1>1, <1>5, <2>2, PlusNext
    <3>. QED  BY <1>1, <2>1, <3>1
  <2>3. CASE i # N - 1
    <3>1. i + 1 \in 0..N - 1 /\ (i < j <=> i + 1 < k)
      BY <1>1, <1>5, <2>3
    <3>2. Plus(tl, i + 1, N) # tl /\ Plus(tl, i + 1, N) \in RxSlots
      <4> DEFINE l == i + 1
      <4>1. l \in 0..N - 1 /\ l # 0 /\ l \in 0..N
        BY <1>1, <3>1
      <4> HIDE DEF l
      <4>2. Plus(tl, l, N) \in RxSlots
        BY <1>1, <4>1, PlusMod
      <4>3. Plus(tl, l, N) # Plus(tl, 0, N)
        BY <1>1, <1>3, <4>1, PlusInjective
      <4>. QED  BY <1>3, <4>2, <4>3 DEF l
    <3>3. Plus(Plus(done, 1, M), i, M) = Plus(done, i + 1, M)
      BY <1>1, <2>1, PlusNext
    <3>. QED  BY <1>2, <2>1, <3>1, <3>2, <3>3
  <2>. QED  BY <2>2, <2>3
<1>. QED  BY <1>1, <1>4, <1>5, <1>6, <1>7, <1>8 DEF RxRing, N, M

\* The same for the transmit ring.
LEMMA TxRoom ==
  ASSUME KernelQueuesAssumption, NEW r, NEW hd \in Slots, NEW tl \in Slots, NEW s \in Seq(Sent),
         TxRing(r, hd, tl, s), r[tl].type = "none"
  PROVE  Len(s) \in 0..TxLen - 1
<1>1. TxLen \in Nat \ {0} /\ Slots = 0..TxLen - 1 /\ Len(s) \in Nat /\ Len(s) <= TxLen
  BY DEF KernelQueuesAssumption, Slots, TxRing
<1>2. SUFFICES ASSUME Len(s) = TxLen PROVE FALSE
  BY <1>1
<1>3. tl = hd /\ hd = Plus(hd, 0, TxLen) /\ 0 \in Slots /\ 0 < Len(s)
  BY <1>1, <1>2, PlusNext DEF TxRing
<1>4. r[tl].type = s[0 + 1][1]
  BY <1>3 DEF TxRing
<1>5. s[1] \in Sent
  BY <1>1, <1>3, ElementOfSeq
<1>. QED  BY <1>4, <1>5 DEF Sent

LEMMA TxPut ==
  ASSUME KernelQueuesAssumption, NEW r \in [Slots -> TxEntry], NEW hd \in Slots, NEW tl \in Slots,
         NEW s \in Seq(Sent), TxRing(r, hd, tl, s), r[tl].type = "none",
         NEW x \in Sent, NEW e \in TxEntry, e.type = x[1],
         e.type = "packet" => e.len = x[2] /\ e.buf = x[2]
  PROVE  TxRing([r EXCEPT ![tl] = e], hd, Plus(tl, 1, TxLen), Append(s, x))
<1> DEFINE L == TxLen
<1> DEFINE k == Len(s)
<1> DEFINE q == [r EXCEPT ![tl] = e]
<1> DEFINE a == Append(s, x)
<1>1. L \in Nat \ {0} /\ Slots = 0..L - 1 /\ k \in 0..L - 1
  BY TxRoom DEF KernelQueuesAssumption, Slots
<1>2. Len(a) = k + 1 /\ a[k + 1] = x /\ \A i \in 0..k - 1 : a[i + 1] = s[i + 1]
  BY AppendProperties
<1>3. tl = Plus(hd, k, L)
  BY DEF TxRing
<1>4. Plus(tl, 1, L) = Plus(hd, k + 1, L)
  BY <1>1, <1>3, PlusNext
<1>5. q[tl] = e /\ \A i \in Slots : i # k => q[Plus(hd, i, L)] = r[Plus(hd, i, L)]
  BY <1>1, <1>3, PlusInjective, PlusMod
<1> HIDE DEF q, a
<1>6. ASSUME NEW i \in Slots
      PROVE  IF i < k + 1
             THEN /\ q[Plus(hd, i, L)].type = a[i + 1][1]
                  /\ q[Plus(hd, i, L)].type = "packet" =>
                       q[Plus(hd, i, L)].len = a[i + 1][2] /\ q[Plus(hd, i, L)].buf = a[i + 1][2]
             ELSE q[Plus(hd, i, L)].type = "none"
  <2>1. CASE i = k
    BY <1>1, <1>2, <1>3, <1>5, <2>1
  <2>2. CASE i # k
    <3>1. (i < k + 1 <=> i < k) /\ (i < k => i \in 0..k - 1)
      BY <1>1, <2>2
    <3>2. IF i < k
          THEN /\ r[Plus(hd, i, L)].type = s[i + 1][1]
               /\ r[Plus(hd, i, L)].type = "packet" =>
                    r[Plus(hd, i, L)].len = s[i + 1][2] /\ r[Plus(hd, i, L)].buf = s[i + 1][2]
          ELSE r[Plus(hd, i, L)].type = "none"
      BY DEF TxRing
    <3>. QED  BY <1>2, <1>5, <2>2, <3>1, <3>2
  <2>. QED  BY <2>1, <2>2
<1>7. k + 1 <= L
  BY <1>1
<1>. QED  BY <1>2, <1>4, <1>6, <1>7 DEF TxRing, q, a

LEMMA TxTake ==
  ASSUME KernelQueuesAssumption, NEW r \in [Slots -> TxEntry], NEW hd \in Slots, NEW tl \in Slots,
         NEW s \in Seq(Sent), TxRing(r, hd, tl, s), r[hd].type # "none"
  PROVE  /\ s # <<>>
         /\ TxRing([r EXCEPT ![hd].type = "none"], Plus(hd, 1, TxLen), tl, Tail(s))
<1> DEFINE L == TxLen
<1> DEFINE q == [r EXCEPT ![hd].type = "none"]
<1> DEFINE a == Tail(s)
<1>1. L \in Nat \ {0} /\ Slots = 0..L - 1 /\ Len(s) \in Nat /\ Len(s) <= L
  BY DEF KernelQueuesAssumption, Slots, TxRing
<1>2. hd = Plus(hd, 0, L) /\ 0 \in Slots
  BY <1>1, PlusNext
<1>3. 0 < Len(s)
  BY <1>1, <1>2 DEF TxRing
<1>4. s # <<>>
  BY <1>3
<1> DEFINE j == Len(a)
<1>5. j \in 0..L - 1 /\ Len(s) = j + 1 /\ \A i \in 0..j - 1 : a[i + 1] = s[i + 2]
  BY <1>1, <1>4, HeadTailProperties
<1>6. tl = Plus(Plus(hd, 1, L), j, L)
  <2>1. tl = Plus(hd, j + 1, L)
    BY <1>5 DEF TxRing
  <2>. QED  BY <1>1, <1>5, <2>1, PlusNext
<1>7. q[hd].type = "none" /\ \A p \in Slots : p # hd => q[p] = r[p]
  BY DEF TxEntry
<1> HIDE DEF q, a, j
<1>8. ASSUME NEW i \in Slots
      PROVE  LET p == Plus(Plus(hd, 1, L), i, L)
             IN IF i < j
                THEN /\ q[p].type = a[i + 1][1]
                     /\ q[p].type = "packet" => q[p].len = a[i + 1][2] /\ q[p].buf = a[i + 1][2]
                ELSE q[p].type = "none"
  <2>1. Plus(Plus(hd, 1, L), i, L) = Plus(hd, i + 1, L)
    BY <1>1, PlusNext
  <2>2. CASE i = L - 1
    <3>1. Plus(hd, i + 1, L) = hd /\ ~(i < j)
      BY <1>1, <1>5, <2>2, PlusNext
    <3>. QED  BY <1>7, <2>1, <3>1
  <2>3. CASE i # L - 1
    <3> DEFINE l == i + 1
    <3>1. l \in Slots /\ l \in 0..L - 1 /\ l \in 0..L /\ l # 0 /\ (i < j <=> l < Len(s)) /\ (i < j => i \in 0..j - 1)
      BY <1>1, <1>5, <2>3
    <3>2. l + 1 = i + 2
      BY <1>1
    <3> HIDE DEF l
    <3>3. Plus(hd, l, L) # hd /\ Plus(hd, l, L) \in Slots
      BY <1>1, <1>2, <3>1, PlusInjective, PlusMod
    <3>4. q[Plus(hd, l, L)] = r[Plus(hd, l, L)]
      BY <1>7, <3>3
    <3>5. IF l < Len(s)
          THEN /\ r[Plus(hd, l, L)].type = s[l + 1][1]
               /\ r[Plus(hd, l, L)].type = "packet" =>
                    r[Plus(hd, l, L)].len = s[l + 1][2] /\ r[Plus(hd, l, L)].buf = s[l + 1][2]
          ELSE r[Plus(hd, l, L)].type = "none"
      BY <3>1 DEF TxRing
    <3>6. i < j => a[i + 1] = s[l + 1]
      BY <1>5, <3>1, <3>2
    <3>7. Plus(Plus(hd, 1, L), i, L) = Plus(hd, l, L)
      BY <2>1 DEF l
    <3>. QED  BY <3>1, <3>4, <3>5, <3>6, <3>7
  <2>. QED  BY <2>2, <2>3
<1>9. Len(a) <= L /\ Len(a) = j
  BY <1>1, <1>5 DEF j
<1>. QED  BY <1>4, <1>6, <1>8, <1>9 DEF TxRing, q, a

\* What a sender writes to an entry that it did not hand over yet is not seen.
LEMMA TxSame ==
  ASSUME KernelQueuesAssumption, NEW r \in [Slots -> TxEntry], NEW q \in [Slots -> TxEntry],
         NEW hd \in Slots, NEW tl \in Slots, NEW s \in Seq(Sent), TxRing(r, hd, tl, s),
         \A p \in Slots : q[p].type = r[p].type /\ (r[p].type # "none" => q[p] = r[p])
  PROVE  TxRing(q, hd, tl, s)
<1>1. TxLen \in Nat \ {0} /\ Slots = 0..TxLen - 1
  BY DEF KernelQueuesAssumption, Slots
<1>2. \A i \in Slots : Plus(hd, i, TxLen) \in Slots
  BY <1>1, PlusMod
<1>. QED  BY <1>2 DEF TxRing

-----------------------------------------------------------------------------
(* The receive rings. *)

LEMMA FastKernelPacketKeeps ==
  ASSUME KernelQueuesAssumption, RxInv, NEW c \in Cores, FastKernelPacket(c)
  PROVE  RxInv'
<1>. USE DEF RxInv
<1> DEFINE hd == Plus(rx_head[c], 1, RxLen)
<1> DEFINE acc == Plus(accepted[c], 1, RxLen + 2)
<1> DEFINE r == [rx[c] EXCEPT ![rx_head[c]] = accepted[c]]
<1>1. /\ rx[c] \in [RxSlots -> Num \cup {NoPkt}] /\ rx_head[c] \in RxSlots /\ rx_tail[c] \in RxSlots
      /\ accepted[c] \in Num /\ processed[c] \in Num
  BY DEF RxTypes
<1>2. RxLen \in Nat \ {0} /\ RxSlots = 0..RxLen - 1 /\ Num = 0..RxLen + 2 - 1
  BY DEF KernelQueuesAssumption, RxSlots, Num
<1>3. (rx_head[c] + 1) % RxLen = hd /\ hd \in RxSlots
  BY <1>1, <1>2, PlusOne
<1>4. (accepted[c] + 1) % (RxLen + 2) = acc /\ acc \in Num
  <2>1. PICK m \in Nat \ {0} : m = RxLen + 2 /\ Num = 0..m - 1
    BY <1>2
  <2>. QED  BY <1>1, <2>1, PlusOne
<1>5. RxRing(r, hd, rx_tail[c], acc, processed[c])
  BY <1>1, RxPut DEF RxRings, FastKernelPacket
<1>6. r \in [RxSlots -> Num \cup {NoPkt}]
  BY <1>1
<1>7. /\ rx' = [rx EXCEPT ![c] = r] /\ rx_head' = [rx_head EXCEPT ![c] = hd]
      /\ accepted' = [accepted EXCEPT ![c] = acc] /\ UNCHANGED <<rx_tail, processed, rxq_next>>
  BY <1>3, <1>4 DEF FastKernelPacket, RxTypes
<1> HIDE DEF hd, acc, r
<1>8. RxTypes'
  BY <1>3, <1>4, <1>6, <1>7 DEF RxTypes
<1>9. RxRings'
  <2> SUFFICES ASSUME NEW d \in Cores
               PROVE  RxRing(rx[d], rx_head[d], rx_tail[d], accepted[d], processed[d])'
    BY DEF RxRings
  <2>1. CASE d = c
    BY <1>5, <1>7, <2>1 DEF RxTypes
  <2>2. CASE d # c
    BY <1>7, <2>2 DEF RxTypes, RxRings
  <2>. QED  BY <2>1, <2>2
<1>. QED  BY <1>8, <1>9

LEMMA RxqPollKeeps ==
  ASSUME KernelQueuesAssumption, RxInv, RxqPoll
  PROVE  RxInv'
<1>. USE DEF RxInv
<1> DEFINE c == rxq_next
<1>1. c \in Cores /\ NumCores \in Nat \ {0}
  BY DEF RxTypes, KernelQueuesAssumption
<1>2. /\ rx[c] \in [RxSlots -> Num \cup {NoPkt}] /\ rx_head[c] \in RxSlots /\ rx_tail[c] \in RxSlots
      /\ accepted[c] \in Num /\ processed[c] \in Num
  BY <1>1 DEF RxTypes
<1>3. RxLen \in Nat \ {0} /\ RxSlots = 0..RxLen - 1 /\ Num = 0..RxLen + 2 - 1
  BY DEF KernelQueuesAssumption, RxSlots, Num
<1>4. rxq_next' \in Cores
  <2>1. rxq_next' = Plus(c, 1, NumCores)
    BY <1>1, PlusOne DEF RxqPoll, Cores
  <2>. QED  BY <1>1, <2>1, PlusOne DEF Cores
<1>5. CASE rx[c][rx_tail[c]] = NoPkt
  <2>1. UNCHANGED <<rx, rx_head, rx_tail, accepted, processed>>
    BY <1>5 DEF RxqPoll
  <2>. QED  BY <1>4, <2>1 DEF RxTypes, RxRings
<1>6. CASE rx[c][rx_tail[c]] # NoPkt
  <2> DEFINE tl == Plus(rx_tail[c], 1, RxLen)
  <2> DEFINE done == Plus(processed[c], 1, RxLen + 2)
  <2> DEFINE r == [rx[c] EXCEPT ![rx_tail[c]] = NoPkt]
  <2>1. (rx_tail[c] + 1) % RxLen = tl /\ tl \in RxSlots
    BY <1>2, <1>3, PlusOne
  <2>2. (processed[c] + 1) % (RxLen + 2) = done /\ done \in Num
    <3>1. PICK m \in Nat \ {0} : m = RxLen + 2 /\ Num = 0..m - 1
      BY <1>3
    <3>. QED  BY <1>2, <3>1, PlusOne
  <2>3. rx[c][rx_tail[c]] = processed[c] /\ RxRing(r, rx_head[c], tl, accepted[c], done)
    BY <1>1, <1>2, <1>6, RxTake DEF RxRings
  <2>4. r \in [RxSlots -> Num \cup {NoPkt}]
    BY <1>2
  <2>5. /\ rx' = [rx EXCEPT ![c] = r] /\ rx_tail' = [rx_tail EXCEPT ![c] = tl]
        /\ processed' = [processed EXCEPT ![c] = done] /\ UNCHANGED <<rx_head, accepted>>
    BY <1>6, <2>1, <2>2, <2>3 DEF RxqPoll, RxTypes
  <2> HIDE DEF tl, done, r
  <2>6. RxTypes'
    BY <1>4, <2>1, <2>2, <2>4, <2>5 DEF RxTypes
  <2>7. RxRings'
    <3> SUFFICES ASSUME NEW d \in Cores
                 PROVE  RxRing(rx[d], rx_head[d], rx_tail[d], accepted[d], processed[d])'
      BY DEF RxRings
    <3>1. CASE d = c
      BY <2>3, <2>5, <3>1 DEF RxTypes
    <3>2. CASE d # c
      BY <2>5, <3>2 DEF RxTypes, RxRings
    <3>. QED  BY <3>1, <3>2
  <2>. QED  BY <2>6, <2>7
<1>. QED  BY <1>5, <1>6

-----------------------------------------------------------------------------
(* The transmit rings. *)

LEMMA WrappedPlus ==
  ASSUME KernelQueuesAssumption, SameLengths, NEW i \in Slots
  PROVE  Wrapped(i) = Plus(i, 1, TxLen) /\ Wrapped(i) \in Slots
  BY DEF KernelQueuesAssumption, SameLengths, Slots, Wrapped, Plus

LEMMA CoreZero ==
  ASSUME KernelQueuesAssumption
  PROVE  0 \in Cores
  BY DEF KernelQueuesAssumption, Cores

\* A step that only changes what thread t, the one that may compose, has.
LEMMA OneComposes ==
  ASSUME TxTypes, NEW t \in Threads, \A s \in Threads : s # t => ~Busy(s),
         NEW h, hold' = [hold EXCEPT ![t] = h],
         h.state # "idle" => Composed(h, tx_tail'[0], tx'[0][tx_tail'[0]])
  PROVE  Composing'
<1>1. \A s \in Threads : s # t => ~Busy(s)'
  BY DEF Busy, TxTypes
<1>2. hold'[t] = h
  BY DEF TxTypes
<1>. QED  BY <1>1, <1>2 DEF Composing, Busy

LEMMA TxAllocKeeps ==
  ASSUME KernelQueuesAssumption, SameLengths, TxInv,
         NEW t \in Threads, NEW n \in Payloads, TxAlloc(t, n), \A s \in Threads : s # t => ~Busy(s)
  PROVE  TxInv'
<1>. USE DEF TxInv
<1> DEFINE i == tx_tail[0]
<1> DEFINE p == PacketOf(t, n)
<1> DEFINE q == [tx[0] EXCEPT ![i].len = p]
<1> DEFINE h == [state |-> "empty", slot |-> i, opaque |-> Wrapped(i), pkt |-> p]
<1>1. 0 \in Cores /\ i \in Slots /\ p \in Pkt
  <2>1. 0 \in Cores
    BY CoreZero
  <2>2. i \in Slots
    BY <2>1 DEF TxTypes
  <2>3. p \in Pkt
    BY DEF PacketOf, Pkt
  <2>. QED  BY <2>1, <2>2, <2>3
<1>2. tx[0] \in [Slots -> TxEntry] /\ tx[0][i].type = "none"
  BY <1>1 DEF TxTypes, TxAlloc, Free
<1>3. /\ q \in [Slots -> TxEntry] /\ q[i].type = "none" /\ q[i].len = p
      /\ \A j \in Slots : q[j].type = tx[0][j].type /\ (tx[0][j].type # "none" => q[j] = tx[0][j])
  BY <1>1, <1>2 DEF TxEntry
<1>4. Wrapped(i) = Plus(i, 1, TxLen) /\ Wrapped(i) \in Slots
  BY <1>1, WrappedPlus
<1>5. /\ tx' = [tx EXCEPT ![0] = q] /\ UNCHANGED <<tx_head, tx_tail, sent>>
      /\ hold' = [hold EXCEPT ![t] = h]
  BY DEF TxAlloc, TxTypes
<1>6. TxRing(q, tx_head[0], tx_tail[0], sent[0])
  BY <1>1, <1>2, <1>3, TxSame DEF TxTypes, TxRings
<1>7. h \in Hold
  BY <1>1, <1>4 DEF Hold
<1>8. Composed(h, i, q[i])
  BY <1>3, <1>4 DEF Composed
<1> HIDE DEF p, q, h
<1>9. TxTypes'
  BY <1>1, <1>3, <1>5, <1>7 DEF TxTypes
<1>10. TxRings'
  BY <1>1, <1>5, <1>6 DEF TxRings, TxTypes
<1>11. Composing'
  <2>1. tx_tail'[0] = i /\ tx'[0][i] = q[i]
    BY <1>1, <1>5 DEF TxTypes
  <2>. QED  BY <1>5, <1>8, <2>1, OneComposes
<1>. QED  BY <1>9, <1>10, <1>11

LEMMA ComposeKeeps ==
  ASSUME KernelQueuesAssumption, TxInv, NEW t \in Threads, Compose(t)
  PROVE  TxInv'
<1>. USE DEF TxInv
<1> DEFINE i == tx_tail[0]
<1> DEFINE p == hold[t].pkt
<1> DEFINE q == [tx[0] EXCEPT ![i].buf = p]
<1> DEFINE h == [hold[t] EXCEPT !.state = "full"]
<1>1. 0 \in Cores /\ i \in Slots /\ p \in Pkt /\ hold[t] \in Hold /\ hold[t].state = "empty"
  <2>1. hold[t] \in Hold /\ hold[t].state = "empty"
    BY DEF TxTypes, Compose
  <2>2. p \in Pkt
    BY <2>1 DEF Hold
  <2>. QED  BY <2>1, <2>2, CoreZero DEF TxTypes
<1>2. /\ tx[0] \in [Slots -> TxEntry] /\ Composed(hold[t], i, tx[0][i])
      /\ \A s \in Threads : s # t => ~Busy(s)
  BY <1>1 DEF TxTypes, Composing, Busy
<1>3. /\ tx[0][i].type = "none" /\ tx[0][i].len = p /\ hold[t].slot = i /\ hold[t].opaque = Plus(i, 1, TxLen)
  BY <1>2 DEF Composed
<1>4. /\ q \in [Slots -> TxEntry] /\ q[i].type = "none" /\ q[i].len = p /\ q[i].buf = p
      /\ \A j \in Slots : q[j].type = tx[0][j].type /\ (tx[0][j].type # "none" => q[j] = tx[0][j])
  BY <1>1, <1>2, <1>3 DEF TxEntry
<1>5. /\ tx' = [tx EXCEPT ![0] = q] /\ UNCHANGED <<tx_head, tx_tail, sent>>
      /\ hold' = [hold EXCEPT ![t] = h]
  BY <1>3 DEF Compose, TxTypes
<1>6. TxRing(q, tx_head[0], tx_tail[0], sent[0])
  BY <1>1, <1>2, <1>3, <1>4, TxSame DEF TxTypes, TxRings
<1>7. h \in Hold /\ h.slot = i /\ h.opaque = Plus(i, 1, TxLen) /\ h.pkt = p
  BY <1>1, <1>3 DEF Hold
<1>8. Composed(h, i, q[i])
  BY <1>4, <1>7 DEF Composed
<1> HIDE DEF q, h
<1>9. TxTypes'
  BY <1>1, <1>4, <1>5, <1>7 DEF TxTypes
<1>10. TxRings'
  BY <1>1, <1>5, <1>6 DEF TxRings, TxTypes
<1>11. Composing'
  <2>1. tx_tail'[0] = i /\ tx'[0][i] = q[i]
    BY <1>1, <1>5 DEF TxTypes
  <2>. QED  BY <1>2, <1>5, <1>8, <2>1, OneComposes
<1>. QED  BY <1>9, <1>10, <1>11

LEMMA TxSendKeeps ==
  ASSUME KernelQueuesAssumption, TxInv, NEW t \in Threads, TxSend(t)
  PROVE  TxInv'
<1>. USE DEF TxInv
<1> DEFINE i == tx_tail[0]
<1> DEFINE p == hold[t].pkt
<1> DEFINE e == [tx[0][i] EXCEPT !.type = "packet"]
<1> DEFINE q == [tx[0] EXCEPT ![i] = e]
<1> DEFINE x == <<"packet", p>>
<1>1. 0 \in Cores /\ i \in Slots /\ p \in Pkt /\ hold[t].state = "full"
  <2>1. 0 \in Cores
    BY CoreZero
  <2>2. i \in Slots
    BY <2>1 DEF TxTypes
  <2>3. p \in Pkt
    BY DEF TxTypes, Hold
  <2>4. hold[t].state = "full"
    BY DEF TxSend
  <2>. QED  BY <2>1, <2>2, <2>3, <2>4
<1>2. /\ tx[0] \in [Slots -> TxEntry] /\ Composed(hold[t], i, tx[0][i])
      /\ \A s \in Threads : s # t => ~Busy(s)
  BY <1>1 DEF TxTypes, Composing, Busy
<1>3. /\ tx[0][i].type = "none" /\ tx[0][i].len = p /\ tx[0][i].buf = p
      /\ hold[t].slot = i /\ hold[t].opaque = Plus(i, 1, TxLen)
  BY <1>1, <1>2 DEF Composed
<1>4. i = IF hold[t].opaque = 0 THEN TxLen - 1 ELSE hold[t].opaque - 1
  BY <1>1, <1>3 DEF KernelQueuesAssumption, Slots, Plus
<1>5. e \in TxEntry /\ e.type = "packet" /\ e.len = p /\ e.buf = p /\ x \in Sent /\ Nothing \in Hold
  <2>1. tx[0][i] \in TxEntry
    BY <1>1, <1>2
  <2>2. 0 \in Slots
    BY DEF KernelQueuesAssumption, Slots
  <2>. QED  BY <1>1, <1>3, <2>1, <2>2 DEF TxEntry, Sent, Nothing, Hold, PacketOf, Pkt
<1>6. Plus(i, 1, TxLen) \in Slots
  BY <1>1, PlusOne DEF KernelQueuesAssumption, Slots
<1>7. /\ tx' = [tx EXCEPT ![0] = q] /\ tx_tail' = [tx_tail EXCEPT ![0] = Plus(i, 1, TxLen)]
      /\ sent' = [sent EXCEPT ![0] = Append(sent[0], x)] /\ hold' = [hold EXCEPT ![t] = Nothing]
      /\ UNCHANGED tx_head
  BY <1>3, <1>4 DEF TxSend, TxTypes
<1>8. TxRing(q, tx_head[0], Plus(i, 1, TxLen), Append(sent[0], x))
  BY <1>1, <1>2, <1>3, <1>5, TxPut DEF TxTypes, TxRings
<1>9. q \in [Slots -> TxEntry] /\ Append(sent[0], x) \in Seq(Sent)
  BY <1>1, <1>2, <1>5, AppendProperties DEF TxTypes
<1> HIDE DEF p, e, q, x
<1>10. TxTypes'
  BY <1>1, <1>5, <1>6, <1>7, <1>9 DEF TxTypes
<1>11. TxRings'
  BY <1>1, <1>7, <1>8 DEF TxRings, TxTypes
<1>12. Composing'
  BY <1>2, <1>7, OneComposes DEF Nothing
<1>. QED  BY <1>10, <1>11, <1>12

LEMMA RetransmitKeeps ==
  ASSUME KernelQueuesAssumption, SameLengths, TxInv, NEW c \in Cores, Retransmit(c),
         c = 0 => \A t \in Threads : ~Busy(t)
  PROVE  TxInv'
<1>. USE DEF TxInv
<1> DEFINE i == tx_tail[c]
<1> DEFINE e == [tx[c][i] EXCEPT !.type = "retran"]
<1> DEFINE q == [tx[c] EXCEPT ![i] = e]
<1> DEFINE x == <<"retran", PacketOf("none", 0)>>
<1>1. i \in Slots /\ tx[c] \in [Slots -> TxEntry] /\ tx[c][i] \in TxEntry /\ tx[c][i].type = "none"
  BY DEF TxTypes, Retransmit, Free
<1>2. e \in TxEntry /\ e.type = "retran" /\ x \in Sent
  BY <1>1 DEF TxEntry, Sent, PacketOf, Pkt
<1>3. Wrapped(i) = Plus(i, 1, TxLen) /\ Wrapped(i) \in Slots
  BY <1>1, WrappedPlus
<1>4. /\ tx' = [tx EXCEPT ![c] = q] /\ tx_tail' = [tx_tail EXCEPT ![c] = Wrapped(i)]
      /\ sent' = [sent EXCEPT ![c] = Append(sent[c], x)] /\ UNCHANGED <<tx_head, hold>>
  BY DEF Retransmit, TxTypes
<1>5. TxRing(q, tx_head[c], Wrapped(i), Append(sent[c], x))
  <2>1. TxRing(q, tx_head[c], Plus(i, 1, TxLen), Append(sent[c], x))
    BY <1>1, <1>2, TxPut DEF TxTypes, TxRings
  <2>. QED  BY <1>3, <2>1
<1>6. q \in [Slots -> TxEntry] /\ Append(sent[c], x) \in Seq(Sent)
  BY <1>1, <1>2, AppendProperties DEF TxTypes
<1> HIDE DEF e, q, x
<1>7. TxTypes'
  BY <1>3, <1>4, <1>6 DEF TxTypes
<1>8. TxRings'
  BY <1>4, <1>5 DEF TxRings, TxTypes
<1>9. Composing'
  <2>1. CASE c = 0
    BY <1>4, <2>1 DEF Composing, Busy
  <2>2. CASE c # 0
    <3>1. tx'[0] = tx[0] /\ tx_tail'[0] = tx_tail[0]
      BY <1>4, <2>2, CoreZero DEF TxTypes
    <3>. QED  BY <1>4, <3>1 DEF Composing, Busy
  <2>. QED  BY <2>1, <2>2
<1>. QED  BY <1>7, <1>8, <1>9

LEMMA FastKernelPollKeeps ==
  ASSUME KernelQueuesAssumption, TxInv, NEW c \in Cores, FastKernelPoll(c)
  PROVE  TxInv'
<1>. USE DEF TxInv
<1> DEFINE i == tx_head[c]
<1> DEFINE q == [tx[c] EXCEPT ![i].type = "none"]
<1> DEFINE hd == Plus(i, 1, TxLen)
<1> DEFINE s == Tail(sent[c])
<1>1. i \in Slots /\ tx[c] \in [Slots -> TxEntry] /\ tx[c][i].type # "none"
  BY DEF TxTypes, FastKernelPoll
<1>2. (i + 1) % TxLen = hd /\ hd \in Slots
  BY <1>1, PlusOne DEF KernelQueuesAssumption, Slots
<1>3. sent[c] # <<>> /\ TxRing(q, hd, tx_tail[c], s)
  BY <1>1, TxTake DEF TxTypes, TxRings
<1>4. q \in [Slots -> TxEntry] /\ s \in Seq(Sent)
  <2>1. q \in [Slots -> TxEntry]
    BY <1>1 DEF TxEntry
  <2>2. s \in Seq(Sent)
    BY <1>3, HeadTailProperties DEF TxTypes
  <2>. QED  BY <2>1, <2>2
<1>5. /\ tx' = [tx EXCEPT ![c] = q] /\ tx_head' = [tx_head EXCEPT ![c] = hd]
      /\ sent' = [sent EXCEPT ![c] = s] /\ UNCHANGED <<tx_tail, hold>>
  BY <1>2, <1>3 DEF FastKernelPoll, TxTypes
<1>6. \A j \in Slots : j # i => q[j] = tx[c][j]
  BY <1>1
<1> HIDE DEF q, hd, s
<1>7. TxTypes'
  BY <1>2, <1>4, <1>5 DEF TxTypes
<1>8. TxRings'
  BY <1>3, <1>5 DEF TxRings, TxTypes
<1>9. Composing'
  <2> SUFFICES ASSUME NEW t \in Threads, Busy(t)
               PROVE  Composed(hold[t], tx_tail[0], tx'[0][tx_tail[0]])
    BY <1>5 DEF Composing, Busy
  <2>1. Composed(hold[t], tx_tail[0], tx[0][tx_tail[0]])
    BY DEF Composing
  <2>2. 0 \in Cores /\ tx_tail[0] \in Slots /\ tx[0][tx_tail[0]].type = "none"
    BY <2>1, CoreZero DEF TxTypes, Composed
  <2>3. tx'[0][tx_tail[0]] = tx[0][tx_tail[0]]
    BY <1>1, <1>5, <1>6, <2>2 DEF TxTypes
  <2>. QED  BY <2>1, <2>3
<1>. QED  BY <1>7, <1>8, <1>9

-----------------------------------------------------------------------------
(* The invariant. *)

LEMMA InitInv ==
  ASSUME KernelQueuesAssumption, Init
  PROVE  IInv
<1>1. /\ 0 \in Cores /\ 0 \in Slots /\ 0 \in RxSlots /\ 0 \in Num /\ 0 \in 0..RxLen /\ 0 \in 0..RxLen + 2 - 1
      /\ RxLen \in Nat \ {0} /\ TxLen \in Nat \ {0}
  BY DEF KernelQueuesAssumption, Cores, Slots, RxSlots, Num
<1>2. Nothing \in Hold /\ Empty \in TxEntry
  <2>1. PacketOf("none", 0) \in Pkt
    BY DEF PacketOf, Pkt
  <2>. QED  BY <1>1, <2>1 DEF Nothing, Hold, Empty, TxEntry
<1>3. RxTypes
  BY <1>1 DEF RxTypes, Init, RxSlots
<1>4. TxTypes
  <2>1. <<>> \in Seq(Sent)
    OBVIOUS
  <2>. QED  BY <1>1, <1>2, <2>1 DEF TxTypes, Init
<1>5. \A i \in RxSlots : Plus(0, i, RxLen) = i
  BY <1>1 DEF Plus, RxSlots
<1>6. \A i \in Slots : Plus(0, i, TxLen) = i
  BY <1>1 DEF Plus, Slots
<1>7. Plus(0, 0, RxLen) = 0 /\ Plus(0, 0, RxLen + 2) = 0 /\ Plus(0, 0, TxLen) = 0
  BY <1>1 DEF Plus
<1>8. RxRings
  <2> SUFFICES ASSUME NEW d \in Cores
               PROVE  RxRing(rx[d], rx_head[d], rx_tail[d], accepted[d], processed[d])
    BY DEF RxRings
  <2>1. /\ rx_head[d] = 0 /\ rx_tail[d] = 0 /\ accepted[d] = 0 /\ processed[d] = 0
        /\ \A i \in RxSlots : rx[d][i] = NoPkt /\ ~(i < 0)
    BY <1>1 DEF Init, RxSlots
  <2>2. \A i \in RxSlots : rx[d][Plus(0, i, RxLen)] = IF i < 0 THEN Plus(0, i, RxLen + 2) ELSE NoPkt
    BY <1>5, <2>1
  <2>. QED  BY <1>1, <1>7, <2>1, <2>2 DEF RxRing
<1>9. TxRings
  <2> SUFFICES ASSUME NEW d \in Cores
               PROVE  TxRing(tx[d], tx_head[d], tx_tail[d], sent[d])
    BY DEF TxRings
  <2>1. tx_head[d] = 0 /\ tx_tail[d] = 0 /\ Len(sent[d]) = 0
    BY <1>1 DEF Init
  <2>2. \A i \in Slots : tx[d][i].type = "none"
    BY DEF Init, Empty
  <2>3. \A i \in Slots : ~(i < 0)
    BY <1>1 DEF Slots
  <2>. QED  BY <1>1, <1>6, <1>7, <2>1, <2>2, <2>3 DEF TxRing
<1>10. Composing
  BY DEF Composing, Busy, Init, Nothing
<1>. QED  BY <1>3, <1>4, <1>8, <1>9, <1>10 DEF IInv, RxInv, TxInv

\* Each direction is left alone by the steps of the other.
LEMMA RxKeeps ==
  ASSUME RxInv, UNCHANGED rxvars
  PROVE  RxInv'
  BY DEF RxInv, RxTypes, RxRings, rxvars

LEMMA TxKeeps ==
  ASSUME TxInv, UNCHANGED txvars
  PROVE  TxInv'
  BY DEF TxInv, TxTypes, TxRings, Composing, Busy, txvars

\* The receive rings, whoever sends.
LEMMA NextRxInv ==
  ASSUME KernelQueuesAssumption, RxInv, [Next]_vars
  PROVE  RxInv'
<1>1. CASE RxqPoll
  BY <1>1, RxqPollKeeps
<1>2. ASSUME NEW c \in Cores, FastKernelPacket(c)
      PROVE  RxInv'
  BY <1>2, FastKernelPacketKeeps
<1>3. CASE UNCHANGED vars
  BY <1>3, RxKeeps DEF vars, rxvars
<1>4. ASSUME NEW c \in Cores, AdminqInitCore(c) \/ Retransmit(c) \/ FastKernelPoll(c)
      PROVE  RxInv'
  BY <1>4, RxKeeps DEF AdminqInitCore, Retransmit, FastKernelPoll
<1>5. ASSUME NEW t \in Threads, Compose(t) \/ TxSend(t) \/ \E n \in Payloads : TxAlloc(t, n)
      PROVE  RxInv'
  BY <1>5, RxKeeps DEF Compose, TxSend, TxAlloc
<1>. QED  BY <1>1, <1>2, <1>3, <1>4, <1>5 DEF Next, FastKernelDrop

\* The transmit rings, if threads take turns: a thread that takes an entry,
\* or retransmits through core 0, finds no other that has one.
LEMMA NextTxInv ==
  ASSUME KernelQueuesAssumption, SameLengths, TxInv, [Next]_vars, [Unmixed]_vars
  PROVE  TxInv'
<1>1. CASE UNCHANGED txvars
  BY <1>1, TxKeeps
<1>2. ASSUME NEW c \in Cores, Retransmit(c)
      PROVE  TxInv'
  <2>1. ASSUME c = 0
        PROVE  \A t \in Threads : ~Busy(t)
    <3>1. hold' = hold /\ sent' = [sent EXCEPT ![0] = Append(sent[0], <<"retran", PacketOf("none", 0)>>)]
      BY <1>2, <2>1 DEF Retransmit
    <3>2. sent[0] \in Seq(Sent) /\ sent'[0] = Append(sent[0], <<"retran", PacketOf("none", 0)>>)
      BY <3>1, CoreZero DEF TxInv, TxTypes
    <3>3. Len(sent'[0]) = Len(sent[0]) + 1 /\ Len(sent[0]) \in Nat
      BY <3>2
    <3>4. Unmixed
      BY <3>3 DEF vars
    <3>. QED  BY <3>1, <3>3, <3>4 DEF Unmixed, Busy
  <2>. QED  BY <1>2, <2>1, RetransmitKeeps
<1>3. ASSUME NEW c \in Cores, FastKernelPoll(c)
      PROVE  TxInv'
  BY <1>3, FastKernelPollKeeps
<1>4. ASSUME NEW t \in Threads, Compose(t)
      PROVE  TxInv'
  BY <1>4, ComposeKeeps
<1>5. ASSUME NEW t \in Threads, TxSend(t)
      PROVE  TxInv'
  BY <1>5, TxSendKeeps
<1>6. ASSUME NEW t \in Threads, NEW n \in Payloads, TxAlloc(t, n)
      PROVE  TxInv'
  <2>1. hold' = [hold EXCEPT ![t] = [state |-> "empty", slot |-> tx_tail[0], opaque |-> Wrapped(tx_tail[0]),
                                     pkt |-> PacketOf(t, n)]]
        /\ hold[t].state = "idle" /\ hold \in [Threads -> Hold]
    BY <1>6 DEF TxAlloc, TxInv, TxTypes
  <2>2. hold'[t].state = "empty" /\ \A s \in Threads : s # t => hold'[s] = hold[s]
    BY <2>1
  <2>3. hold' # hold
    BY <2>1, <2>2
  <2>4. Unmixed
    BY <2>3 DEF vars
  <2>5. \A s \in Threads : s # t => ~Busy(s)
    BY <2>2, <2>3, <2>4 DEF Unmixed, Busy
  <2>. QED  BY <1>6, <2>5, TxAllocKeeps
<1>. QED
  <2>1. RxqPoll => UNCHANGED txvars
    BY DEF RxqPoll
  <2>2. UNCHANGED vars => UNCHANGED txvars
    BY DEF vars, txvars
  <2>3. \A c \in Cores : AdminqInitCore(c) \/ FastKernelPacket(c) \/ FastKernelDrop(c) => UNCHANGED txvars
    BY DEF AdminqInitCore, FastKernelPacket, FastKernelDrop, vars, txvars
  <2>. QED  BY <1>1, <1>2, <1>3, <1>4, <1>5, <1>6, <2>1, <2>2, <2>3 DEF Next

\* With the code's remainders in place of Plus, the invariant is RingsInOrder.
LEMMA RxSound ==
  ASSUME KernelQueuesAssumption, RxInv
  PROVE  RxInOrder
<1>. USE DEF RxInv
<1>1. RxLen \in Nat \ {0} /\ RxSlots = 0..RxLen - 1
  BY DEF KernelQueuesAssumption, RxSlots
<1>2. PICK m \in Nat \ {0} : m = RxLen + 2 /\ Num = 0..m - 1
  BY <1>1 DEF Num
<1>3. RxInOrder
  <2> SUFFICES ASSUME NEW c \in Cores
               PROVE  \E k \in 0..RxLen :
                        /\ accepted[c] = (processed[c] + k) % (RxLen + 2)
                        /\ \A i \in 0..RxLen - 1 :
                             rx[c][(rx_tail[c] + i) % RxLen] =
                               IF i < k THEN (processed[c] + i) % (RxLen + 2) ELSE NoPkt
    BY DEF RxInOrder
  <2>1. processed[c] \in 0..m - 1 /\ rx_tail[c] \in 0..RxLen - 1
    BY <1>1, <1>2 DEF RxTypes
  <2>2. PICK k \in 0..RxLen :
          /\ accepted[c] = Plus(processed[c], k, m)
          /\ \A i \in RxSlots : rx[c][Plus(rx_tail[c], i, RxLen)] = IF i < k THEN Plus(processed[c], i, m) ELSE NoPkt
    BY <1>2 DEF RxRings, RxRing
  <2>3. ASSUME NEW i \in 0..RxLen
        PROVE  (processed[c] + i) % (RxLen + 2) = Plus(processed[c], i, m)
    <3>1. i \in 0..m
      BY <1>1, <1>2
    <3>. QED  BY <1>2, <2>1, <3>1, PlusMod
  <2>4. ASSUME NEW i \in 0..RxLen - 1
        PROVE  (rx_tail[c] + i) % RxLen = Plus(rx_tail[c], i, RxLen) /\ i \in 0..RxLen
    <3>1. i \in 0..RxLen
      BY <1>1
    <3>. QED  BY <1>1, <2>1, <3>1, PlusMod
  <2>. QED  BY <1>1, <2>2, <2>3, <2>4
<1>. QED  BY <1>3

LEMMA InvSound ==
  ASSUME KernelQueuesAssumption, IInv
  PROVE  RingsInOrder
<1>. USE DEF IInv, RxInv, TxInv
<1>1. /\ RxLen \in Nat \ {0} /\ TxLen \in Nat \ {0}
      /\ RxSlots = 0..RxLen - 1 /\ Slots = 0..TxLen - 1
  BY DEF KernelQueuesAssumption, RxSlots, Slots
<1>2. PICK m \in Nat \ {0} : m = RxLen + 2 /\ Num = 0..m - 1
  BY <1>1 DEF Num
<1>3. TypeOK
  <2>1. \A c \in Cores : \A i \in 0..RxLen - 1 : rx[c][i] \in Num \cup {NoPkt}
    BY <1>1 DEF RxTypes
  <2>2. \A c \in Cores : {tx_head[c], tx_tail[c]} \subseteq Slots /\ {rx_head[c], rx_tail[c]} \subseteq 0..RxLen - 1
    BY <1>1 DEF RxTypes, TxTypes
  <2>3. \A c \in Cores : Len(sent[c]) <= TxLen
    BY DEF TxRings, TxRing
  <2>. QED  BY <2>1, <2>2, <2>3 DEF TypeOK
<1>4. RxInOrder
  BY RxSound
<1>5. TxInOrder
  <2> SUFFICES ASSUME NEW c \in Cores, NEW i \in Slots
               PROVE  LET e == tx[c][(tx_head[c] + i) % TxLen]
                      IN IF i < Len(sent[c])
                         THEN /\ e.type = sent[c][i + 1][1]
                              /\ e.type = "packet" => {e.len, e.buf} = {sent[c][i + 1][2]}
                         ELSE e.type = "none"
    BY DEF TxInOrder
  <2>1. tx_head[c] \in 0..TxLen - 1 /\ i \in 0..TxLen
    BY <1>1 DEF TxTypes
  <2>2. (tx_head[c] + i) % TxLen = Plus(tx_head[c], i, TxLen)
    BY <1>1, <2>1, PlusMod
  <2> DEFINE e == tx[c][Plus(tx_head[c], i, TxLen)]
  <2>3. IF i < Len(sent[c])
        THEN /\ e.type = sent[c][i + 1][1]
             /\ e.type = "packet" => e.len = sent[c][i + 1][2] /\ e.buf = sent[c][i + 1][2]
        ELSE e.type = "none"
    BY DEF TxRings, TxRing
  <2> HIDE DEF e
  <2>4. IF i < Len(sent[c])
        THEN /\ e.type = sent[c][i + 1][1]
             /\ e.type = "packet" => {e.len, e.buf} = {sent[c][i + 1][2]}
        ELSE e.type = "none"
    BY <2>3
  <2>. QED  BY <2>2, <2>4 DEF e
<1>. QED  BY <1>3, <1>4, <1>5 DEF RingsInOrder

\* The receive rings hold exactly what the fast path put in and the kernel
\* has not taken, in order (fast_kernel_packet, rxq_poll): for any number of
\* cores and any length, whatever is sent at the same time.
THEOREM RxRingsOrdered ==
  ASSUME KernelQueuesAssumption
  PROVE  Spec => []RxInOrder
<1>1. Init => RxInv
  BY InitInv DEF IInv
<1>2. RxInv /\ [Next]_vars => RxInv'
  BY NextRxInv
<1>3. RxInv => RxInOrder
  BY RxSound
<1>. QED  BY <1>1, <1>2, <1>3, PTL DEF Spec

\* Both rings hold exactly what was put in and not taken out, in order, the
\* packets of the transmit ring whole (fast_kernel_packet, rxq_poll,
\* nicif_tx_alloc, nicif_tx_send, fast_kernel_poll): for any number of cores
\* and any length, provided both rings have the same one, and any number of
\* threads that send, as long as none takes an entry while another has one.
THEOREM RingsOrdered ==
  ASSUME KernelQueuesAssumption, SameLengths
  PROVE  Spec /\ [][Unmixed]_vars => []RingsInOrder
<1>1. Init => IInv
  BY InitInv
<1>2. IInv /\ [Next]_vars /\ [Unmixed]_vars => IInv'
  BY NextRxInv, NextTxInv DEF IInv
<1>3. IInv => RingsInOrder
  BY InvSound
<1>. QED  BY <1>1, <1>2, <1>3, PTL DEF Spec
-----------------------------------------------------------------------------
(* Packet memory.                                                          *)
(*                                                                         *)
(* The regions of all live handles, of callers and of the free list, tile  *)
(* the memory; the free list is a finite sequence of different handles,    *)
(* linked by their next pointers, of exactly the live handles that no      *)
(* caller has.  Taking an element out, putting one in and merging one with *)
(* its successor keep that, wherever in the list it is, so that the order  *)
(* of the list, which packetmem_free does not keep, plays no part.  What a *)
(* walk found is still linked where it was when AllocTake takes it,        *)
(* because the thread itself does nothing in between and no other thread   *)
(* changes the list.                                                       *)

\* What is kept of a handle.
Region == [base : Nat, len : Nat, next : Mem!Handles \cup {Nil}]

Reg(base, len, next) == [base |-> base, len |-> len, next |-> next]
Resized(region, len) == [region EXCEPT !.len = len]

\* The list from fl through the next pointers of p is s[1], ..., s[k].
IsList(fl, p, s, k) ==
  /\ s \in [1..k -> Mem!Handles]
  /\ \A i, j \in 1..k : s[i] = s[j] => i = j
  /\ fl = IF k = 0 THEN Nil ELSE s[1]
  /\ \A i \in 1..k : p[s[i]].next = IF i = k THEN Nil ELSE s[i + 1]

\* The list has exactly the handles of F.
Listed(fl, p, F) ==
  \E k \in Nat : \E s \in [1..k -> Mem!Handles] :
    IsList(fl, p, s, k) /\ \A x : x \in F <=> \E i \in 1..k : x = s[i]

\* The regions of the handles in lv are a partition of the memory.
Tiled(p, lv) ==
  /\ \A x \in lv : p[x].len > 0 /\ p[x].base + p[x].len <= MemSize
  /\ \A x, y \in lv : x # y => \/ p[x].base + p[x].len <= p[y].base
                               \/ p[y].base + p[y].len <= p[x].base
  /\ \A b \in 0..MemSize - 1 : \E x \in lv : p[x].base <= b /\ b < p[x].base + p[x].len

\* What the free list, the handles, the live ones and those of callers are.
Sound(fl, p, lv, ow) ==
  /\ lv \subseteq Mem!Handles /\ ow \subseteq lv
  /\ p \in [Mem!Handles -> Region]
  /\ Listed(fl, p, lv \ ow)
  /\ Tiled(p, lv)

\* prev is the predecessor of x in the list, Nil if x is the first.
Precedes(fl, p, F, prev, x) ==
  IF prev = Nil THEN fl = x ELSE prev \in F /\ p[prev].next = x

\* What is left of a list when y, after prev, is taken out; and what becomes
\* of it when x is put after prev, or in front.
TakenOut(fl, p, F, prev, y, fl2, p2) ==
  /\ fl2 = IF prev = Nil THEN p[y].next ELSE fl
  /\ \A x \in F \ {y} : p2[x].next = IF x = prev THEN p[y].next ELSE p[x].next
PutAfter(fl, p, F, prev, x, fl2, p2) ==
  /\ fl2 = IF prev = Nil THEN x ELSE fl
  /\ p2[x].next = IF prev = Nil THEN fl ELSE p[prev].next
  /\ \A z \in F : p2[z].next = IF z = prev THEN x ELSE p[z].next

\* What a walk found is still there.
Search == [len : Nat, at : Mem!Handles \cup {Nil}, prev : Mem!Handles \cup {Nil}]
FoundSound(f) ==
  f # Mem!NotSearching =>
    /\ f.len > 0 /\ f.at \in live \ owned /\ ph[f.at].len >= f.len
    /\ Precedes(freelist, ph, live \ owned, f.prev, f.at)

MemInv ==
  /\ Sound(freelist, ph, live, owned)
  /\ found \in [MemThreads -> Search] /\ \A t \in MemThreads : FoundSound(found[t])
-----------------------------------------------------------------------------
\* A set of natural numbers has a smallest element.
LEMMA LessThan ==
  \E R : IsWellFoundedOn(R, Nat) /\ \A x, y \in Nat : x < y => <<x, y>> \in R
<1> DEFINE R == OpToRel(<, Nat)
<1>1. IsWellFoundedOn(R, Nat)
  BY NatLessThanWellFounded
<1>2. \A x, y \in Nat : x < y => <<x, y>> \in R
  BY DEF OpToRel
<1>. QED  BY <1>1, <1>2

LEMMA SmallestNat ==
  ASSUME NEW T, T \subseteq Nat, T # {}
  PROVE  \E x \in T : \A y \in T : x <= y
<1>1. PICK R : IsWellFoundedOn(R, Nat) /\ \A x, y \in Nat : x < y => <<x, y>> \in R
  BY LessThan
<1>2. IsWellFoundedOn(R, Nat)
  BY <1>1
<1>3. PICK x \in T : \A y \in T : ~(<<y, x>> \in R)
  BY <1>2, WFMin
<1>4. ASSUME NEW y \in T PROVE x <= y
  <2>1. x \in Nat /\ y \in Nat
    OBVIOUS
  <2>2. ~(y < x)
    BY <1>1, <1>3, <2>1
  <2>. QED  BY <2>1, <2>2
<1>. QED  BY <1>4

\* The first of a set of positions is in it and none is before it.
LEMMA FirstIs ==
  ASSUME NEW S, S \subseteq Nat, S # {}
  PROVE  Mem!First(S) \in S /\ \A m \in S : Mem!First(S) <= m
BY SmallestNat DEF Mem!First
-----------------------------------------------------------------------------
(* Lists *)

\* The list does not change with what is not a pointer of it.
LEMMA ListSame ==
  ASSUME NEW fl, NEW p, NEW p2, NEW F, Listed(fl, p, F), \A x \in F : p2[x].next = p[x].next
  PROVE  Listed(fl, p2, F)
<1>0. PICK k \in Nat : \E s \in [1..k -> Mem!Handles] :
        IsList(fl, p, s, k) /\ \A x : x \in F <=> \E i \in 1..k : x = s[i]
  BY DEF Listed
<1>1. PICK s \in [1..k -> Mem!Handles] :
        IsList(fl, p, s, k) /\ \A x : x \in F <=> \E i \in 1..k : x = s[i]
  BY <1>0
<1>2. \A i \in 1..k : p2[s[i]].next = p[s[i]].next
  BY <1>1
<1>3. IsList(fl, p2, s, k)
  BY <1>1, <1>2 DEF IsList
<1> QED BY <1>1, <1>3 DEF Listed

\* The pointers lead to other handles of the list.
LEMMA ListNext ==
  ASSUME NEW fl, NEW p, NEW F, Listed(fl, p, F), Mem!NilAssumption
  PROVE  /\ F \subseteq Mem!Handles
         /\ fl \in F \cup {Nil} /\ (fl = Nil <=> F = {})
         /\ \A x \in F : p[x].next \in F \cup {Nil} /\ p[x].next # x /\ p[x].next # fl
         /\ \A x, y \in F : x # y /\ p[x].next = p[y].next => p[x].next = Nil
<1>0. PICK k \in Nat : \E s \in [1..k -> Mem!Handles] :
        IsList(fl, p, s, k) /\ \A x : x \in F <=> \E i \in 1..k : x = s[i]
  BY DEF Listed
<1>1. PICK s \in [1..k -> Mem!Handles] :
        IsList(fl, p, s, k) /\ \A x : x \in F <=> \E i \in 1..k : x = s[i]
  BY <1>0
<1>2. F \subseteq Mem!Handles
  BY <1>1
<1>3. fl \in F \cup {Nil} /\ (fl = Nil <=> F = {})
  <2>1. CASE k = 0
    BY <1>1, <2>1 DEF IsList
  <2>2. CASE k # 0
    <3>1. 1 \in 1..k /\ fl = s[1]
      BY <1>1, <2>2 DEF IsList
    <3>2. fl \in F
      BY <1>1, <3>1
    <3> QED BY <1>2, <3>2 DEF Mem!NilAssumption
  <2> QED BY <2>1, <2>2
<1>4. ASSUME NEW x \in F
      PROVE  p[x].next \in F \cup {Nil} /\ p[x].next # x /\ p[x].next # fl
  <2>1. PICK i \in 1..k : x = s[i]
    BY <1>1
  <2>2. s[i] # Nil /\ k # 0 /\ fl = s[1] /\ s[1] # Nil
    BY <1>1 DEF IsList, Mem!NilAssumption
  <2>3. CASE i = k
    BY <1>1, <2>1, <2>2, <2>3 DEF IsList
  <2>4. CASE i # k
    <3>1. i + 1 \in 1..k /\ p[x].next = s[i + 1] /\ 1 \in 1..k /\ i + 1 # i /\ i + 1 # 1
      BY <1>1, <2>1, <2>4 DEF IsList
    <3> QED BY <1>1, <2>1, <2>2, <3>1 DEF IsList
  <2> QED BY <2>3, <2>4
<1>5. ASSUME NEW x \in F, NEW y \in F, x # y, p[x].next = p[y].next
      PROVE  p[x].next = Nil
  <2>1. PICK i \in 1..k, j \in 1..k : x = s[i] /\ y = s[j]
    BY <1>1
  <2>2. CASE i = k
    BY <1>1, <2>1, <2>2 DEF IsList
  <2>3. CASE j = k
    BY <1>1, <1>5, <2>1, <2>3 DEF IsList
  <2>4. CASE i # k /\ j # k
    <3>1. i + 1 \in 1..k /\ p[x].next = s[i + 1] /\ j + 1 \in 1..k /\ p[y].next = s[j + 1]
      BY <1>1, <2>1, <2>4 DEF IsList
    <3>2. i + 1 = j + 1
      BY <1>1, <1>5, <3>1 DEF IsList
    <3> QED BY <1>5, <2>1, <3>2
  <2> QED BY <2>2, <2>3, <2>4
<1> QED BY <1>2, <1>3, <1>4, <1>5

\* An element is taken out.
LEMMA ListRemove ==
  ASSUME NEW fl, NEW p, NEW F, Mem!NilAssumption, Listed(fl, p, F),
         NEW y \in F, NEW prev, Precedes(fl, p, F, prev, y),
         NEW fl2, NEW p2, TakenOut(fl, p, F, prev, y, fl2, p2)
  PROVE  Listed(fl2, p2, F \ {y})
<1> USE DEF TakenOut
<1>0. PICK k \in Nat : \E s \in [1..k -> Mem!Handles] :
        IsList(fl, p, s, k) /\ \A x : x \in F <=> \E i \in 1..k : x = s[i]
  BY DEF Listed
<1>1. PICK s \in [1..k -> Mem!Handles] :
        IsList(fl, p, s, k) /\ \A x : x \in F <=> \E i \in 1..k : x = s[i]
  BY <1>0
<1>2. PICK j \in 1..k : y = s[j]
  BY <1>1
<1>3. PICK m \in Nat : m = k - 1
  BY <1>2
<1> DEFINE t == [i \in 1..m |-> IF i < j THEN s[i] ELSE s[i + 1]]
<1>4. t \in [1..m -> Mem!Handles] /\ (\A i \in 1..m : t[i] = IF i < j THEN s[i] ELSE s[i + 1])
  <2>1. \A i \in 1..m : i \in 1..k /\ i + 1 \in 1..k
    BY <1>3
  <2> QED BY <2>1
<1> HIDE DEF t
<1>5. \A a, b \in 1..m : t[a] = t[b] => a = b
  <2> SUFFICES ASSUME NEW a \in 1..m, NEW b \in 1..m, t[a] = t[b] PROVE a = b
    OBVIOUS
  <2>1. \A c, d \in 1..k : s[c] = s[d] => c = d
    BY <1>1 DEF IsList
  <2>2. a \in 1..k /\ a + 1 \in 1..k /\ b \in 1..k /\ b + 1 \in 1..k
    BY <1>3
  <2> QED BY <1>2, <1>4, <2>1, <2>2
<1>6. prev = Nil => j = 1
  <2> SUFFICES ASSUME prev = Nil PROVE j = 1
    OBVIOUS
  <2>1. fl = s[j] /\ fl = s[1] /\ 1 \in 1..k
    BY <1>1, <1>2 DEF Precedes, IsList
  <2> QED BY <1>1, <2>1 DEF IsList
<1>7. prev # Nil => j > 1 /\ prev = s[j - 1]
  <2> SUFFICES ASSUME prev # Nil PROVE j > 1 /\ prev = s[j - 1]
    OBVIOUS
  <2>1. PICK i \in 1..k : prev = s[i]
    BY <1>1 DEF Precedes
  <2>2. p[s[i]].next = s[j] /\ s[j] # Nil
    BY <1>2, <2>1 DEF Precedes, Mem!NilAssumption
  <2>3. i # k /\ i + 1 \in 1..k /\ s[i + 1] = s[j]
    BY <1>1, <2>2 DEF IsList
  <2>4. i + 1 = j
    BY <1>1, <1>2, <2>3 DEF IsList
  <2> QED BY <2>1, <2>4
<1>8. \A i \in 1..k : p[s[i]].next = IF i = k THEN Nil ELSE s[i + 1]
  BY <1>1 DEF IsList
<1>9. fl2 = IF m = 0 THEN Nil ELSE t[1]
  <2>1. CASE prev = Nil
    <3>1. j = 1 /\ fl2 = p[s[1]].next /\ 1 \in 1..k
      BY <1>2, <1>6, <2>1
    <3> QED BY <1>3, <1>4, <1>8, <3>1
  <2>2. CASE prev # Nil
    <3>1. j > 1 /\ fl2 = s[1] /\ m # 0 /\ 1 \in 1..m
      BY <1>1, <1>3, <1>7, <2>2 DEF IsList
    <3> QED BY <1>4, <3>1
  <2> QED BY <2>1, <2>2
<1>10. \A x : x \in F \ {y} <=> \E i \in 1..m : x = t[i]
  <2>1. \A c, d \in 1..k : s[c] = s[d] => c = d
    BY <1>1 DEF IsList
  <2>2. ASSUME NEW x \in F \ {y} PROVE \E i \in 1..m : x = t[i]
    <3>1. PICK i \in 1..k : x = s[i]
      BY <1>1
    <3>2. i # j
      BY <1>2, <3>1
    <3>3. CASE i < j
      <4>1. i \in 1..m /\ t[i] = x
        BY <1>3, <1>4, <3>1, <3>3
      <4> QED BY <4>1
    <3>4. CASE i > j
      <4>1. i - 1 \in 1..m /\ ~(i - 1 < j) /\ i - 1 + 1 = i
        BY <1>3, <3>4
      <4>2. t[i - 1] = x
        BY <1>4, <3>1, <4>1
      <4> QED BY <4>1, <4>2
    <3> QED BY <3>2, <3>3, <3>4
  <2>3. ASSUME NEW i \in 1..m PROVE t[i] \in F \ {y}
    <3>1. i \in 1..k /\ i + 1 \in 1..k
      BY <1>3
    <3> QED BY <1>1, <1>2, <1>4, <2>1, <3>1
  <2> QED BY <2>2, <2>3
<1>11. ASSUME NEW i \in 1..m
       PROVE  p2[t[i]].next = IF i = m THEN Nil ELSE t[i + 1]
  <2>0. i \in 1..k /\ i + 1 \in 1..k /\ (i # m => i + 1 \in 1..m)
    BY <1>3
  <2>1. t[i] \in F \ {y}
    BY <1>10
  <2>2. p2[t[i]].next = IF t[i] = prev THEN p[y].next ELSE p[t[i]].next
    BY <2>1
  <2>3. \A c, d \in 1..k : s[c] = s[d] => c = d
    BY <1>1 DEF IsList
  <2>4. CASE i >= j
    <3>1. t[i] = s[i + 1] /\ t[i] # prev
      <4>1. t[i] = s[i + 1] /\ t[i] # Nil
        BY <1>4, <2>0, <2>4 DEF Mem!NilAssumption
      <4>2. CASE prev # Nil
        <5>1. j - 1 \in 1..k /\ prev = s[j - 1] /\ j - 1 # i + 1
          BY <1>7, <2>4, <4>2
        <5> QED BY <2>0, <2>3, <4>1, <5>1
      <4> QED BY <4>1, <4>2
    <3>2. p[s[i + 1]].next = IF i + 1 = k THEN Nil ELSE s[i + 1 + 1]
      BY <1>8, <2>0
    <3> QED BY <1>3, <1>4, <2>0, <2>2, <2>4, <3>1, <3>2
  <2>5. CASE i = j - 1
    <3>1. prev = s[i] /\ t[i] = s[i]
      <4>1. j # 1
        BY <2>5
      <4> QED BY <1>4, <1>6, <1>7, <2>5, <4>1
    <3>2. p[y].next = IF j = k THEN Nil ELSE s[j + 1]
      BY <1>2, <1>8
    <3> QED BY <1>3, <1>4, <2>0, <2>2, <2>5, <3>1, <3>2
  <2>6. CASE i < j - 1
    <3>1. t[i] = s[i] /\ t[i] # prev
      <4>1. t[i] = s[i] /\ j > 1
        BY <1>4, <2>0, <2>6
      <4>2. j - 1 \in 1..k /\ prev = s[j - 1] /\ j - 1 # i
        BY <1>6, <1>7, <2>6, <4>1
      <4> QED BY <2>0, <2>3, <4>1, <4>2
    <3>2. p[s[i]].next = s[i + 1] /\ i # m /\ t[i + 1] = s[i + 1]
      BY <1>3, <1>4, <1>8, <2>0, <2>6
    <3> QED BY <2>2, <3>1, <3>2
  <2> QED BY <2>4, <2>5, <2>6
<1>12. IsList(fl2, p2, t, m)
  BY <1>4, <1>5, <1>9, <1>11 DEF IsList
<1> QED BY <1>4, <1>10, <1>12 DEF Listed

\* An element is put after prev, or in front.
LEMMA ListInsert ==
  ASSUME NEW fl, NEW p, NEW F, Mem!NilAssumption, Listed(fl, p, F),
         NEW x \in Mem!Handles, x \notin F, NEW prev, prev \in F \cup {Nil},
         NEW fl2, NEW p2, PutAfter(fl, p, F, prev, x, fl2, p2)
  PROVE  Listed(fl2, p2, F \cup {x})
<1> USE DEF PutAfter
<1>0. PICK k \in Nat : \E s \in [1..k -> Mem!Handles] :
        IsList(fl, p, s, k) /\ \A z : z \in F <=> \E i \in 1..k : z = s[i]
  BY DEF Listed
<1>1. PICK s \in [1..k -> Mem!Handles] :
        IsList(fl, p, s, k) /\ \A z : z \in F <=> \E i \in 1..k : z = s[i]
  BY <1>0
<1>2. PICK j \in 0..k : IF prev = Nil THEN j = 0 ELSE j # 0 /\ prev = s[j]
  BY <1>1
<1>3. PICK m \in Nat : m = k + 1
  OBVIOUS
<1> DEFINE t == [i \in 1..m |-> IF i <= j THEN s[i] ELSE IF i = j + 1 THEN x ELSE s[i - 1]]
<1>4. t \in [1..m -> Mem!Handles]
      /\ (\A i \in 1..m : t[i] = IF i <= j THEN s[i] ELSE IF i = j + 1 THEN x ELSE s[i - 1])
  <2>1. \A i \in 1..m : (i <= j => i \in 1..k) /\ (i > j + 1 => i - 1 \in 1..k)
    BY <1>3
  <2> QED BY <2>1
<1> HIDE DEF t
<1>5. \A a, b \in 1..k : s[a] = s[b] => a = b
  BY <1>1 DEF IsList
<1>6. \A i \in 1..k : s[i] # x /\ s[i] # Nil
  BY <1>1 DEF Mem!NilAssumption
<1>7. \A a, b \in 1..m : t[a] = t[b] => a = b
  <2> SUFFICES ASSUME NEW a \in 1..m, NEW b \in 1..m, t[a] = t[b] PROVE a = b
    OBVIOUS
  <2>1. (a <= j => a \in 1..k) /\ (a > j + 1 => a - 1 \in 1..k)
        /\ (b <= j => b \in 1..k) /\ (b > j + 1 => b - 1 \in 1..k)
    BY <1>3
  <2> QED BY <1>4, <1>5, <1>6, <2>1
<1>8. \A i \in 1..k : p[s[i]].next = IF i = k THEN Nil ELSE s[i + 1]
  BY <1>1 DEF IsList
<1>9. fl2 = IF m = 0 THEN Nil ELSE t[1]
  <2>1. m # 0 /\ 1 \in 1..m
    BY <1>3
  <2>2. CASE prev = Nil
    BY <1>2, <1>4, <2>1, <2>2
  <2>3. CASE prev # Nil
    <3>1. fl2 = s[1] /\ 1 <= j
      BY <1>1, <1>2, <2>3 DEF IsList
    <3> QED BY <1>4, <2>1, <3>1
  <2> QED BY <2>2, <2>3
<1>10. \A z : z \in F \cup {x} <=> \E i \in 1..m : z = t[i]
  <2>1. ASSUME NEW z \in F \cup {x} PROVE \E i \in 1..m : z = t[i]
    <3>1. CASE z = x
      <4>1. j + 1 \in 1..m /\ ~(j + 1 <= j)
        BY <1>3
      <4>2. t[j + 1] = x
        BY <1>4, <4>1
      <4> QED BY <3>1, <4>1, <4>2
    <3>2. CASE z # x
      <4>1. PICK i \in 1..k : z = s[i]
        BY <1>1, <3>2
      <4>2. CASE i <= j
        <5>1. i \in 1..m /\ t[i] = s[i]
          BY <1>3, <1>4, <4>2
        <5> QED BY <4>1, <5>1
      <4>3. CASE i > j
        <5>1. i + 1 \in 1..m /\ ~(i + 1 <= j) /\ i + 1 # j + 1 /\ i + 1 - 1 = i
          BY <1>3, <4>3
        <5>2. t[i + 1] = s[i]
          BY <1>4, <5>1
        <5> QED BY <4>1, <5>1, <5>2
      <4> QED BY <4>2, <4>3
    <3> QED BY <3>1, <3>2
  <2>2. ASSUME NEW i \in 1..m PROVE t[i] \in F \cup {x}
    <3>1. (i <= j => i \in 1..k) /\ (i > j + 1 => i - 1 \in 1..k)
      BY <1>3
    <3> QED BY <1>1, <1>4, <3>1
  <2> QED BY <2>1, <2>2
<1>11. ASSUME NEW i \in 1..m
       PROVE  p2[t[i]].next = IF i = m THEN Nil ELSE t[i + 1]
  <2>1. CASE i < j
    <3>1. i \in 1..k /\ j \in 1..k /\ i # k /\ i # m /\ i + 1 \in 1..m /\ i + 1 <= j /\ i # j
      BY <1>3, <2>1
    <3>2. t[i] = s[i] /\ t[i + 1] = s[i + 1]
      BY <1>4, <2>1, <3>1
    <3>3. s[i] # prev /\ s[i] \in F
      BY <1>1, <1>2, <1>5, <1>6, <3>1
    <3>4. p2[s[i]].next = p[s[i]].next
      BY <3>3
    <3> QED BY <1>8, <3>1, <3>2, <3>4
  <2>2. CASE i = j
    <3>1. i \in 1..k /\ i # m /\ i + 1 \in 1..m
      BY <1>3, <2>2
    <3>2. t[i] = s[i] /\ t[i + 1] = x
      BY <1>4, <2>2, <3>1
    <3>3. s[i] = prev /\ s[i] \in F
      BY <1>1, <1>2, <2>2, <3>1
    <3> QED BY <3>1, <3>2, <3>3
  <2>3. CASE i = j + 1
    <3>1. t[i] = x
      BY <1>4, <2>3
    <3>2. CASE j = 0
      <4>1. prev = Nil /\ p2[x].next = fl
        BY <1>2, <3>2
      <4>2. fl = IF k = 0 THEN Nil ELSE s[1]
        BY <1>1 DEF IsList
      <4>3. CASE k = 0
        BY <1>3, <2>3, <3>1, <3>2, <4>1, <4>2, <4>3
      <4>4. CASE k # 0
        <5>1. i + 1 \in 1..m /\ ~(i + 1 <= j) /\ i + 1 # j + 1 /\ i + 1 - 1 = 1 /\ i # m
          BY <1>3, <2>3, <3>2, <4>4
        <5>2. t[i + 1] = s[1]
          BY <1>4, <5>1
        <5> QED BY <3>1, <4>1, <4>2, <4>4, <5>1, <5>2
      <4> QED BY <4>3, <4>4
    <3>3. CASE j # 0
      <4>1. j \in 1..k /\ prev = s[j] /\ prev # Nil
        BY <1>2, <1>6, <3>3
      <4>2. p2[x].next = IF j = k THEN Nil ELSE s[j + 1]
        BY <1>8, <4>1
      <4>3. CASE j = k
        BY <1>3, <2>3, <3>1, <4>2, <4>3
      <4>4. CASE j # k
        <5>1. i + 1 \in 1..m /\ ~(i + 1 <= j) /\ i + 1 # j + 1 /\ i + 1 - 1 = j + 1 /\ i # m
          BY <1>3, <2>3, <4>4
        <5>2. t[i + 1] = s[j + 1]
          BY <1>4, <5>1
        <5> QED BY <3>1, <4>2, <4>4, <5>1, <5>2
      <4> QED BY <4>3, <4>4
    <3> QED BY <3>2, <3>3
  <2>4. CASE i > j + 1
    <3>1. i - 1 \in 1..k /\ ~(i <= j) /\ i # j + 1 /\ i - 1 # j
      BY <1>3, <2>4
    <3>2. t[i] = s[i - 1]
      BY <1>4, <3>1
    <3>3. s[i - 1] # prev /\ s[i - 1] \in F
      <4>1. prev # Nil => j \in 1..k /\ prev = s[j]
        BY <1>2
      <4> QED BY <1>1, <1>5, <1>6, <3>1, <4>1
    <3>4. p2[s[i - 1]].next = IF i - 1 = k THEN Nil ELSE s[i - 1 + 1]
      BY <1>8, <3>1, <3>3
    <3>5. CASE i = m
      BY <1>3, <3>2, <3>4, <3>5
    <3>6. CASE i # m
      <4>1. i + 1 \in 1..m /\ ~(i + 1 <= j) /\ i + 1 # j + 1 /\ i + 1 - 1 = i /\ i - 1 + 1 = i
            /\ i - 1 # k
        BY <1>3, <2>4, <3>6
      <4>2. t[i + 1] = s[i]
        BY <1>4, <4>1
      <4> QED BY <3>2, <3>4, <3>6, <4>1, <4>2
    <3> QED BY <3>5, <3>6
  <2> QED BY <2>1, <2>2, <2>3, <2>4
<1>12. IsList(fl2, p2, t, m)
  BY <1>4, <1>7, <1>9, <1>11 DEF IsList
<1> QED BY <1>4, <1>10, <1>12 DEF Listed
-----------------------------------------------------------------------------
(* The walk *)

\* The n-th element of the list is what n steps of the walk find, and there
\* are no more elements than handles.
LEMMA WalkIs ==
  ASSUME Mem!MemAssumption, Mem!NilAssumption, NEW k \in Nat, NEW s \in [1..k -> Mem!Handles],
         IsList(freelist, ph, s, k)
  PROVE  /\ k <= MaxHandles
         /\ \A n \in 0..MaxHandles : Mem!Walk[n] = IF n < k THEN s[n + 1] ELSE Nil
<1>1. k <= MaxHandles
  <2>1. s \in Injection(1..k, Mem!Handles)
    BY DEF IsList, Injection, IsInjective
  <2>2. IsFiniteSet(1..k) /\ Cardinality(1..k) = k
    <3>1. IsFiniteSet(1..k) /\ Cardinality(1..k) = IF 1 > k THEN 0 ELSE k - 1 + 1
      BY FS_Interval
    <3> QED BY <3>1
  <2>3. IsFiniteSet(Mem!Handles) /\ Cardinality(Mem!Handles) = MaxHandles
    <3>1. IsFiniteSet(1..MaxHandles)
          /\ Cardinality(1..MaxHandles) = IF 1 > MaxHandles THEN 0 ELSE MaxHandles - 1 + 1
      BY FS_Interval DEF Mem!MemAssumption
    <3> QED BY <3>1 DEF Mem!Handles, Mem!MemAssumption
  <2> QED BY <2>1, <2>2, <2>3, FS_Injection
<1> DEFINE Rec(w) == w = [n \in 0..MaxHandles |-> IF n = 0 THEN freelist
                                ELSE IF w[n - 1] = Nil THEN Nil ELSE ph[w[n - 1]].next]
           v == [n \in 0..MaxHandles |-> IF n < k THEN s[n + 1] ELSE Nil]
<1>2. Rec(v)
  <2>1. \A n \in 0..MaxHandles : v[n] = IF n < k THEN s[n + 1] ELSE Nil
    OBVIOUS
  <2>2. freelist = v[0]
    BY <2>1 DEF IsList, Mem!MemAssumption
  <2>3. ASSUME NEW n \in 0..MaxHandles, n # 0
        PROVE  v[n] = IF v[n - 1] = Nil THEN Nil ELSE ph[v[n - 1]].next
    <3>1. n - 1 \in 0..MaxHandles /\ n - 1 + 1 = n
      BY <2>3 DEF Mem!MemAssumption
    <3>2. v[n - 1] = IF n - 1 < k THEN s[n] ELSE Nil
      BY <2>1, <3>1
    <3>3. n - 1 < k => n \in 1..k /\ s[n] # Nil /\ ph[s[n]].next = IF n = k THEN Nil ELSE s[n + 1]
      BY <2>3 DEF IsList, Mem!NilAssumption
    <3> HIDE DEF v
    <3> QED BY <2>1, <3>1, <3>2, <3>3
  <2> HIDE DEF v
  <2>4. v = [n \in 0..MaxHandles |-> v[n]]
    BY DEF v
  <2> QED BY <2>2, <2>3, <2>4
<1>3. Rec(Mem!Walk)
  <2>1. Mem!Walk = CHOOSE w : Rec(w)
    BY DEF Mem!Walk
  <2> HIDE DEF Rec, v
  <2> QED BY <1>2, <2>1
<1>4. \A n \in 0..MaxHandles : Mem!Walk[n] = v[n]
  <2> DEFINE T == {n \in 0..MaxHandles : Mem!Walk[n] # v[n]}
  <2> SUFFICES ASSUME T # {} PROVE FALSE
    OBVIOUS
  <2>1. PICK n \in T : \A m \in T : n <= m
    <3>1. T \subseteq Nat
      OBVIOUS
    <3> HIDE DEF T
    <3> QED BY <3>1, SmallestNat
  <2> DEFINE W == Mem!Walk
  <2>2. W = [i \in 0..MaxHandles |-> IF i = 0 THEN freelist
                               ELSE IF W[i - 1] = Nil THEN Nil ELSE ph[W[i - 1]].next]
    BY <1>3
  <2>3. v = [i \in 0..MaxHandles |-> IF i = 0 THEN freelist
                               ELSE IF v[i - 1] = Nil THEN Nil ELSE ph[v[i - 1]].next]
    BY <1>2
  <2>4. n \in 0..MaxHandles /\ W[n] # v[n]
    OBVIOUS
  <2>5. n # 0 => W[n - 1] = v[n - 1]
    <3>1. n # 0 => n - 1 \in 0..MaxHandles /\ ~(n <= n - 1)
      BY <2>4 DEF Mem!MemAssumption
    <3> QED BY <2>1, <3>1
  <2> HIDE DEF W, v, T
  <2> QED BY <2>2, <2>3, <2>4, <2>5
<1> QED BY <1>1, <1>4

\* What the walk of a sound list gives.
LEMMA WalkListed ==
  ASSUME Mem!MemAssumption, Mem!NilAssumption, NEW F, Listed(freelist, ph, F)
  PROVE  /\ Mem!Walk[0] = freelist /\ Mem!Walk[MaxHandles] = Nil
         /\ \A n \in 0..MaxHandles : Mem!Walk[n] \in F \cup {Nil}
         /\ \A n \in 1..MaxHandles : Mem!Walk[n] # Nil => Mem!Walk[n - 1] # Nil
         /\ \A n \in 1..MaxHandles : Mem!Walk[n - 1] # Nil => ph[Mem!Walk[n - 1]].next = Mem!Walk[n]
         /\ Mem!FreeRegions = F
<1>0. PICK k \in Nat : \E s \in [1..k -> Mem!Handles] :
        IsList(freelist, ph, s, k) /\ \A z : z \in F <=> \E i \in 1..k : z = s[i]
  BY DEF Listed
<1>1. PICK s \in [1..k -> Mem!Handles] :
        IsList(freelist, ph, s, k) /\ \A z : z \in F <=> \E i \in 1..k : z = s[i]
  BY <1>0
<1>2. k <= MaxHandles /\ \A n \in 0..MaxHandles : Mem!Walk[n] = IF n < k THEN s[n + 1] ELSE Nil
  BY <1>1, WalkIs
<1>3. \A i \in 1..k : s[i] \in F /\ s[i] # Nil /\ ph[s[i]].next = IF i = k THEN Nil ELSE s[i + 1]
  BY <1>1 DEF IsList, Mem!NilAssumption
<1>4. MaxHandles \in Nat /\ 0 \in 0..MaxHandles /\ MaxHandles \in 0..MaxHandles
  BY DEF Mem!MemAssumption
<1>5. Mem!Walk[0] = freelist /\ Mem!Walk[MaxHandles] = Nil
  <2>1. freelist = IF k = 0 THEN Nil ELSE s[1]
    BY <1>1 DEF IsList
  <2> QED BY <1>2, <1>4, <2>1
<1>6. ASSUME NEW n \in 0..MaxHandles PROVE Mem!Walk[n] \in F \cup {Nil}
  <2>1. n < k => n + 1 \in 1..k
    BY <1>4
  <2> QED BY <1>2, <1>3, <2>1
<1>7. ASSUME NEW n \in 1..MaxHandles
      PROVE  (Mem!Walk[n] # Nil => Mem!Walk[n - 1] # Nil) /\ (Mem!Walk[n - 1] # Nil => ph[Mem!Walk[n - 1]].next = Mem!Walk[n])
  <2>1. n \in 0..MaxHandles /\ n - 1 \in 0..MaxHandles /\ n - 1 + 1 = n /\ (n <= k => n \in 1..k)
    BY <1>4
  <2>2. Mem!Walk[n] = (IF n < k THEN s[n + 1] ELSE Nil) /\ Mem!Walk[n - 1] = IF n - 1 < k THEN s[n] ELSE Nil
    BY <1>2, <2>1
  <2> QED BY <1>3, <2>1, <2>2
<1>8. Mem!FreeRegions = F
  <2>1. ASSUME NEW z \in F PROVE z \in Mem!FreeRegions
    <3>1. PICK i \in 1..k : z = s[i]
      BY <1>1
    <3>2. i - 1 \in 0..MaxHandles /\ i - 1 < k /\ i - 1 + 1 = i
      BY <1>2, <1>4
    <3>3. Mem!Walk[i - 1] = z /\ z # Nil
      BY <1>2, <1>3, <3>1, <3>2
    <3> QED BY <3>2, <3>3 DEF Mem!FreeRegions
  <2>2. Mem!FreeRegions \subseteq F
    BY <1>6 DEF Mem!FreeRegions
  <2> QED BY <2>1, <2>2
<1> QED BY <1>5, <1>6, <1>7, <1>8
-----------------------------------------------------------------------------
(* The operations *)

\* y, the successor of x and adjacent to it, becomes part of x.
LEMMA AbsorbSound ==
  ASSUME Mem!MemAssumption, Mem!NilAssumption, NEW m, NEW ow, Sound(m.fl, m.ph, m.live, ow),
         NEW x \in m.live \ ow, NEW y, y # Nil, m.ph[x].next = y, Mem!Adjacent(m, x, y)
  PROVE  /\ Sound(Mem!Absorb(m, x, y).fl, Mem!Absorb(m, x, y).ph, Mem!Absorb(m, x, y).live, ow)
         /\ x \in Mem!Absorb(m, x, y).live \ ow
         /\ Mem!Absorb(m, x, y) = [fl |-> m.fl, live |-> m.live \ {y}, ph |-> Mem!Absorb(m, x, y).ph]
         /\ \A z \in m.live : z # x /\ z # y => Mem!Absorb(m, x, y).ph[z] = m.ph[z]
<1> DEFINE F == m.live \ ow
           p == m.ph
           r == Mem!Absorb(m, x, y)
<1>1. y \in F /\ y # x /\ F \subseteq Mem!Handles
  <2>1. Listed(m.fl, p, F)
    BY DEF Sound
  <2> HIDE DEF F, p
  <2>2. x \in F /\ p[x].next = y
    BY DEF F, p
  <2> QED BY <2>1, <2>2, ListNext
<1>2. p \in [Mem!Handles -> Region] /\ m.live \subseteq Mem!Handles /\ ow \subseteq m.live /\ Tiled(p, m.live)
      /\ Listed(m.fl, p, F)
  BY DEF Sound
<1>3. PICK q \in [Mem!Handles -> Region] :
        q = [z \in Mem!Handles |-> IF z = y THEN Mem!Unused
                              ELSE IF z = x THEN [base |-> p[x].base, len |-> p[x].len + p[y].len, next |-> p[y].next]
                              ELSE p[z]]
  <2> DEFINE q == [z \in Mem!Handles |-> IF z = y THEN Mem!Unused
                              ELSE IF z = x THEN [base |-> p[x].base, len |-> p[x].len + p[y].len, next |-> p[y].next]
                              ELSE p[z]]
  <2> HIDE DEF p, F
  <2>1. p[x] \in Region /\ p[y] \in Region
    BY <1>1, <1>2 DEF F
  <2>2. [base |-> p[x].base, len |-> p[x].len + p[y].len, next |-> p[y].next] \in Region
    BY <2>1 DEF Region
  <2>3. Mem!Unused \in Region
    BY DEF Mem!Unused, Region
  <2> QED BY <1>2, <2>2, <2>3
<1>4. r = [fl |-> m.fl, live |-> m.live \ {y}, ph |-> q]
  <2>1. p[x] = [base |-> p[x].base, len |-> p[x].len, next |-> p[x].next]
    BY <1>1, <1>2 DEF Region
  <2>2. Mem!Absorb(m, x, y) = [fl |-> m.fl, live |-> m.live \ {y},
          ph |-> [[[p EXCEPT ![x].len = @ + p[y].len] EXCEPT ![x].next = p[y].next] EXCEPT ![y] = Mem!Unused]]
    BY DEF Mem!Absorb
  <2> HIDE DEF p
  <2>3. [[[p EXCEPT ![x].len = @ + p[y].len] EXCEPT ![x].next = p[y].next] EXCEPT ![y] = Mem!Unused] = q
    <3> PICK l : l = p[x].len + p[y].len
      OBVIOUS
    <3> PICK e1 : e1 = [p EXCEPT ![x].len = l]
      OBVIOUS
    <3>1. e1 = [z \in Mem!Handles |-> IF z = x THEN [base |-> p[x].base, len |-> l, next |-> p[x].next] ELSE p[z]]
      <4>1. [p[x] EXCEPT !.len = l] = [base |-> p[x].base, len |-> l, next |-> p[x].next]
        BY <2>1
      <4>2. e1 = [z \in Mem!Handles |-> IF z = x THEN [p[x] EXCEPT !.len = l] ELSE p[z]]
        BY <1>2
      <4> QED BY <4>1, <4>2
    <3> PICK e2 : e2 = [e1 EXCEPT ![x].next = p[y].next]
      OBVIOUS
    <3>2. e2 = [z \in Mem!Handles |-> IF z = x THEN [base |-> p[x].base, len |-> l, next |-> p[y].next] ELSE p[z]]
      <4>1. e1[x] = [base |-> p[x].base, len |-> l, next |-> p[x].next]
        BY <1>1, <3>1
      <4>2. [e1[x] EXCEPT !.next = p[y].next] = [base |-> p[x].base, len |-> l, next |-> p[y].next]
        BY <4>1
      <4>3. e2 = [z \in Mem!Handles |-> IF z = x THEN [e1[x] EXCEPT !.next = p[y].next] ELSE e1[z]]
        BY <3>1
      <4> QED BY <3>1, <4>2, <4>3
    <3>3. [e2 EXCEPT ![y] = Mem!Unused] = q
      BY <1>1, <1>3, <3>2
    <3> QED BY <3>3
  <2> QED BY <2>2, <2>3
<1> HIDE DEF r
<1>5. Listed(m.fl, q, F \ {y})
  <2> HIDE DEF p, F
  <2>1. x \in F /\ p[x].next = y /\ x # Nil
    BY <1>1 DEF p, F, Mem!NilAssumption
  <2>2. Precedes(m.fl, p, F, x, y)
    BY <2>1 DEF Precedes
  <2>3. \A z \in F \ {y} : q[z].next = IF z = x THEN p[y].next ELSE p[z].next
    BY <1>1, <1>3
  <2> PICK fl : fl = m.fl
    OBVIOUS
  <2>4. Listed(fl, p, F) /\ Precedes(fl, p, F, x, y) /\ TakenOut(fl, p, F, x, y, fl, q)
    BY <1>2, <2>1, <2>2, <2>3 DEF TakenOut
  <2>5. Listed(fl, q, F \ {y})
    BY <1>1, <2>4, ListRemove
  <2> QED BY <2>5
<1>6. Tiled(q, m.live \ {y})
  <2> PICK lv : lv = m.live
    OBVIOUS
  <2>1. /\ lv \subseteq Mem!Handles /\ p \in [Mem!Handles -> Region] /\ Tiled(p, lv) /\ x \in lv /\ y \in lv
        /\ x # y /\ p[x].base + p[x].len = p[y].base
    BY <1>1, <1>2 DEF Mem!Adjacent
  <2> HIDE DEF p, F
  <2>2. \A z \in lv : p[z].base \in Nat /\ p[z].len \in Nat
    BY <2>1 DEF Region
  <2>3. \A z \in lv : z # x /\ z # y => q[z].base = p[z].base /\ q[z].len = p[z].len
    BY <1>3, <2>1
  <2>4. q[x].base = p[x].base /\ q[x].len = p[x].len + p[y].len
    BY <1>3, <2>1
  <2>5. ASSUME NEW z \in lv \ {y} PROVE q[z].len > 0 /\ q[z].base + q[z].len <= MemSize
    BY <2>1, <2>2, <2>3, <2>4 DEF Tiled, Mem!MemAssumption
  <2>6. ASSUME NEW z \in lv \ {y}, NEW u \in lv \ {y}, z # u
        PROVE  q[z].base + q[z].len <= q[u].base \/ q[u].base + q[u].len <= q[z].base
    <3>1. /\ p[z].len > 0 /\ p[u].len > 0 /\ p[x].len > 0 /\ p[y].len > 0
          /\ p[z].base + p[z].len <= p[u].base \/ p[u].base + p[u].len <= p[z].base
          /\ p[z].base + p[z].len <= p[y].base \/ p[y].base + p[y].len <= p[z].base
          /\ p[y].base + p[y].len <= p[u].base \/ p[u].base + p[u].len <= p[y].base
      BY <2>1, <2>6 DEF Tiled
    <3> QED BY <2>1, <2>2, <2>3, <2>4, <2>6, <3>1
  <2>7. ASSUME NEW b \in 0..MemSize - 1
        PROVE  \E z \in lv \ {y} : q[z].base <= b /\ b < q[z].base + q[z].len
    <3>1. PICK z \in lv : p[z].base <= b /\ b < p[z].base + p[z].len
      BY <2>1 DEF Tiled
    <3>2. b \in Int /\ p[x].base \in Nat /\ p[x].len \in Nat /\ p[y].base \in Nat /\ p[y].len \in Nat
      BY <2>1, <2>2 DEF Mem!MemAssumption
    <3>3. CASE z = x \/ z = y
      <4>1. q[x].base <= b /\ b < q[x].base + q[x].len
        BY <2>1, <2>4, <3>1, <3>2, <3>3
      <4> QED BY <2>1, <4>1
    <3>4. CASE z # x /\ z # y
      BY <2>3, <3>1, <3>4
    <3> QED BY <3>3, <3>4
  <2> QED BY <2>5, <2>6, <2>7 DEF Tiled
<1>7. (m.live \ {y}) \ ow = F \ {y} /\ m.live \ {y} \subseteq Mem!Handles /\ ow \subseteq m.live \ {y}
  BY <1>1, <1>2
<1>8. Sound(r.fl, r.ph, r.live, ow)
  <2>1. r.fl = m.fl /\ r.ph = q /\ r.live = m.live \ {y}
    BY <1>4
  <2>2. Sound(m.fl, q, m.live \ {y}, ow)
    BY <1>5, <1>6, <1>7 DEF Sound
  <2> QED BY <2>1, <2>2
<1>9. \A z \in m.live : z # x /\ z # y => q[z] = p[z]
  BY <1>2, <1>3
<1>10. r.ph = q /\ r.live = m.live \ {y} /\ x \in (m.live \ {y}) \ ow
  BY <1>1, <1>4
<1> QED BY <1>4, <1>8, <1>9, <1>10 DEF r

\* The merges of a region that has just been put after prev.
LEMMA MergeSound ==
  ASSUME Mem!MemAssumption, Mem!NilAssumption, NEW m, NEW ow, Sound(m.fl, m.ph, m.live, ow),
         NEW x \in m.live \ ow, NEW prev, prev # Nil => prev \in m.live \ ow /\ m.ph[prev].next = x
  PROVE  LET r == Mem!MergeItems(m, x, prev) IN Sound(r.fl, r.ph, r.live, ow)
<1> DEFINE joined == prev # Nil /\ Mem!Adjacent(m, prev, x)
           m1 == IF joined THEN Mem!Absorb(m, prev, x) ELSE m
           y == IF joined THEN prev ELSE x
           succ == m1.ph[y].next
<1>1. x # Nil
  BY DEF Mem!NilAssumption, Sound
<1>2. /\ Sound(m1.fl, m1.ph, m1.live, ow) /\ y \in m1.live \ ow
  <2>1. CASE joined
    <3>1. /\ Sound(Mem!Absorb(m, prev, x).fl, Mem!Absorb(m, prev, x).ph, Mem!Absorb(m, prev, x).live, ow)
          /\ prev \in Mem!Absorb(m, prev, x).live \ ow
          /\ Mem!Absorb(m, prev, x) = [fl |-> m.fl, live |-> m.live \ {x}, ph |-> Mem!Absorb(m, prev, x).ph]
      BY <1>1, <2>1, AbsorbSound
    <3> QED BY <2>1, <3>1
  <2>2. CASE ~joined
    BY <2>2
  <2> QED BY <2>1, <2>2
<1>3. Mem!MergeItems(m, x, prev) = IF succ # Nil /\ Mem!Adjacent(m1, y, succ) THEN Mem!Absorb(m1, y, succ) ELSE m1
  BY DEF Mem!MergeItems
<1> HIDE DEF m1, y
<1>4. CASE succ # Nil /\ Mem!Adjacent(m1, y, succ)
  <2>1. Sound(Mem!Absorb(m1, y, succ).fl, Mem!Absorb(m1, y, succ).ph, Mem!Absorb(m1, y, succ).live, ow)
    <3> PICK z : z = succ
      OBVIOUS
    <3>1. z # Nil /\ m1.ph[y].next = z /\ Mem!Adjacent(m1, y, z)
      BY <1>4
    <3>2. Sound(Mem!Absorb(m1, y, z).fl, Mem!Absorb(m1, y, z).ph, Mem!Absorb(m1, y, z).live, ow)
      BY <1>2, <3>1, AbsorbSound
    <3> QED BY <3>2
  <2> QED BY <1>3, <1>4, <2>1
<1>5. CASE ~(succ # Nil /\ Mem!Adjacent(m1, y, succ))
  BY <1>2, <1>3, <1>5
<1> QED BY <1>4, <1>5

LEMMA InitMem ==
  ASSUME Mem!MemAssumption, Mem!NilAssumption, Mem!Init
  PROVE  MemInv
<1>1. 1 \in Mem!Handles /\ MemSize \in Nat /\ MemSize > 0
  BY DEF Mem!MemAssumption, Mem!Handles
<1>2. \A x \in Mem!Handles : ph[x] = [base |-> 0, len |-> IF x = 1 THEN MemSize ELSE 0, next |-> Nil]
  BY DEF Mem!Init, Mem!Unused
<1>3. ph \in [Mem!Handles -> Region]
  <2>1. \A x \in Mem!Handles : [Mem!Unused EXCEPT !.len = IF x = 1 THEN MemSize ELSE 0] \in Region
    BY <1>1 DEF Mem!Unused, Region
  <2> QED BY <2>1 DEF Mem!Init
<1> PICK r : r = ph[1]
  OBVIOUS
<1>8. r = [base |-> 0, len |-> MemSize, next |-> Nil]
  BY <1>1, <1>2
<1>9. ph[1].base = 0 /\ ph[1].len = MemSize /\ ph[1].next = Nil
  BY <1>8
<1>4. Listed(freelist, ph, {1})
  <2> PICK s \in [1..1 -> Mem!Handles] : s = [i \in 1..1 |-> 1]
    BY <1>1
  <2>1. \A i \in 1..1 : s[i] = 1 /\ i = 1
    OBVIOUS
  <2>2. IsList(freelist, ph, s, 1)
    <3>1. 1 \in 1..1 /\ s[1] = 1 /\ freelist = 1
      BY <2>1 DEF Mem!Init
    <3>2. \A i \in 1..1 : ph[s[i]].next = Nil
      BY <1>9, <2>1
    <3> HIDE DEF IsList
    <3> QED BY <2>1, <3>1, <3>2 DEF IsList
  <2>3. \A x : x \in {1} <=> \E i \in 1..1 : x = s[i]
    BY <2>1
  <2> QED BY <2>2, <2>3 DEF Listed
<1>5. live = {1} /\ owned = {} /\ live \ owned = {1}
  BY DEF Mem!Init
<1>6. Tiled(ph, live)
  BY <1>1, <1>5, <1>9 DEF Tiled
<1>7. found = [t \in MemThreads |-> Mem!NotSearching] /\ Mem!NotSearching \in Search
  BY DEF Mem!Init, Mem!NotSearching, Search
<1> QED BY <1>1, <1>3, <1>4, <1>5, <1>6, <1>7 DEF MemInv, Sound, FoundSound

\* What a walk found stays there while the list does not change; and when it
\* changes, the thread that changes it is the only one that walks.
LEMMA FoundStays ==
  ASSUME \A t \in MemThreads : FoundSound(found'[t]), Mem!mem' = Mem!mem
  PROVE  \A t \in MemThreads : FoundSound(found[t])'
  BY DEF FoundSound, Mem!mem

LEMMA OthersSearchNot ==
  ASSUME Mem!Undisturbed, Mem!mem' # Mem!mem, NEW t \in MemThreads, found'[t] = Mem!NotSearching,
         \A u \in MemThreads \ {t} : found'[u] = found[u]
  PROVE  \A u \in MemThreads : FoundSound(found[u])'
<1>1. \A u \in MemThreads : found'[u] = Mem!NotSearching
  BY DEF Mem!Undisturbed
<1>. QED  BY <1>1 DEF FoundSound

LEMMA AllocFindKeeps ==
  ASSUME Mem!MemAssumption, Mem!NilAssumption, MemInv,
         NEW t \in MemThreads, NEW length \in Lengths, Mem!AllocFind(t, length)
  PROVE  MemInv'
<1> DEFINE F == live \ owned
           n == Mem!Fit(length)
<1>1. Listed(freelist, ph, F)
  BY DEF MemInv, Sound
<1> HIDE DEF F
<1>2. /\ Mem!Walk[0] = freelist /\ Mem!Walk[MaxHandles] = Nil
      /\ \A i \in 0..MaxHandles : Mem!Walk[i] \in F \cup {Nil}
      /\ \A i \in 1..MaxHandles : Mem!Walk[i] # Nil => Mem!Walk[i - 1] # Nil
      /\ \A i \in 1..MaxHandles : Mem!Walk[i - 1] # Nil => ph[Mem!Walk[i - 1]].next = Mem!Walk[i]
  BY <1>1, WalkListed
<1>3. n \in 0..MaxHandles /\ (Mem!Walk[n] = Nil \/ ph[Mem!Walk[n]].len >= length)
  <2> DEFINE S == {i \in 0..MaxHandles : Mem!Walk[i] = Nil \/ ph[Mem!Walk[i]].len >= length}
  <2>1. S \subseteq Nat /\ S # {}
    BY <1>2 DEF Mem!MemAssumption
  <2>2. n = Mem!First(S)
    BY DEF Mem!Fit
  <2>3. Mem!First(S) \in S
    <3> HIDE DEF S
    <3> QED BY <2>1, FirstIs
  <2> HIDE DEF n
  <2> QED BY <2>2, <2>3
<1>4. found' = [found EXCEPT ![t] = [len |-> length, at |-> Mem!Walk[n], prev |-> Mem!Before(n)]]
      /\ Mem!Walk[n] # Nil
      /\ freelist' = freelist /\ ph' = ph /\ live' = live /\ owned' = owned
  BY DEF Mem!AllocFind
<1> HIDE DEF n
<1>5. Mem!Walk[n] \in F /\ ph[Mem!Walk[n]].len >= length /\ length > 0 /\ length \in Nat
  BY <1>2, <1>3, <1>4 DEF Mem!MemAssumption
<1>6. F \subseteq Mem!Handles
  BY DEF F, MemInv, Sound
<1>7. Precedes(freelist, ph, F, Mem!Before(n), Mem!Walk[n]) /\ Mem!Before(n) \in Mem!Handles \cup {Nil}
  <2>1. CASE n = 0
    BY <1>2, <2>1 DEF Mem!Before, Precedes
  <2>2. CASE n # 0
    <3>1. n \in 1..MaxHandles /\ n - 1 \in 0..MaxHandles /\ Mem!Before(n) = Mem!Walk[n - 1]
      BY <1>3, <2>2 DEF Mem!Before, Mem!MemAssumption
    <3> QED BY <1>2, <1>4, <1>6, <3>1 DEF Precedes
  <2> QED BY <2>1, <2>2
<1> PICK f : f = [len |-> length, at |-> Mem!Walk[n], prev |-> Mem!Before(n)]
  OBVIOUS
<1>8. f \in Search /\ f.len = length /\ f.at = Mem!Walk[n] /\ f.prev = Mem!Before(n)
  BY <1>5, <1>6, <1>7 DEF Search
<1>9. found' \in [MemThreads -> Search] /\ found'[t] = f /\ \A u \in MemThreads \ {t} : found'[u] = found[u]
  BY <1>4, <1>8 DEF MemInv
<1>10. FoundSound(f)
  BY <1>5, <1>7, <1>8 DEF FoundSound, F
<1>11. \A u \in MemThreads : FoundSound(found'[u])
  BY <1>9, <1>10 DEF MemInv
<1>12. Sound(freelist, ph, live, owned)'
  BY <1>4 DEF MemInv
<1>13. \A u \in MemThreads : FoundSound(found[u])'
  <2>1. Mem!mem' = Mem!mem
    BY <1>4 DEF Mem!mem
  <2>. QED  BY <1>11, <2>1, FoundStays
<1> QED BY <1>9, <1>12, <1>13 DEF MemInv

LEMMA TakeWholeKeeps ==
  ASSUME Mem!MemAssumption, Mem!NilAssumption, Sound(freelist, ph, live, owned),
         NEW f, f # Mem!NotSearching, FoundSound(f), Mem!TakeWhole(f)
  PROVE  Sound(freelist, ph, live, owned)'
<1> PICK y, prev : y = f.at /\ prev = f.prev
  OBVIOUS
<1> DEFINE F == live \ owned
<1>1. y \in F /\ Precedes(freelist, ph, F, prev, y) /\ Listed(freelist, ph, F) /\ F \subseteq Mem!Handles
  BY DEF FoundSound, Sound
<1>2. /\ freelist' = IF prev = Nil THEN ph[y].next ELSE freelist
      /\ ph' = IF prev = Nil THEN ph ELSE [ph EXCEPT ![prev].next = ph[y].next]
      /\ owned' = owned \cup {y} /\ live' = live
  BY DEF Mem!TakeWhole
<1>3. ph \in [Mem!Handles -> Region] /\ Tiled(ph, live) /\ live \subseteq Mem!Handles /\ owned \subseteq live
  BY DEF Sound
<1> HIDE DEF F
<1> PICK fl2, p2 : fl2 = freelist' /\ p2 = ph'
  OBVIOUS
<1>4. prev # Nil => prev \in Mem!Handles
  BY <1>1 DEF Precedes
<1>5. ph[y].next \in Mem!Handles \cup {Nil}
  BY <1>1, <1>3 DEF Region
<1>6. p2 \in [Mem!Handles -> Region]
      /\ \A x \in Mem!Handles : /\ p2[x].base = ph[x].base /\ p2[x].len = ph[x].len
                            /\ p2[x].next = IF x = prev THEN ph[y].next ELSE ph[x].next
  <2>1. CASE prev = Nil
    <3>1. \A x \in Mem!Handles : x # prev
      BY <2>1 DEF Mem!NilAssumption
    <3> QED BY <1>2, <1>3, <2>1, <3>1
  <2>2. CASE prev # Nil
    <3>1. ph[prev] \in Region
      BY <1>3, <1>4, <2>2
    <3>2. [ph[prev] EXCEPT !.next = ph[y].next] = [base |-> ph[prev].base, len |-> ph[prev].len, next |-> ph[y].next]
      BY <3>1 DEF Region
    <3>3. [base |-> ph[prev].base, len |-> ph[prev].len, next |-> ph[y].next] \in Region
      BY <1>5, <3>1 DEF Region
    <3>4. p2 = [x \in Mem!Handles |-> IF x = prev THEN [base |-> ph[prev].base, len |-> ph[prev].len, next |-> ph[y].next]
                                ELSE ph[x]]
      BY <1>2, <1>3, <2>2, <3>2
    <3> QED BY <1>3, <3>3, <3>4
  <2> QED BY <2>1, <2>2
<1>7. TakenOut(freelist, ph, F, prev, y, fl2, p2)
  BY <1>1, <1>2, <1>6 DEF TakenOut
<1>8. Listed(fl2, p2, F \ {y})
  BY <1>1, <1>7, ListRemove
<1>9. Tiled(p2, live)
  <2>1. \A x \in live : p2[x].base = ph[x].base /\ p2[x].len = ph[x].len
    BY <1>3, <1>6
  <2> QED BY <1>3, <2>1 DEF Tiled
<1>10. live' \ owned' = F \ {y} /\ owned' \subseteq live'
  BY <1>1, <1>2, <1>3 DEF F
<1>11. Sound(fl2, p2, live', owned')
  BY <1>2, <1>3, <1>6, <1>8, <1>9, <1>10 DEF Sound
<1> QED BY <1>11

\* A region that is split in two.
LEMMA SplitTiled ==
  ASSUME NEW p, NEW q, NEW lv, Tiled(p, lv), MemSize \in Nat,
         \A z \in lv : p[z].base \in Nat /\ p[z].len \in Nat,
         NEW a \in lv, NEW x, x \notin lv, NEW n \in Nat, 0 < n, n < p[a].len,
         q[x].base = p[a].base, q[x].len = n, q[a].base = p[a].base + n, q[a].len = p[a].len - n,
         \A z \in lv : z # a => q[z].base = p[z].base /\ q[z].len = p[z].len
  PROVE  Tiled(q, lv \cup {x})
<1>1. \A z \in lv : p[z].len > 0 /\ p[z].base + p[z].len <= MemSize
  BY DEF Tiled
<1>2. \A z, u \in lv : z # u => p[z].base + p[z].len <= p[u].base \/ p[u].base + p[u].len <= p[z].base
  BY DEF Tiled
<1>3. ASSUME NEW z \in lv \cup {x} PROVE q[z].len > 0 /\ q[z].base + q[z].len <= MemSize
  <2>1. p[a].base \in Nat /\ p[a].len \in Nat /\ p[a].base + p[a].len <= MemSize
    BY <1>1
  <2> QED BY <1>1, <2>1
<1>4. ASSUME NEW z \in lv \cup {x}, NEW u \in lv \cup {x}, z # u
      PROVE  q[z].base + q[z].len <= q[u].base \/ q[u].base + q[u].len <= q[z].base
  <2>1. p[a].base \in Nat /\ p[a].len \in Nat
    OBVIOUS
  <2>2. CASE z = x /\ u = a
    BY <2>1, <2>2
  <2>3. CASE z = a /\ u = x
    BY <2>1, <2>3
  <2>4. CASE z = x /\ u # a
    <3>1. u \in lv /\ q[u].base = p[u].base /\ q[u].len = p[u].len /\ p[u].base \in Nat /\ p[u].len \in Nat
          /\ (p[a].base + p[a].len <= p[u].base \/ p[u].base + p[u].len <= p[a].base)
      BY <1>2, <1>4, <2>4
    <3> QED BY <2>1, <2>4, <3>1
  <2>5. CASE z # a /\ u = x
    <3>1. z \in lv /\ q[z].base = p[z].base /\ q[z].len = p[z].len /\ p[z].base \in Nat /\ p[z].len \in Nat
          /\ (p[a].base + p[a].len <= p[z].base \/ p[z].base + p[z].len <= p[a].base)
      BY <1>2, <1>4, <2>5
    <3> QED BY <2>1, <2>5, <3>1
  <2>6. CASE z # x /\ u # x
    <3>1. z \in lv /\ u \in lv /\ p[z].base \in Nat /\ p[z].len \in Nat /\ p[u].base \in Nat /\ p[u].len \in Nat
          /\ (p[z].base + p[z].len <= p[u].base \/ p[u].base + p[u].len <= p[z].base)
      BY <1>2, <1>4, <2>6
    <3> QED BY <1>4, <2>1, <3>1
  <2> QED BY <1>4, <2>2, <2>3, <2>4, <2>5, <2>6
<1>5. ASSUME NEW b \in 0..MemSize - 1
      PROVE  \E z \in lv \cup {x} : q[z].base <= b /\ b < q[z].base + q[z].len
  <2>1. PICK z \in lv : p[z].base <= b /\ b < p[z].base + p[z].len
    BY DEF Tiled
  <2>2. CASE z # a
    BY <2>1, <2>2
  <2>3. CASE z = a
    <3>1. b \in Int /\ p[a].base \in Nat /\ p[a].len \in Nat
      OBVIOUS
    <3>2. CASE b < p[a].base + n
      <4>1. q[x].base <= b /\ b < q[x].base + q[x].len
        BY <2>1, <2>3, <3>1, <3>2
      <4> QED BY <4>1
    <3>3. CASE ~(b < p[a].base + n)
      <4>1. q[a].base <= b /\ b < q[a].base + q[a].len
        BY <2>1, <2>3, <3>1, <3>3
      <4> QED BY <4>1
    <3> QED BY <3>2, <3>3
  <2> QED BY <2>2, <2>3
<1> QED BY <1>3, <1>4, <1>5 DEF Tiled

LEMMA Shortened ==
  ASSUME NEW u, NEW b, NEW l, NEW nx, NEW d, u = Reg(b, l, nx)
  PROVE  Resized(u, d) = Reg(b, d, nx)
<1>1. u = [base |-> u.base, len |-> u.len, next |-> u.next] /\ u.base = b /\ u.next = nx
  BY DEF Reg
<1>2. [u EXCEPT !.len = d] = [base |-> u.base, len |-> d, next |-> u.next]
  BY <1>1
<1> QED BY <1>1, <1>2 DEF Reg, Resized

LEMMA SplitKeeps ==
  ASSUME Mem!MemAssumption, Mem!NilAssumption, Sound(freelist, ph, live, owned),
         NEW f \in Search, f # Mem!NotSearching, FoundSound(f), Mem!Split(f)
  PROVE  Sound(freelist, ph, live, owned)'
<1> DEFINE F == live \ owned
           a == f.at
           n == f.len
           x == Mem!NewHandle
<1>1. a \in F /\ n \in Nat /\ n > 0 /\ ph[a].len >= n /\ ph[a].len # n
  BY DEF FoundSound, Search, Mem!Split
<1>2. x \in Mem!Handles /\ x \notin live
  <2>1. Mem!Fresh # {} /\ Mem!Fresh \subseteq Nat
    BY DEF Mem!Split, Mem!Fresh, Mem!Handles
  <2>2. \E y \in Mem!Fresh : \A z \in Mem!Fresh : y <= z
    BY <2>1, SmallestNat
  <2>3. x \in Mem!Fresh
    BY <2>2 DEF Mem!NewHandle
  <2> HIDE DEF x
  <2> QED BY <2>3 DEF Mem!Fresh
<1>3. ph \in [Mem!Handles -> Region] /\ Tiled(ph, live) /\ live \subseteq Mem!Handles /\ owned \subseteq live
      /\ Listed(freelist, ph, F)
  BY DEF Sound
<1>4. /\ ph' = [ph EXCEPT ![x] = [base |-> ph[a].base, len |-> n, next |-> Nil],
                         ![a].base = @ + n, ![a].len = @ - n]
      /\ live' = live \cup {x} /\ owned' = owned \cup {x} /\ freelist' = freelist
  BY DEF Mem!Split
<1> HIDE DEF x, F, a, n
<1> PICK q, front, rest : /\ q = ph' /\ front = [base |-> ph[a].base, len |-> n, next |-> Nil]
                     /\ rest = [base |-> ph[a].base + n, len |-> ph[a].len - n, next |-> ph[a].next]
  OBVIOUS
<1>5. a \in Mem!Handles /\ a # x /\ a \in live
  BY <1>1, <1>2, <1>3 DEF F
<1>6. ph[a].base \in Nat /\ ph[a].len \in Nat /\ ph[a].next \in Mem!Handles \cup {Nil}
      /\ ph[a] = [base |-> ph[a].base, len |-> ph[a].len, next |-> ph[a].next]
  BY <1>3, <1>5 DEF Region
<1>7. front \in Region /\ rest \in Region
  <2>1. ph[a].base + n \in Nat /\ ph[a].len - n \in Nat
    BY <1>1, <1>6
  <2> QED BY <1>1, <1>6, <2>1 DEF Region
<1>8. q = [z \in Mem!Handles |-> IF z = x THEN front ELSE IF z = a THEN rest ELSE ph[z]]
  <2> PICK e1 : e1 = [ph EXCEPT ![x] = front]
    OBVIOUS
  <2>1. e1 = [z \in Mem!Handles |-> IF z = x THEN front ELSE ph[z]]
    BY <1>3
  <2> PICK e2 : e2 = [e1 EXCEPT ![a].base = @ + n]
    OBVIOUS
  <2>2. e1[a] = [base |-> ph[a].base, len |-> ph[a].len, next |-> ph[a].next]
    BY <1>5, <1>6, <2>1
  <2>3. [e1[a] EXCEPT !.base = @ + n] = [base |-> ph[a].base + n, len |-> ph[a].len, next |-> ph[a].next]
    BY <2>2
  <2>4. e2 = [z \in Mem!Handles |-> IF z = a THEN [base |-> ph[a].base + n, len |-> ph[a].len, next |-> ph[a].next]
                               ELSE e1[z]]
    BY <2>1, <2>3
  <2>5. e2[a] = [base |-> ph[a].base + n, len |-> ph[a].len, next |-> ph[a].next]
    BY <1>5, <2>4
  <2>6. [e2[a] EXCEPT !.len = @ - n] = rest
    <3> PICK b, l, nx : b = ph[a].base + n /\ l = ph[a].len /\ nx = ph[a].next
      OBVIOUS
    <3> PICK d : d = l - n
      OBVIOUS
    <3>1. e2[a] = [base |-> b, len |-> l, next |-> nx] /\ rest = [base |-> b, len |-> d, next |-> nx]
          /\ e2[a].len - n = d
      BY <2>5
    <3>2. e2[a] = Reg(b, l, nx) /\ rest = Reg(b, d, nx)
      BY <3>1 DEF Reg
    <3>3. Resized(e2[a], d) = rest
      BY <3>2, Shortened
    <3> QED BY <3>1, <3>3 DEF Resized
  <2>7. q = [e2 EXCEPT ![a].len = @ - n]
    <3>1. e1[a].base + n = ph[a].base + n /\ e2[a].len - n = ph[a].len - n
      BY <2>2, <2>5
    <3> PICK b, l : b = ph[a].base + n /\ l = ph[a].len - n
      OBVIOUS
    <3>2. q = [ph EXCEPT ![x] = front, ![a].base = b, ![a].len = l]
      BY <1>4
    <3>3. e2 = [e1 EXCEPT ![a].base = b]
      BY <3>1
    <3>4. q = [e2 EXCEPT ![a].len = l]
      BY <3>2, <3>3
    <3> QED BY <3>1, <3>4
  <2>8. q = [z \in Mem!Handles |-> IF z = a THEN rest ELSE e2[z]]
    BY <2>4, <2>6, <2>7
  <2> QED BY <1>5, <2>1, <2>4, <2>8
<1>9. q \in [Mem!Handles -> Region] /\ q[x] = front /\ q[a] = rest
      /\ \A z \in Mem!Handles : z # x /\ z # a => q[z] = ph[z]
  BY <1>2, <1>3, <1>5, <1>7, <1>8
<1>10. Listed(freelist, q, F)
  <2>1. \A z \in F : q[z].next = ph[z].next
    <3>1. rest.next = ph[a].next
      OBVIOUS
    <3>2. \A z \in F : z \in Mem!Handles /\ z # x
      BY <1>2, <1>3 DEF F
    <3> QED BY <1>9, <3>1, <3>2
  <2> QED BY <1>3, <2>1, ListSame
<1>11. Tiled(q, live \cup {x})
  <2>1. /\ q[x].base = ph[a].base /\ q[x].len = n /\ q[a].base = ph[a].base + n /\ q[a].len = ph[a].len - n
        /\ \A z \in live : z # a => q[z].base = ph[z].base /\ q[z].len = ph[z].len
    <3>1. \A z \in live : z \in Mem!Handles /\ z # x
      BY <1>2, <1>3
    <3> QED BY <1>9, <3>1
  <2>2. MemSize \in Nat /\ (\A z \in live : ph[z].base \in Nat /\ ph[z].len \in Nat) /\ 0 < n /\ n < ph[a].len
    BY <1>1, <1>3, <1>6 DEF Mem!MemAssumption, Region
  <2> PICK lv, p : lv = live /\ p = ph
    OBVIOUS
  <2>3. Tiled(q, lv \cup {x})
    BY <1>1, <1>2, <1>3, <1>5, <2>1, <2>2, SplitTiled
  <2> QED BY <2>3
<1>12. live' \ owned' = F /\ owned' \subseteq live' /\ live' \subseteq Mem!Handles
  BY <1>2, <1>3, <1>4 DEF F
<1>13. Sound(freelist', q, live', owned')
  BY <1>4, <1>9, <1>10, <1>11, <1>12 DEF Sound
<1> QED BY <1>13

LEMMA AllocTakeKeeps ==
  ASSUME Mem!MemAssumption, Mem!NilAssumption, MemInv, Mem!Undisturbed, NEW t \in MemThreads, Mem!AllocTake(t)
  PROVE  MemInv'
<1> PICK f : f = found[t]
  OBVIOUS
<1>1. f \in Search /\ f # Mem!NotSearching /\ FoundSound(f) /\ Sound(freelist, ph, live, owned)
  BY DEF MemInv, Mem!AllocTake
<1>2. Sound(freelist, ph, live, owned)'
  <2>1. CASE Mem!TakeWhole(f)
    BY <1>1, <2>1, TakeWholeKeeps
  <2>2. CASE Mem!Split(f)
    BY <1>1, <2>2, SplitKeeps
  <2>3. CASE UNCHANGED <<freelist, ph, live, owned>>
    BY <1>1, <2>3
  <2> QED BY <2>1, <2>2, <2>3 DEF Mem!AllocTake
<1>3. /\ found' \in [MemThreads -> Search] /\ found'[t] = Mem!NotSearching
      /\ \A u \in MemThreads \ {t} : found'[u] = found[u]
  <2>1. Mem!NotSearching \in Search
    BY DEF Mem!NotSearching, Search
  <2> QED BY <2>1 DEF MemInv, Mem!AllocTake
<1>4. \A u \in MemThreads : FoundSound(found[u])'
  <2>1. CASE Mem!mem' = Mem!mem
    <3>1. \A u \in MemThreads : FoundSound(found'[u])
      BY <1>3 DEF MemInv, FoundSound
    <3>. QED  BY <2>1, <3>1, FoundStays
  <2>2. CASE Mem!mem' # Mem!mem
    BY <1>3, <2>2, OthersSearchNot
  <2>. QED  BY <2>1, <2>2
<1> QED BY <1>2, <1>3, <1>4 DEF MemInv

LEMMA FreeKeeps ==
  ASSUME Mem!MemAssumption, Mem!NilAssumption, MemInv, Mem!Undisturbed,
         NEW t \in MemThreads, NEW x \in owned, Mem!Free(t, x)
  PROVE  MemInv'
<1> DEFINE F == live \ owned
           n == Mem!InsertAt(x)
           prev == Mem!Before(n)
           m == IF prev = Nil
              THEN [fl |-> x, live |-> live, ph |-> [ph EXCEPT ![x].next = freelist]]
              ELSE [fl |-> freelist, live |-> live,
                    ph |-> [ph EXCEPT ![x].next = ph[prev].next, ![prev].next = x]]
           r == Mem!MergeItems(m, x, prev)
           ow == owned \ {x}
<1>1. /\ found[t] = Mem!NotSearching /\ freelist' = r.fl /\ ph' = r.ph /\ live' = r.live
      /\ owned' = ow /\ found' = found
  BY DEF Mem!Free
<1>2. /\ Listed(freelist, ph, F) /\ ph \in [Mem!Handles -> Region] /\ Tiled(ph, live)
      /\ live \subseteq Mem!Handles /\ owned \subseteq live
  BY DEF MemInv, Sound
<1>3. x \in Mem!Handles /\ x \in live /\ x \notin F /\ F \subseteq Mem!Handles
  BY <1>2
<1> HIDE DEF F, r
<1>4. /\ Mem!Walk[0] = freelist /\ Mem!Walk[MaxHandles] = Nil
      /\ \A i \in 0..MaxHandles : Mem!Walk[i] \in F \cup {Nil}
  BY <1>2, WalkListed
<1>5. prev \in F \cup {Nil}
  <2> DEFINE S == {i \in 0..MaxHandles : \/ Mem!Walk[i] = Nil \/ ph[Mem!Walk[i]].next = Nil
                               \/ ph[ph[Mem!Walk[i]].next].base >= ph[x].base}
  <2>1. S \subseteq Nat /\ S # {}
    BY <1>4 DEF Mem!MemAssumption
  <2>2. n = Mem!First(S)
    BY DEF Mem!InsertAt
  <2>3. Mem!First(S) \in S
    <3> HIDE DEF S
    <3> QED BY <2>1, FirstIs
  <2>4. n \in 0..MaxHandles
    <3> HIDE DEF n
    <3> QED BY <2>2, <2>3
  <2> HIDE DEF n
  <2> QED BY <1>4, <2>4 DEF Mem!Before, Mem!MemAssumption
<1> HIDE DEF prev
<1> PICK q : q = m.ph
  OBVIOUS
<1>6. m.fl = (IF prev = Nil THEN x ELSE freelist) /\ m.live = live
      /\ q = IF prev = Nil THEN [ph EXCEPT ![x].next = freelist]
             ELSE [ph EXCEPT ![x].next = ph[prev].next, ![prev].next = x]
  OBVIOUS
<1>7. freelist \in Mem!Handles \cup {Nil} /\ (prev # Nil => prev \in Mem!Handles /\ prev # x)
  <2>1. freelist \in F \cup {Nil}
    BY <1>2, ListNext
  <2> QED BY <1>3, <1>5, <2>1
<1> DEFINE next(z) == IF z = x THEN IF prev = Nil THEN freelist ELSE ph[prev].next
                      ELSE IF z = prev THEN x ELSE ph[z].next
<1>8. q = [z \in Mem!Handles |-> [base |-> ph[z].base, len |-> ph[z].len, next |-> next(z)]]
      /\ \A z \in Mem!Handles : next(z) \in Mem!Handles \cup {Nil}
  <2>1. \A z \in Mem!Handles : /\ ph[z] = [base |-> ph[z].base, len |-> ph[z].len, next |-> ph[z].next]
                          /\ ph[z].next \in Mem!Handles \cup {Nil}
    BY <1>2 DEF Region
  <2>2. \A z \in Mem!Handles : z # Nil
    BY DEF Mem!NilAssumption
  <2>3. ASSUME NEW z \in Mem!Handles PROVE next(z) \in Mem!Handles \cup {Nil}
    BY <1>3, <1>7, <2>1
  <2>4. ASSUME NEW z \in Mem!Handles, NEW v
        PROVE  [ph[z] EXCEPT !.next = v] = [base |-> ph[z].base, len |-> ph[z].len, next |-> v]
    <3> PICK u, b, l, w : u = ph[z] /\ b = u.base /\ l = u.len /\ w = u.next
      OBVIOUS
    <3>1. u = [base |-> b, len |-> l, next |-> w]
      BY <2>1
    <3>2. [u EXCEPT !.next = v] = [base |-> b, len |-> l, next |-> v]
      BY <3>1
    <3> QED BY <3>2
  <2> PICK v : v = next(x)
    OBVIOUS
  <2> PICK e : e = [ph EXCEPT ![x].next = v]
    OBVIOUS
  <2>5. e = [z \in Mem!Handles |-> IF z = x THEN [base |-> ph[z].base, len |-> ph[z].len, next |-> v] ELSE ph[z]]
    BY <1>2, <1>3, <2>4
  <2>6. CASE prev = Nil
    <3>1. q = e
      BY <1>6, <2>6
    <3>2. \A z \in Mem!Handles : IF z = x THEN next(z) = v ELSE next(z) = ph[z].next
      BY <2>2, <2>6
    <3> HIDE DEF next
    <3>3. \A z \in Mem!Handles : e[z] = [base |-> ph[z].base, len |-> ph[z].len, next |-> next(z)]
      BY <2>1, <2>5, <3>2
    <3>4. e = [z \in Mem!Handles |-> e[z]]
      BY <2>5
    <3> QED BY <2>3, <3>1, <3>3, <3>4
  <2>7. CASE prev # Nil
    <3>1. q = [e EXCEPT ![prev].next = x]
      BY <1>6, <2>7
    <3>2. e[prev] = ph[prev]
      BY <1>7, <2>5, <2>7
    <3>3. [e[prev] EXCEPT !.next = x] = [base |-> ph[prev].base, len |-> ph[prev].len, next |-> x]
      BY <1>7, <2>4, <2>7, <3>2
    <3>4. q = [z \in Mem!Handles |-> IF z = prev THEN [base |-> ph[prev].base, len |-> ph[prev].len, next |-> x] ELSE e[z]]
      BY <2>5, <3>1, <3>3
    <3>5. \A z \in Mem!Handles : next(z) = IF z = prev THEN x ELSE IF z = x THEN v ELSE ph[z].next
      BY <1>7, <2>7
    <3> HIDE DEF next
    <3>6. \A z \in Mem!Handles : q[z] = [base |-> ph[z].base, len |-> ph[z].len, next |-> next(z)]
      BY <1>7, <2>1, <2>5, <2>7, <3>4, <3>5
    <3>7. q = [z \in Mem!Handles |-> q[z]]
      BY <3>4
    <3> QED BY <2>3, <3>6, <3>7
  <2> QED BY <2>6, <2>7
<1>9. q \in [Mem!Handles -> Region]
  <2>1. ASSUME NEW z \in Mem!Handles PROVE [base |-> ph[z].base, len |-> ph[z].len, next |-> next(z)] \in Region
    BY <1>2, <1>8 DEF Region
  <2> HIDE DEF next
  <2> QED BY <1>8, <2>1
<1>10. \A z \in Mem!Handles : q[z].base = ph[z].base /\ q[z].len = ph[z].len /\ q[z].next = next(z)
  BY <1>8
<1> PICK fl2 : fl2 = IF prev = Nil THEN x ELSE freelist
  OBVIOUS
<1>11. Listed(fl2, q, F \cup {x})
  <2>1. PutAfter(freelist, ph, F, prev, x, fl2, q)
    <3>1. \A z \in F : z \in Mem!Handles /\ z # x
      BY <1>3
    <3> QED BY <1>3, <1>10, <3>1 DEF PutAfter
  <2> QED BY <1>2, <1>3, <1>5, <2>1, ListInsert
<1>12. Tiled(q, live)
  <2>1. \A z \in live : q[z].base = ph[z].base /\ q[z].len = ph[z].len
    BY <1>2, <1>10
  <2> QED BY <1>2, <2>1 DEF Tiled
<1>13. Sound(m.fl, m.ph, m.live, ow)
  <2>1. live \ ow = F \cup {x} /\ ow \subseteq live
    BY <1>2, <1>3 DEF F
  <2>2. Sound(fl2, q, live, ow)
    BY <1>2, <1>9, <1>11, <1>12, <2>1 DEF Sound
  <2> HIDE DEF m
  <2> QED BY <1>6, <2>2
<1>14. x \in m.live \ ow /\ (prev # Nil => prev \in m.live \ ow /\ m.ph[prev].next = x)
  <2>1. prev # Nil => q[prev].next = x /\ prev \in live \ ow
    BY <1>3, <1>5, <1>7, <1>10 DEF F
  <2> HIDE DEF m
  <2> QED BY <1>3, <1>6, <2>1
<1>15. Sound(r.fl, r.ph, r.live, ow)
  <2> HIDE DEF m, ow
  <2> QED BY <1>13, <1>14, MergeSound DEF r
<1>16. Sound(freelist, ph, live, owned)'
  BY <1>1, <1>15
<1>17. \A u \in MemThreads : FoundSound(found[u])'
  <2>1. Mem!mem' # Mem!mem
    BY <1>1 DEF Mem!mem
  <2>. QED  BY <1>1, <2>1, OthersSearchNot
<1> QED BY <1>1, <1>16, <1>17 DEF MemInv

LEMMA NextMem ==
  ASSUME Mem!MemAssumption, Mem!NilAssumption, MemInv, [Mem!Next]_(Mem!vars), [Mem!Undisturbed]_(Mem!vars)
  PROVE  MemInv'
<1>1. CASE Mem!Next /\ Mem!Undisturbed
  BY <1>1, AllocFindKeeps, AllocTakeKeeps, FreeKeeps DEF Mem!Next
<1>2. CASE UNCHANGED Mem!vars
  BY <1>2 DEF Mem!vars, Mem!mem, MemInv, FoundSound
<1> QED BY <1>1, <1>2

LEMMA MemSound ==
  ASSUME Mem!MemAssumption, Mem!NilAssumption, MemInv
  PROVE  Mem!TypeOK /\ Mem!Partition /\ Mem!ListSound
<1> DEFINE F == live \ owned
<1>1. /\ Listed(freelist, ph, F) /\ ph \in [Mem!Handles -> Region] /\ Tiled(ph, live)
      /\ live \subseteq Mem!Handles /\ owned \subseteq live
  BY DEF MemInv, Sound
<1>2. Mem!Walk[MaxHandles] = Nil /\ Mem!FreeRegions = F
  BY <1>1, WalkListed
<1>3. Mem!FreeRegions \cup owned = live /\ Mem!FreeRegions \cap owned = {}
  BY <1>1, <1>2
<1>4. freelist \in Mem!Handles \cup {Nil}
  <2>1. freelist \in F \cup {Nil}
    <3> HIDE DEF F
    <3> QED BY <1>1, ListNext
  <2> QED BY <1>1, <2>1
<1>5. \A x \in live : /\ ph[x].base \in Nat /\ ph[x].len \in Nat /\ ph[x].next \in Mem!Handles \cup {Nil}
                     /\ ph[x].len > 0 /\ ph[x].base + ph[x].len <= MemSize
  BY <1>1 DEF Tiled, Region
<1>6. Mem!TypeOK
  <2>1. ASSUME NEW x \in live PROVE ph[x].base \in 0..MemSize /\ ph[x].len \in 0..MemSize
    BY <1>5 DEF Mem!MemAssumption
  <2> QED BY <1>1, <1>4, <1>5, <2>1 DEF Mem!TypeOK
<1>7. ASSUME NEW x \in live, NEW y \in live, x # y PROVE Mem!Bytes(x) \cap Mem!Bytes(y) = {}
  <2>1. ph[x].base + ph[x].len <= ph[y].base \/ ph[y].base + ph[y].len <= ph[x].base
    BY <1>1, <1>7 DEF Tiled
  <2> QED BY <1>5, <2>1 DEF Mem!Bytes
<1>8. UNION {Mem!Bytes(x) : x \in live} = 0..MemSize - 1
  <2>1. ASSUME NEW x \in live, NEW b \in Mem!Bytes(x) PROVE b \in 0..MemSize - 1
    BY <1>5 DEF Mem!Bytes, Mem!MemAssumption
  <2>2. ASSUME NEW b \in 0..MemSize - 1 PROVE \E x \in live : b \in Mem!Bytes(x)
    <3>1. PICK x \in live : ph[x].base <= b /\ b < ph[x].base + ph[x].len
      BY <1>1 DEF Tiled
    <3>2. b \in Mem!Bytes(x)
      BY <1>5, <3>1 DEF Mem!Bytes, Mem!MemAssumption
    <3> QED BY <3>2
  <2> HIDE DEF Mem!Bytes
  <2> QED BY <2>1, <2>2
<1>9. Mem!Partition
  BY <1>3, <1>7, <1>8 DEF Mem!Partition
<1> QED BY <1>2, <1>3, <1>6, <1>9 DEF Mem!ListSound

\* packetmem.c: however regions are split, given back in whatever order and
\* merged or not merged, every byte belongs to one region, of one caller or
\* of the free list, so that no connection writes into the buffer of another
\* and no byte is lost; and the free list ends and leads to free regions only:
\* for any number of threads that allocate and free, as long as none changes
\* the list between another's walk and its update.
THEOREM MemPartitioned ==
  ASSUME Mem!MemAssumption, Mem!NilAssumption
  PROVE  Mem!Spec /\ [][Mem!Undisturbed]_(Mem!vars) => [](Mem!TypeOK /\ Mem!Partition /\ Mem!ListSound)
<1>1. Mem!Init => MemInv
  BY InitMem
<1>2. MemInv /\ [Mem!Next]_(Mem!vars) /\ [Mem!Undisturbed]_(Mem!vars) => MemInv'
  BY NextMem
<1>3. MemInv => Mem!TypeOK /\ Mem!Partition /\ Mem!ListSound
  BY MemSound
<1>. QED  BY <1>1, <1>2, <1>3, PTL DEF Mem!Spec

\* The same of the runs' specification, which takes only such steps.
COROLLARY MCMemPartitioned == MCSpec => []MemoryPartitioned
<1>1. MCInit => (part = "packet_mem" => MemInv)
  BY Assumptions, InitMem DEF MCInit, Assumptions
<1>2. (part = "packet_mem" => MemInv) /\ [MCNext]_mcVars => (part = "packet_mem" => MemInv)'
  <2> SUFFICES ASSUME part = "packet_mem" => MemInv, [MCNext]_mcVars, part' = "packet_mem"
               PROVE  MemInv'
    OBVIOUS
  <2>1. part' = part
    BY DEF MCNext, OthersRest, Rest, mcVars
  <2>2. (Mem!Next /\ Mem!Undisturbed) \/ UNCHANGED Mem!vars
    BY <2>1 DEF MCNext, OthersRest, Rest, mcVars, memVars, Mem!vars, Mem!mem
  <2>. QED  BY <2>1, <2>2, Assumptions, NextMem DEF Assumptions
<1>3. (part = "packet_mem" => MemInv) => MemoryPartitioned
  BY Assumptions, MemSound DEF Assumptions, MemoryPartitioned
<1>. QED  BY <1>1, <1>2, <1>3, PTL DEF MCSpec
=============================================================================
