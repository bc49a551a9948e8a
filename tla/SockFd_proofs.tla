---------------------------- MODULE SockFd_proofs ----------------------------
(***************************************************************************)
(* The descriptors of the socket layer, for any number of threads,         *)
(* descriptors, table entries and sockets: DescriptorsSound.               *)
(*                                                                         *)
(* A descriptor, its table entry and the memory of its socket are given    *)
(* out and taken back in steps of their own, and other threads are given   *)
(* the same numbers and addresses in between.  The inductive invariant     *)
(* says what a thread that is between two such steps holds, and that no    *)
(* two threads hold the same.                                              *)
(***************************************************************************)
EXTENDS SockFd, TLAPS, WellFoundedInduction

Kinds == {"free", "event", "linux", "epoll", "companion", "internal"}
Entries == 0..MaxSock - 1
Entry == [type : {"unused", "socket", "epoll"}, s : Addrs \cup {Nil}]
Steps == {"app", "bind", "lwip", "wait", "ready", "socket", "accept4", "companion", "ealloc", "close", "free"}

\* Steps of a thread that has a descriptor of its own, or a socket.
HoldsFd == {"socket", "accept4", "companion", "ealloc", "close"}
HoldsSocket == {"socket", "accept4", "companion", "close", "free"}

Types ==
  /\ kernel \in [Fds -> Kinds]
  /\ fhs \in [Entries -> Entry]
  /\ linux_fd \in [Entries -> -1..NFds - 1]
  /\ heap \subseteq Addrs
  /\ pc \in [Threads -> Steps]
  /\ fd \in [Threads -> Entries \cup {Nil}]
  /\ so \in [Threads -> Addrs \cup {Nil}]
  /\ boot \in {"none", "running", "bound", "done"}
  /\ aborted \in BOOLEAN

\* A table entry for a socket belongs to a reserved descriptor and an allocated
\* socket, another one for each.
Table ==
  /\ kernel[0] = "linux"
  /\ \A f \in Fds : kernel[f] = "event" => f \in Entries
  /\ \A f \in Entries : fhs[f].type = "socket" => kernel[f] = "event" /\ fhs[f].s \in heap
  /\ \A f, g \in Entries : fhs[f].type = "socket" /\ fhs[g].type = "socket" /\ fhs[f].s = fhs[g].s => f = g

\* A reserved descriptor without an entry is in the hands of a thread.
Reserved ==
  \A f \in Entries : kernel[f] = "event" /\ fhs[f].type # "socket" =>
    \E t \in Threads : pc[t] \in HoldsFd /\ fd[t] = f

\* What a thread holds between two steps: the descriptor is what it was made to
\* be, and only socket() has it in the table already.
Holders ==
  /\ \A t \in Threads : pc[t] \in HoldsFd =>
       /\ fd[t] \in Entries
       /\ kernel[fd[t]] = IF pc[t] = "ealloc" THEN "epoll" ELSE "event"
       /\ (fhs[fd[t]].type = "socket") <=> (pc[t] = "companion")
       /\ pc[t] = "companion" => fhs[fd[t]].s = so[t]
  /\ \A t, u \in Threads : pc[t] \in HoldsFd /\ pc[u] \in HoldsFd /\ fd[t] = fd[u] => t = u

\* The socket a thread holds is allocated, and nobody else's.
Sockets ==
  /\ \A t \in Threads : pc[t] \in HoldsSocket =>
       /\ so[t] \in heap
       /\ pc[t] # "companion" => ~\E f \in Entries : fhs[f].type = "socket" /\ fhs[f].s = so[t]
  /\ \A t, u \in Threads : pc[t] \in HoldsSocket /\ pc[u] \in HoldsSocket /\ so[t] = so[u] => t = u

\* Companions stay open for ever, another one for every entry.
Companions ==
  /\ \A f \in Entries : linux_fd[f] > 0 => kernel[linux_fd[f]] = "companion"
  /\ \A f, g \in Entries : linux_fd[f] > 0 /\ linux_fd[f] = linux_fd[g] => f = g

\* One thread initialises, and the others wait for it.
Boot ==
  /\ \A t \in Threads : /\ pc[t] = "bind" => boot = "running"
                        /\ pc[t] = "lwip" => boot = "bound"
                        /\ pc[t] \notin {"app", "bind", "lwip", "wait"} => boot = "done"
  /\ \A t, u \in Threads : {pc[t], pc[u]} \subseteq {"bind", "lwip"} => t = u

IInv == Types /\ Table /\ Reserved /\ Holders /\ Sockets /\ Companions /\ Boot

LEMMA LessThan ==
  \E R : IsWellFoundedOn(R, Nat) /\ \A x, y \in Nat : x < y => <<x, y>> \in R
<1> DEFINE R == OpToRel(<, Nat)
<1>1. IsWellFoundedOn(R, Nat)
  BY NatLessThanWellFounded
<1>2. \A x, y \in Nat : x < y => <<x, y>> \in R
  BY DEF OpToRel
<1>. QED  BY <1>1, <1>2

LEMMA SmallestNat ==
  ASSUME NEW T, T \subseteq Nat, T # {}
  PROVE  \E x \in T : \A y \in T : x <= y
<1>1. PICK R : IsWellFoundedOn(R, Nat) /\ \A x, y \in Nat : x < y => <<x, y>> \in R
  BY LessThan
<1>2. IsWellFoundedOn(R, Nat)
  BY <1>1
<1>3. PICK x \in T : \A y \in T : ~(<<y, x>> \in R)
  BY <1>2, WFMin
<1>4. ASSUME NEW y \in T PROVE x <= y
  <2>1. x \in Nat /\ y \in Nat
    OBVIOUS
  <2>2. ~(y < x)
    BY <1>1, <1>3, <2>1
  <2>. QED  BY <2>1, <2>2
<1>. QED  BY <1>4

\* The kernel gives out a free descriptor if there is one.
LEMMA LowestFree ==
  ASSUME FdAssumption, Types, ~Full
  PROVE  Lowest \in Fds /\ kernel[Lowest] = "free"
<1> DEFINE T == {f \in Fds : kernel[f] = "free"}
<1>1. T \subseteq Nat /\ T # {}
  <2>1. NFds \in Nat
    BY DEF FdAssumption
  <2>2. T # {}
    BY DEF Full
  <2>. QED  BY <2>1, <2>2 DEF Fds
<1>2. PICK x \in T : \A y \in T : x <= y
  BY <1>1, SmallestNat
<1>3. \A g \in 0..x - 1 : kernel[g] # "free"
  BY <1>1, <1>2 DEF FdAssumption, Fds
<1>. QED  BY <1>2, <1>3 DEF Lowest

LEMMA EnsureInitKeeps ==
  ASSUME FdAssumption, IInv, NEW t \in Threads, EnsureInit(t)
  PROVE  IInv'
<1>. USE DEF FdAssumption, IInv
<1>1. Types'
  BY DEF EnsureInit, Goto, Return, Closable, tvars, Holders, Types, Kinds, Entry, Entries, Steps, Fds
<1>2. Table'
  BY DEF EnsureInit, Goto, Return, Closable, tvars, Table, Holders, Types, Entry, Kinds, Sockets, HoldsSocket, Entries, Fds, HoldsFd
<1>3. Reserved'
  BY DEF EnsureInit, Goto, Return, Closable, tvars, Table, Holders, Types, Entry, Kinds, Reserved, Entries, Fds, HoldsFd
<1>4. Holders'
  <2>1. \A u \in Threads : pc'[u] \in HoldsFd => u # t /\ pc'[u] = pc[u]
    BY DEF EnsureInit, Goto, Types, HoldsFd
  <2>2. UNCHANGED <<kernel, fhs, fd, so>>
    BY DEF EnsureInit
  <2>. QED  BY <2>1, <2>2 DEF Holders
<1>5. Sockets'
  BY DEF EnsureInit, Goto, Return, Closable, tvars, Table, Holders, Types, Sockets, Entries, HoldsSocket, HoldsFd, Entry
<1>6. Companions'
  BY DEF EnsureInit, Goto, Return, Closable, tvars, Table, Holders, Types, Companions, Entries, Fds, Kinds
<1>7. Boot'
  BY DEF EnsureInit, Goto, Return, Closable, tvars, Types, Boot, Steps
<1>. QED  BY <1>1, <1>2, <1>3, <1>4, <1>5, <1>6, <1>7

LEMMA BindSymbolsKeeps ==
  ASSUME FdAssumption, IInv, NEW t \in Threads, BindSymbols(t)
  PROVE  IInv'
<1>. USE DEF FdAssumption, IInv
<1>1. Types'
  BY DEF BindSymbols, Goto, Return, Closable, tvars, Holders, Types, Kinds, Entry, Entries, Steps, Fds
<1>2. Table'
  BY DEF BindSymbols, Goto, Return, Closable, tvars, Table, Holders, Types, Entry, Kinds, Sockets, HoldsSocket, Entries, Fds, HoldsFd
<1>3. Reserved'
  BY DEF BindSymbols, Goto, Return, Closable, tvars, Table, Holders, Types, Entry, Kinds, Reserved, Entries, Fds, HoldsFd
<1>4. Holders'
  BY DEF BindSymbols, Goto, Return, Closable, tvars, Table, Holders, Types, Entries, Fds, HoldsFd, Kinds, Entry
<1>5. Sockets'
  BY DEF BindSymbols, Goto, Return, Closable, tvars, Table, Holders, Types, Sockets, Entries, HoldsSocket, HoldsFd, Entry
<1>6. Companions'
  BY DEF BindSymbols, Goto, Return, Closable, tvars, Table, Holders, Types, Companions, Entries, Fds, Kinds
<1>7. Boot'
  BY DEF BindSymbols, Goto, Return, Closable, tvars, Types, Boot, Steps
<1>. QED  BY <1>1, <1>2, <1>3, <1>4, <1>5, <1>6, <1>7

LEMMA LwipInitKeeps ==
  ASSUME FdAssumption, IInv, NEW t \in Threads, LwipInit(t)
  PROVE  IInv'
<1>. USE DEF FdAssumption, IInv
<1>0. Lowest \in Fds /\ kernel[Lowest] = "free"
  BY LowestFree DEF LwipInit
<1>1. Types'
  BY <1>0 DEF LwipInit, Goto, Return, Closable, tvars, Holders, Types, Kinds, Entry, Entries, Steps, Fds
<1>2. Table'
  BY <1>0 DEF LwipInit, Goto, Return, Closable, tvars, Table, Holders, Types, Entry, Kinds, Sockets, HoldsSocket, Entries, Fds, HoldsFd
<1>3. Reserved'
  <2> SUFFICES ASSUME NEW f \in Entries, kernel'[f] = "event", fhs'[f].type # "socket"
               PROVE  \E u \in Threads : pc'[u] \in HoldsFd /\ fd'[u] = f
    BY DEF Reserved
  <2>1. kernel[f] = "event" /\ fhs[f].type # "socket"
    BY <1>0 DEF LwipInit, Types, Entries, Fds
  <2>2. PICK u \in Threads : pc[u] \in HoldsFd /\ fd[u] = f
    BY <2>1 DEF Reserved
  <2>3. u # t /\ pc'[u] = pc[u] /\ fd'[u] = fd[u]
    BY <2>2 DEF LwipInit, Goto, Types, HoldsFd
  <2>. QED  BY <2>2, <2>3
<1>4. Holders'
  BY <1>0 DEF LwipInit, Goto, Return, Closable, tvars, Table, Holders, Types, Entries, Fds, HoldsFd, Kinds, Entry
<1>5. Sockets'
  BY <1>0 DEF LwipInit, Goto, Return, Closable, tvars, Table, Holders, Types, Sockets, Entries, HoldsSocket, HoldsFd, Entry
<1>6. Companions'
  BY <1>0 DEF LwipInit, Goto, Return, Closable, tvars, Table, Holders, Types, Companions, Entries, Fds, Kinds
<1>7. Boot'
  BY <1>0 DEF LwipInit, Goto, Return, Closable, tvars, Types, Boot, Steps
<1>. QED  BY <1>1, <1>2, <1>3, <1>4, <1>5, <1>6, <1>7

LEMMA WaitedKeeps ==
  ASSUME FdAssumption, IInv, NEW t \in Threads, Waited(t)
  PROVE  IInv'
<1>. USE DEF FdAssumption, IInv
<1>1. Types'
  BY DEF Waited, Goto, Return, Closable, tvars, Holders, Types, Kinds, Entry, Entries, Steps, Fds
<1>2. Table'
  BY DEF Waited, Goto, Return, Closable, tvars, Table, Holders, Types, Entry, Kinds, Sockets, HoldsSocket, Entries, Fds, HoldsFd
<1>3. Reserved'
  BY DEF Waited, Goto, Return, Closable, tvars, Table, Holders, Types, Entry, Kinds, Reserved, Entries, Fds, HoldsFd
<1>4. Holders'
  BY DEF Waited, Goto, Return, Closable, tvars, Table, Holders, Types, Entries, Fds, HoldsFd, Kinds, Entry
<1>5. Sockets'
  BY DEF Waited, Goto, Return, Closable, tvars, Table, Holders, Types, Sockets, Entries, HoldsSocket, HoldsFd, Entry
<1>6. Companions'
  BY DEF Waited, Goto, Return, Closable, tvars, Table, Holders, Types, Companions, Entries, Fds, Kinds
<1>7. Boot'
  BY DEF Waited, Goto, Return, Closable, tvars, Types, Boot, Steps
<1>. QED  BY <1>1, <1>2, <1>3, <1>4, <1>5, <1>6, <1>7

LEMMA SallocKeeps ==
  ASSUME FdAssumption, IInv, NEW t \in Threads, NEW next \in {"socket", "accept4"}, Salloc(t, next)
  PROVE  IInv'
<1>. USE DEF FdAssumption, IInv
<1>0. Lowest \in Fds /\ kernel[Lowest] = "free"
  BY LowestFree DEF Salloc
<1>1. Types'
  BY <1>0 DEF Salloc, Goto, Return, Closable, tvars, Holders, Types, Kinds, Entry, Entries, Steps, Fds
<1>2. Table'
  BY <1>0 DEF Salloc, Goto, Return, Closable, tvars, Table, Holders, Types, Entry, Kinds, Sockets, HoldsSocket, Entries, Fds, HoldsFd
<1>3. Reserved'
  <2> SUFFICES ASSUME NEW f \in Entries, kernel'[f] = "event", fhs'[f].type # "socket"
               PROVE  \E u \in Threads : pc'[u] \in HoldsFd /\ fd'[u] = f
    BY DEF Reserved
  <2>1. CASE f = Lowest
    BY <2>1 DEF Salloc, Goto, Types, HoldsFd
  <2>2. CASE f # Lowest
    <3>1. kernel[f] = "event" /\ fhs[f].type # "socket"
      BY <1>0, <2>2 DEF Salloc, Types, Entries, Fds
    <3>2. PICK u \in Threads : pc[u] \in HoldsFd /\ fd[u] = f
      BY <3>1 DEF Reserved
    <3>3. u # t /\ pc'[u] = pc[u] /\ fd'[u] = fd[u]
      BY <3>2 DEF Salloc, Goto, Types, HoldsFd
    <3>. QED  BY <3>2, <3>3
  <2>. QED  BY <2>1, <2>2
<1>4. Holders'
  BY <1>0 DEF Salloc, Goto, Return, Closable, tvars, Table, Holders, Types, Entries, Fds, HoldsFd, Kinds, Entry
<1>5. Sockets'
  BY <1>0 DEF Salloc, Goto, Return, Closable, tvars, Table, Holders, Types, Sockets, Entries, HoldsSocket, HoldsFd, Entry
<1>6. Companions'
  BY <1>0 DEF Salloc, Goto, Return, Closable, tvars, Table, Holders, Types, Companions, Entries, Fds, Kinds
<1>7. Boot'
  BY <1>0 DEF Salloc, Goto, Return, Closable, tvars, Types, Boot, Steps
<1>. QED  BY <1>1, <1>2, <1>3, <1>4, <1>5, <1>6, <1>7

LEMMA SallocSetKeeps ==
  ASSUME FdAssumption, IInv, NEW t \in Threads, SallocSet(t)
  PROVE  IInv'
<1>. USE DEF FdAssumption, IInv
<1> DEFINE f == fd[t]
<1>1. /\ pc[t] \in {"socket", "accept4"} /\ f \in Entries /\ f \in Fds /\ kernel[f] = "event"
      /\ fhs[f].type # "socket" /\ so[t] \in heap /\ so[t] \in Addrs
  BY DEF SallocSet, Types, Table, Holders, Sockets, HoldsFd, HoldsSocket, Entries, Fds
<1>2. /\ fhs'[f] = [type |-> "socket", s |-> so[t]] /\ fhs' \in [Entries -> Entry]
      /\ \A g \in Entries : g # f => fhs'[g] = fhs[g]
  BY <1>1 DEF SallocSet, Types, Entry
<1>3. \A u \in Threads : u # t => pc'[u] = pc[u] /\ fd'[u] = fd[u] /\ so'[u] = so[u]
  BY DEF SallocSet, Types, Goto, Return
<1>4. /\ pc'[t] = "companion" /\ fd'[t] = f /\ so'[t] = so[t]
      \/ pc'[t] = "ready"
  BY <1>1 DEF SallocSet, Types, Goto, Return
<1>5. UNCHANGED <<kernel, linux_fd, heap, boot, aborted>>
  BY DEF SallocSet
<1>6. pc' \in [Threads -> Steps] /\ fd' \in [Threads -> Entries \cup {Nil}] /\ so' \in [Threads -> Addrs \cup {Nil}]
  BY DEF SallocSet, Types, Goto, Return, Steps
<1>7. boot = "done"
  BY <1>1 DEF Boot
<1>8. \A u \in Threads : u # t /\ pc[u] \in HoldsFd => fd[u] # f
  BY <1>1 DEF Holders, HoldsFd
<1>9. \A u \in Threads : u # t /\ pc[u] \in HoldsSocket => so[u] # so[t]
  BY <1>1 DEF Sockets, HoldsSocket
<1>10. \A g \in Entries : fhs[g].type = "socket" => fhs[g].s # so[t]
  BY <1>1 DEF Sockets, HoldsSocket
<1>11. Types'
  BY <1>2, <1>5, <1>6 DEF Types
<1>12. Table'
  BY <1>1, <1>2, <1>5, <1>10 DEF Table
<1>13. Reserved'
  <2> SUFFICES ASSUME NEW g \in Entries, kernel'[g] = "event", fhs'[g].type # "socket"
               PROVE  \E u \in Threads : pc'[u] \in HoldsFd /\ fd'[u] = g
    BY DEF Reserved
  <2>1. g # f /\ fhs[g].type # "socket" /\ kernel[g] = "event"
    BY <1>2, <1>5
  <2>2. PICK u \in Threads : pc[u] \in HoldsFd /\ fd[u] = g
    BY <2>1 DEF Reserved
  <2>. QED  BY <1>3, <2>1, <2>2
<1>14. Holders'
  BY <1>1, <1>2, <1>3, <1>4, <1>5, <1>8 DEF Holders, HoldsFd
<1>15. Sockets'
  BY <1>1, <1>2, <1>3, <1>4, <1>5, <1>9 DEF Sockets, HoldsSocket
<1>16. Companions' /\ Boot'
  BY <1>3, <1>4, <1>5, <1>7 DEF Companions, Boot
<1>. QED  BY <1>11, <1>12, <1>13, <1>14, <1>15, <1>16

LEMMA CompanionKeeps ==
  ASSUME FdAssumption, IInv, NEW t \in Threads, Companion(t)
  PROVE  IInv'
<1>. USE DEF FdAssumption, IInv
<1>0. ~Full => Lowest \in Fds /\ kernel[Lowest] = "free"
  BY LowestFree
<1>1. Types'
  <2>1. kernel' \in [Fds -> Kinds]
    BY <1>0 DEF Companion, Types, Kinds
  <2>2. linux_fd' \in [Entries -> -1..NFds - 1]
    <3>1. fd[t] \in Entries /\ NFds \in Nat \ {0}
      BY DEF Companion, Holders, HoldsFd
    <3>2. CASE Full
      BY <3>1, <3>2 DEF Companion, Types
    <3>3. CASE ~Full
      <4>1. Lowest \in -1..NFds - 1
        BY <1>0, <3>1, <3>3 DEF Fds
      <4>. QED  BY <3>1, <3>3, <4>1 DEF Companion, Types
    <3>. QED  BY <3>2, <3>3
  <2>. QED  BY <2>1, <2>2 DEF Companion, Types, Return, Goto, Steps
<1>2. Table'
  BY <1>0 DEF Companion, Goto, Return, Closable, tvars, Table, Holders, Types, Entry, Kinds, Sockets, HoldsSocket, Entries, Fds, HoldsFd
<1>3. Reserved'
  BY <1>0 DEF Companion, Goto, Return, Closable, tvars, Table, Holders, Types, Entry, Kinds, Reserved, Entries, Fds, HoldsFd
<1>4. Holders'
  BY <1>0 DEF Companion, Goto, Return, Closable, tvars, Table, Holders, Types, Entries, Fds, HoldsFd, Kinds, Entry
<1>5. Sockets'
  BY <1>0 DEF Companion, Goto, Return, Closable, tvars, Table, Holders, Types, Sockets, Entries, HoldsSocket, HoldsFd, Entry
<1>6. Companions'
  <2>1. fd[t] \in Entries /\ \A f \in Entries : linux_fd[f] \in Int
    BY DEF Companion, Types, Holders, HoldsFd
  <2>2. CASE Full
    BY <2>1, <2>2 DEF Companion, Types, Companions
  <2>3. CASE ~Full
    <3> DEFINE l == Lowest
    <3>1. l \in Fds /\ kernel[l] = "free"
      BY <1>0, <2>3
    <3>2. linux_fd' = [linux_fd EXCEPT ![fd[t]] = l] /\ kernel' = [kernel EXCEPT ![l] = "companion"]
      BY <2>3 DEF Companion
    <3> HIDE DEF l
    <3>3. \A f \in Entries : f # fd[t] => linux_fd'[f] = linux_fd[f]
      BY <3>2 DEF Types
    <3>4. linux_fd'[fd[t]] = l /\ kernel'[l] = "companion"
      BY <2>1, <3>1, <3>2 DEF Types
    <3>5. \A f \in Entries : linux_fd[f] > 0 => linux_fd[f] # l /\ kernel'[linux_fd[f]] = "companion"
      <4> TAKE f \in Entries
      <4>1. linux_fd[f] > 0 => linux_fd[f] \in Fds /\ kernel[linux_fd[f]] = "companion"
        BY DEF Types, Companions, Fds
      <4>. QED  BY <4>1, <3>1, <3>2 DEF Types
    <3>. QED  BY <3>3, <3>4, <3>5 DEF Companions
  <2>. QED  BY <2>2, <2>3
<1>7. Boot'
  BY <1>0 DEF Companion, Goto, Return, Closable, tvars, Types, Boot, Steps
<1>. QED  BY <1>1, <1>2, <1>3, <1>4, <1>5, <1>6, <1>7

LEMMA OtherOpenKeeps ==
  ASSUME FdAssumption, IInv, NEW t \in Threads, OtherOpen(t)
  PROVE  IInv'
<1>. USE DEF FdAssumption, IInv
<1>0. Lowest \in Fds /\ kernel[Lowest] = "free"
  BY LowestFree DEF OtherOpen
<1>1. Types'
  BY <1>0 DEF OtherOpen, Goto, Return, Closable, tvars, Holders, Types, Kinds, Entry, Entries, Steps, Fds
<1>2. Table'
  BY <1>0 DEF OtherOpen, Goto, Return, Closable, tvars, Table, Holders, Types, Entry, Kinds, Sockets, HoldsSocket, Entries, Fds, HoldsFd
<1>3. Reserved'
  BY <1>0 DEF OtherOpen, Goto, Return, Closable, tvars, Table, Holders, Types, Entry, Kinds, Reserved, Entries, Fds, HoldsFd
<1>4. Holders'
  BY <1>0 DEF OtherOpen, Goto, Return, Closable, tvars, Table, Holders, Types, Entries, Fds, HoldsFd, Kinds, Entry
<1>5. Sockets'
  BY <1>0 DEF OtherOpen, Goto, Return, Closable, tvars, Table, Holders, Types, Sockets, Entries, HoldsSocket, HoldsFd, Entry
<1>6. Companions'
  BY <1>0 DEF OtherOpen, Goto, Return, Closable, tvars, Table, Holders, Types, Companions, Entries, Fds, Kinds
<1>7. Boot'
  BY <1>0 DEF OtherOpen, Goto, Return, Closable, tvars, Types, Boot, Steps
<1>. QED  BY <1>1, <1>2, <1>3, <1>4, <1>5, <1>6, <1>7

LEMMA EpollCreateKeeps ==
  ASSUME FdAssumption, IInv, NEW t \in Threads, EpollCreate(t)
  PROVE  IInv'
<1>. USE DEF FdAssumption, IInv
<1>0. Lowest \in Fds /\ kernel[Lowest] = "free"
  BY LowestFree DEF EpollCreate
<1>1. Types'
  BY <1>0 DEF EpollCreate, Goto, Return, Closable, tvars, Holders, Types, Kinds, Entry, Entries, Steps, Fds
<1>2. Table'
  BY <1>0 DEF EpollCreate, Goto, Return, Closable, tvars, Table, Holders, Types, Entry, Kinds, Sockets, HoldsSocket, Entries, Fds, HoldsFd
<1>3. Reserved'
  BY <1>0 DEF EpollCreate, Goto, Return, Closable, tvars, Table, Holders, Types, Entry, Kinds, Reserved, Entries, Fds, HoldsFd
<1>4. Holders'
  BY <1>0 DEF EpollCreate, Goto, Return, Closable, tvars, Table, Holders, Types, Entries, Fds, HoldsFd, Kinds, Entry
<1>5. Sockets'
  BY <1>0 DEF EpollCreate, Goto, Return, Closable, tvars, Table, Holders, Types, Sockets, Entries, HoldsSocket, HoldsFd, Entry
<1>6. Companions'
  BY <1>0 DEF EpollCreate, Goto, Return, Closable, tvars, Table, Holders, Types, Companions, Entries, Fds, Kinds
<1>7. Boot'
  BY <1>0 DEF EpollCreate, Goto, Return, Closable, tvars, Types, Boot, Steps
<1>. QED  BY <1>1, <1>2, <1>3, <1>4, <1>5, <1>6, <1>7

LEMMA EallocKeeps ==
  ASSUME FdAssumption, IInv, NEW t \in Threads, Ealloc(t)
  PROVE  IInv'
<1>. USE DEF FdAssumption, IInv
<1>1. Types'
  BY DEF Ealloc, Goto, Return, Closable, tvars, Holders, Types, Kinds, Entry, Entries, Steps, Fds
<1>2. Table'
  BY DEF Ealloc, Goto, Return, Closable, tvars, Table, Holders, Types, Entry, Kinds, Sockets, HoldsSocket, Entries, Fds, HoldsFd
<1>3. Reserved'
  BY DEF Ealloc, Goto, Return, Closable, tvars, Table, Holders, Types, Entry, Kinds, Reserved, Entries, Fds, HoldsFd
<1>4. Holders'
  BY DEF Ealloc, Goto, Return, Closable, tvars, Table, Holders, Types, Entries, Fds, HoldsFd, Kinds, Entry
<1>5. Sockets'
  BY DEF Ealloc, Goto, Return, Closable, tvars, Table, Holders, Types, Sockets, Entries, HoldsSocket, HoldsFd, Entry
<1>6. Companions'
  BY DEF Ealloc, Goto, Return, Closable, tvars, Table, Holders, Types, Companions, Entries, Fds, Kinds
<1>7. Boot'
  BY DEF Ealloc, Goto, Return, Closable, tvars, Types, Boot, Steps
<1>. QED  BY <1>1, <1>2, <1>3, <1>4, <1>5, <1>6, <1>7

LEMMA CloseResetKeeps ==
  ASSUME FdAssumption, IInv, NEW t \in Threads, CloseReset(t)
  PROVE  IInv'
<1>. USE DEF FdAssumption, IInv
<1>1. PICK f \in Entries :
        /\ Closable(f) /\ fhs[f].type = "socket"
        /\ fd' = [fd EXCEPT ![t] = f] /\ so' = [so EXCEPT ![t] = fhs[f].s]
        /\ fhs' = [fhs EXCEPT ![f] = Unused]
  BY DEF CloseReset, Entries
<1>2. kernel[f] = "event" /\ fhs[f].s \in heap /\ fhs[f].s \in Addrs /\ \A u \in Threads : fd[u] # f
  BY <1>1 DEF Table, Types, Closable
<1>3. /\ fhs'[f] = Unused /\ fhs' \in [Entries -> Entry]
      /\ \A g \in Entries : g # f => fhs'[g] = fhs[g]
  BY <1>1 DEF Types, Entry, Unused
<1>4. \A u \in Threads : u # t => pc'[u] = pc[u] /\ fd'[u] = fd[u] /\ so'[u] = so[u]
  BY <1>1 DEF CloseReset, Types, Goto
<1>5. pc[t] = "ready" /\ pc'[t] = "close" /\ fd'[t] = f /\ so'[t] = fhs[f].s
  BY <1>1 DEF CloseReset, Types, Goto
<1>6. UNCHANGED <<kernel, linux_fd, heap, boot, aborted>>
  BY DEF CloseReset
<1>7. pc' \in [Threads -> Steps] /\ fd' \in [Threads -> Entries \cup {Nil}] /\ so' \in [Threads -> Addrs \cup {Nil}]
  BY <1>1, <1>2 DEF CloseReset, Types, Goto, Steps
<1>8. boot = "done"
  BY <1>5 DEF Boot
<1>9. \A u \in Threads : pc[u] \in HoldsSocket => so[u] # fhs[f].s
  <2> SUFFICES ASSUME NEW u \in Threads, pc[u] \in HoldsSocket, so[u] = fhs[f].s PROVE FALSE
    OBVIOUS
  <2>1. pc[u] = "companion"
    BY <1>1 DEF Sockets
  <2>2. fd[u] \in Entries /\ fhs[fd[u]].type = "socket" /\ fhs[fd[u]].s = so[u]
    BY <2>1 DEF Holders, HoldsFd
  <2>3. fd[u] = f
    BY <1>1, <2>2 DEF Table
  <2>. QED  BY <1>2, <2>3
<1>10. \A g \in Entries : fhs[g].type = "socket" /\ g # f => fhs[g].s # fhs[f].s
  BY <1>1 DEF Table
<1>11. Types'
  BY <1>3, <1>6, <1>7 DEF Types
<1>12. Table'
  BY <1>3, <1>6 DEF Table, Unused
<1>13. Reserved'
  <2> SUFFICES ASSUME NEW g \in Entries, kernel'[g] = "event", fhs'[g].type # "socket"
               PROVE  \E u \in Threads : pc'[u] \in HoldsFd /\ fd'[u] = g
    BY DEF Reserved
  <2>1. CASE g = f
    BY <1>5, <2>1 DEF HoldsFd
  <2>2. CASE g # f
    <3>1. PICK u \in Threads : pc[u] \in HoldsFd /\ fd[u] = g
      BY <1>3, <1>6, <2>2 DEF Reserved
    <3>2. u # t
      BY <1>5, <3>1 DEF HoldsFd
    <3>. QED  BY <1>4, <3>1, <3>2
  <2>. QED  BY <2>1, <2>2
<1>14. Holders'
  <2>1. \A u \in Threads : pc'[u] \in HoldsFd =>
          /\ fd'[u] \in Entries
          /\ kernel'[fd'[u]] = IF pc'[u] = "ealloc" THEN "epoll" ELSE "event"
          /\ (fhs'[fd'[u]].type = "socket") <=> (pc'[u] = "companion")
          /\ pc'[u] = "companion" => fhs'[fd'[u]].s = so'[u]
    <3> TAKE u \in Threads
    <3>1. CASE u = t
      BY <1>2, <1>3, <1>5, <1>6, <3>1 DEF Unused
    <3>2. CASE u # t
      <4>1. pc[u] \in HoldsFd => fd[u] # f
        BY <1>2
      <4>. QED  BY <1>3, <1>4, <1>6, <3>2, <4>1 DEF Holders
    <3>. QED  BY <3>1, <3>2
  <2>2. \A u, v \in Threads : pc'[u] \in HoldsFd /\ pc'[v] \in HoldsFd /\ fd'[u] = fd'[v] => u = v
    BY <1>2, <1>4, <1>5 DEF Holders
  <2>. QED  BY <2>1, <2>2 DEF Holders
<1>15. Sockets'
  <2>1. \A u \in Threads : pc'[u] \in HoldsSocket =>
          /\ so'[u] \in heap'
          /\ pc'[u] # "companion" => ~\E g \in Entries : fhs'[g].type = "socket" /\ fhs'[g].s = so'[u]
    <3> TAKE u \in Threads
    <3>1. CASE u = t
      BY <1>2, <1>3, <1>5, <1>6, <1>10, <3>1 DEF Unused
    <3>2. CASE u # t
      BY <1>3, <1>4, <1>6, <3>2 DEF Sockets, Unused
    <3>. QED  BY <3>1, <3>2
  <2>2. \A u, v \in Threads : pc'[u] \in HoldsSocket /\ pc'[v] \in HoldsSocket /\ so'[u] = so'[v] => u = v
    BY <1>4, <1>5, <1>9 DEF Sockets
  <2>. QED  BY <2>1, <2>2 DEF Sockets
<1>16. Companions' /\ Boot'
  BY <1>4, <1>5, <1>6, <1>8 DEF Companions, Boot
<1>. QED  BY <1>11, <1>12, <1>13, <1>14, <1>15, <1>16

LEMMA CloseKernelKeeps ==
  ASSUME FdAssumption, IInv, NEW t \in Threads, CloseKernel(t)
  PROVE  IInv'
<1>. USE DEF FdAssumption, IInv
<1>1. Types'
  BY DEF CloseKernel, Goto, Return, Closable, tvars, Holders, Types, Kinds, Entry, Entries, Steps, Fds
<1>2. Table'
  BY DEF CloseKernel, Goto, Return, Closable, tvars, Table, Holders, Types, Entry, Kinds, Sockets, HoldsSocket, Entries, Fds, HoldsFd
<1>3. Reserved'
  BY DEF CloseKernel, Goto, Return, Closable, tvars, Table, Holders, Types, Entry, Kinds, Reserved, Entries, Fds, HoldsFd
<1>4. Holders'
  BY DEF CloseKernel, Goto, Return, Closable, tvars, Table, Holders, Types, Entries, Fds, HoldsFd, Kinds, Entry
<1>5. Sockets'
  BY DEF CloseKernel, Goto, Return, Closable, tvars, Table, Holders, Types, Sockets, Entries, HoldsSocket, HoldsFd, Entry
<1>6. Companions'
  <2>1. fd[t] \in Entries /\ fd[t] \in Fds /\ kernel[fd[t]] = "event"
    BY DEF CloseKernel, Holders, HoldsFd, Entries, Fds
  <2>2. \A f \in Entries : linux_fd[f] > 0 => kernel'[linux_fd[f]] = "companion"
    <3> TAKE f \in Entries
    <3>1. linux_fd[f] > 0 => linux_fd[f] \in Fds /\ kernel[linux_fd[f]] = "companion"
      BY DEF Types, Companions, Fds
    <3>. QED  BY <2>1, <3>1 DEF CloseKernel, Types
  <2>. QED  BY <2>2 DEF CloseKernel, Companions
<1>7. Boot'
  BY DEF CloseKernel, Goto, Return, Closable, tvars, Types, Boot, Steps
<1>. QED  BY <1>1, <1>2, <1>3, <1>4, <1>5, <1>6, <1>7

LEMMA CloseFreeKeeps ==
  ASSUME FdAssumption, IInv, NEW t \in Threads, CloseFree(t)
  PROVE  IInv'
<1>. USE DEF FdAssumption, IInv
<1>1. Types'
  BY DEF CloseFree, Goto, Return, Closable, tvars, Holders, Types, Kinds, Entry, Entries, Steps, Fds
<1>2. Table'
  BY DEF CloseFree, Goto, Return, Closable, tvars, Table, Holders, Types, Entry, Kinds, Sockets, HoldsSocket, Entries, Fds, HoldsFd
<1>3. Reserved'
  BY DEF CloseFree, Goto, Return, Closable, tvars, Table, Holders, Types, Entry, Kinds, Reserved, Entries, Fds, HoldsFd
<1>4. Holders'
  BY DEF CloseFree, Goto, Return, Closable, tvars, Table, Holders, Types, Entries, Fds, HoldsFd, Kinds, Entry
<1>5. Sockets'
  BY DEF CloseFree, Goto, Return, Closable, tvars, Table, Holders, Types, Sockets, Entries, HoldsSocket, HoldsFd, Entry
<1>6. Companions'
  BY DEF CloseFree, Goto, Return, Closable, tvars, Table, Holders, Types, Companions, Entries, Fds, Kinds
<1>7. Boot'
  BY DEF CloseFree, Goto, Return, Closable, tvars, Types, Boot, Steps
<1>. QED  BY <1>1, <1>2, <1>3, <1>4, <1>5, <1>6, <1>7

LEMMA CloseOtherKeeps ==
  ASSUME FdAssumption, IInv, NEW t \in Threads, CloseOther(t)
  PROVE  IInv'
<1>. USE DEF FdAssumption, IInv
<1>1. Types'
  BY DEF CloseOther, Goto, Return, Closable, tvars, Holders, Types, Kinds, Entry, Entries, Steps, Fds
<1>2. Table'
  BY DEF CloseOther, Goto, Return, Closable, tvars, Table, Holders, Types, Entry, Kinds, Sockets, HoldsSocket, Entries, Fds, HoldsFd
<1>3. Reserved'
  BY DEF CloseOther, Goto, Return, Closable, tvars, Table, Holders, Types, Entry, Kinds, Reserved, Entries, Fds, HoldsFd
<1>4. Holders'
  BY DEF CloseOther, Goto, Return, Closable, tvars, Table, Holders, Types, Entries, Fds, HoldsFd, Kinds, Entry
<1>5. Sockets'
  BY DEF CloseOther, Goto, Return, Closable, tvars, Table, Holders, Types, Sockets, Entries, HoldsSocket, HoldsFd, Entry
<1>6. Companions'
  BY DEF CloseOther, Goto, Return, Closable, tvars, Table, Holders, Types, Companions, Entries, Fds, Kinds
<1>7. Boot'
  BY DEF CloseOther, Goto, Return, Closable, tvars, Types, Boot, Steps
<1>. QED  BY <1>1, <1>2, <1>3, <1>4, <1>5, <1>6, <1>7


LEMMA InitInv == FdAssumption /\ Init => IInv
<1> SUFFICES ASSUME FdAssumption, Init PROVE IInv
  OBVIOUS
<1>. USE DEF FdAssumption, Init
<1>1. Types
  <2>1. kernel \in [Fds -> Kinds] /\ fhs \in [Entries -> Entry]
    BY DEF Fds, Kinds, Entries, Entry, Unused
  <2>2. linux_fd \in [Entries -> -1..NFds - 1]
    <3>1. 0 \in -1..NFds - 1
      OBVIOUS
    <3>. QED  BY <3>1 DEF Entries
  <2>3. /\ pc \in [Threads -> Steps] /\ fd \in [Threads -> Entries \cup {Nil}]
        /\ so \in [Threads -> Addrs \cup {Nil}]
    BY DEF Steps
  <2>. QED  BY <2>1, <2>2, <2>3 DEF Types
<1>2. Table /\ Reserved
  BY DEF Table, Reserved, Fds, Entries, Unused
<1>3. Holders /\ Sockets
  BY DEF Holders, Sockets, HoldsFd, HoldsSocket
<1>4. Companions /\ Boot
  BY DEF Companions, Boot, Entries
<1>. QED  BY <1>1, <1>2, <1>3, <1>4 DEF IInv

LEMMA NextInv == FdAssumption /\ IInv /\ [Next]_vars => IInv'
<1> SUFFICES ASSUME FdAssumption, IInv, [Next]_vars PROVE IInv'
  OBVIOUS
<1>1. CASE UNCHANGED vars
  BY <1>1 DEF vars, IInv, Types, Table, Reserved, Holders, Sockets, Companions, Boot
<1>2. CASE Next
  <2>1. PICK t \in Threads : Step(t)
    BY <1>2 DEF Next
  <2>2. CASE EnsureInit(t) \/ BindSymbols(t) \/ LwipInit(t) \/ Waited(t)
    BY <2>2, EnsureInitKeeps, BindSymbolsKeeps, LwipInitKeeps, WaitedKeeps
  <2>3. CASE Salloc(t, "socket") \/ Salloc(t, "accept4") \/ SallocSet(t) \/ Companion(t)
    BY <2>3, SallocKeeps, SallocSetKeeps, CompanionKeeps
  <2>4. CASE OtherOpen(t) \/ EpollCreate(t) \/ Ealloc(t)
    BY <2>4, OtherOpenKeeps, EpollCreateKeeps, EallocKeeps
  <2>5. CASE CloseReset(t) \/ CloseKernel(t) \/ CloseFree(t) \/ CloseOther(t)
    BY <2>5, CloseResetKeeps, CloseKernelKeeps, CloseFreeKeeps, CloseOtherKeeps
  <2>. QED  BY <2>1, <2>2, <2>3, <2>4, <2>5 DEF Step
<1>. QED  BY <1>1, <1>2

\* What the invariant is for.
LEMMA InvSound == FdAssumption /\ IInv => DescriptorsSound
<1> SUFFICES ASSUME FdAssumption, IInv PROVE DescriptorsSound
  OBVIOUS
<1>. USE DEF FdAssumption, IInv
<1>1. TypeOK
  BY DEF TypeOK, Types, Kinds, Entry, Entries
<1>2. \A f \in Fds : Dispatch(f) # "libc" =>
        /\ f \in Entries /\ fhs[f].type = "socket" /\ Dispatch(f) = fhs[f].s
        /\ kernel[f] = "event" /\ Dispatch(f) \in heap
  BY DEF Dispatch, Table, Fds, Entries
<1>3. \A f, g \in Fds : Dispatch(f) = Dispatch(g) /\ f # g => Dispatch(f) = "libc"
  BY <1>2 DEF Table
<1>4. \A f \in Fds : kernel[f] = "event" /\ Dispatch(f) = "libc" => \E t \in Threads : fd[t] = f
  <2> SUFFICES ASSUME NEW f \in Fds, kernel[f] = "event", Dispatch(f) = "libc"
               PROVE  \E t \in Threads : fd[t] = f
    OBVIOUS
  <2>1. f \in Entries
    BY DEF Table
  <2>2. fhs[f].type # "socket"
    BY <2>1 DEF Dispatch, Table, Types, Entries
  <2>. QED  BY <2>1, <2>2 DEF Reserved
<1>5. DispatchSound
  BY <1>2, <1>3, <1>4 DEF DispatchSound
<1>6. CompanionsSound
  BY DEF CompanionsSound, Companions, Repeated, Entries
<1>7. InitFirst
  BY DEF InitFirst, Boot
<1>. QED  BY <1>1, <1>5, <1>6, <1>7 DEF DescriptorsSound

\* manage_fd.c, interpose.c: in any number of threads that open and close
\* descriptors at once, a call on a descriptor reaches the socket the descriptor
\* was reserved for and never freed memory; the Linux calls repeated on the
\* companion reach a companion; and no thread gets past ensure_init before the
\* library is initialised.
THEOREM DispatchSafe == ASSUME FdAssumption PROVE Spec => []DescriptorsSound
<1>1. Init => IInv
  BY InitInv
<1>2. IInv /\ [Next]_vars => IInv'
  BY NextInv
<1>3. IInv => DescriptorsSound
  BY InvSound
<1>. QED  BY <1>1, <1>2, <1>3, PTL DEF Spec
=============================================================================
