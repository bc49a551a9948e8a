----------------------------- MODULE PacketMem -----------------------------
(***************************************************************************)
(* The packet memory manager (kernel/packetmem.c): first fit over a linked *)
(* list of free regions, without a lock.  The main thread calls it for     *)
(* connection buffers (conn_alloc and conn_free in kernel/tcp.c), the UX   *)
(* socket thread for the queues of application contexts (uxsocket_receive  *)
(* in kernel/appif.c).  A handle is one malloc'ed packetmem_handle;        *)
(* packetmem_alloc is two steps, the walk that finds a region and the      *)
(* update that takes it.                                                   *)
(***************************************************************************)
EXTENDS Naturals, FiniteSets

CONSTANTS Threads,    \* threads that call the manager
          MemSize,    \* flexnic_info->dma_mem_size
          Lengths,    \* lengths that are asked for
          MaxHandles, \* handles that malloc can return at a time
          Nil

MemAssumption ==
  /\ MemSize \in Nat \ {0} /\ MaxHandles \in Nat \ {0}
  /\ Lengths \subseteq Nat \ {0}

Handles == 1..MaxHandles

NilAssumption == Nil \notin Handles

VARIABLES
  freelist,  \* head of the list of free regions
  ph,        \* base, length and next pointer of every handle
  live,      \* handles that malloc gave out and free did not take back
  owned,     \* handles held by callers
  found      \* per thread: the region its walk found and its predecessor

mem == <<freelist, ph, live, owned>>
vars == <<mem, found>>

Unused == [base |-> 0, len |-> 0, next |-> Nil]
NotSearching == [len |-> 0, at |-> Nil, prev |-> Nil]

Init ==
  /\ freelist = 1
  /\ ph = [x \in Handles |-> [Unused EXCEPT !.len = IF x = 1 THEN MemSize ELSE 0]]
  /\ live = {1} /\ owned = {}
  /\ found = [t \in Threads |-> NotSearching]
-----------------------------------------------------------------------------
(* The n-th element of the free list, Nil beyond its end. *)
Walk ==
  LET w[n \in 0..MaxHandles] == IF n = 0 THEN freelist
                                ELSE IF w[n - 1] = Nil THEN Nil ELSE ph[w[n - 1]].next
  IN w

(* The first position of the walk among those of S; the walk of a sound    *)
(* list ends within MaxHandles steps.                                      *)
First(S) == CHOOSE n \in S : \A m \in S : n <= m
Before(n) == IF n = 0 THEN Nil ELSE Walk[n - 1]

(* First fit. *)
Fit(length) == First({n \in 0..MaxHandles : Walk[n] = Nil \/ ph[Walk[n]].len >= length})

AllocFind(t, length) ==
  /\ found[t] = NotSearching
  /\ Walk[Fit(length)] # Nil
  /\ found' = [found EXCEPT ![t] = [len |-> length, at |-> Walk[Fit(length)],
                                    prev |-> Before(Fit(length))]]
  /\ UNCHANGED <<freelist, ph, live, owned>>

Fresh == Handles \ live
NewHandle == CHOOSE x \in Fresh : \A y \in Fresh : x <= y

(* Take a whole region out of the list. *)
TakeWhole(f) ==
  /\ ph[f.at].len = f.len
  /\ freelist' = IF f.prev = Nil THEN ph[f.at].next ELSE freelist
  /\ ph' = IF f.prev = Nil THEN ph ELSE [ph EXCEPT ![f.prev].next = ph[f.at].next]
  /\ owned' = owned \cup {f.at} /\ UNCHANGED live

(* Mutation of Split: the rest keeps its base. *)
SplitKeepsBase(f) ==
  /\ ph[f.at].len # f.len /\ Fresh # {}
  /\ LET x == NewHandle IN
       /\ ph' = [ph EXCEPT ![x] = [base |-> ph[f.at].base, len |-> f.len, next |-> Nil],
                           ![f.at].len = @ - f.len]
       /\ live' = live \cup {x} /\ owned' = owned \cup {x}
  /\ UNCHANGED freelist

(* Split the region: a new handle takes its front. *)
Split(f) ==
  /\ ph[f.at].len # f.len /\ Fresh # {}
  /\ LET x == NewHandle IN
       /\ ph' = [ph EXCEPT ![x] = [base |-> ph[f.at].base, len |-> f.len, next |-> Nil],
                           ![f.at].base = @ + f.len, ![f.at].len = @ - f.len]
       /\ live' = live \cup {x} /\ owned' = owned \cup {x}
  /\ UNCHANGED freelist

(* The allocation fails when malloc has no handle left. *)
AllocTake(t) ==
  /\ found[t] # NotSearching
  /\ \/ TakeWhole(found[t])
     \/ Split(found[t])
     \/ /\ ph[found[t].at].len # found[t].len /\ Fresh = {}
        /\ UNCHANGED <<freelist, ph, live, owned>>
  /\ found' = [found EXCEPT ![t] = NotSearching]
-----------------------------------------------------------------------------
(* merge_items: the new region with its predecessor, then the result with  *)
(* its successor.  m is the state of the list as a record.                 *)
Adjacent(m, x, y) == m.ph[x].base + m.ph[x].len = m.ph[y].base

(* y, the successor of x in the list, becomes part of x. *)
Absorb(m, x, y) ==
  [fl |-> m.fl, live |-> m.live \ {y},
   ph |-> [m.ph EXCEPT ![x].len = @ + m.ph[y].len, ![x].next = m.ph[y].next, ![y] = Unused]]

MergeItems(m, x, prev) ==
  LET joined == prev # Nil /\ Adjacent(m, prev, x)
      m1 == IF joined THEN Absorb(m, prev, x) ELSE m
      y == IF joined THEN prev ELSE x
      succ == m1.ph[y].next
  IN IF succ # Nil /\ Adjacent(m1, y, succ) THEN Absorb(m1, y, succ) ELSE m1

(* The walk of packetmem_free looks at the successor of the element it     *)
(* stands on, and the new region is put before that element.               *)
InsertAt(x) ==
  First({n \in 0..MaxHandles : \/ Walk[n] = Nil \/ ph[Walk[n]].next = Nil
                               \/ ph[ph[Walk[n]].next].base >= ph[x].base})

Free(t, x) ==
  /\ x \in owned /\ found[t] = NotSearching
  /\ LET prev == Before(InsertAt(x))
         m == IF prev = Nil
              THEN [fl |-> x, live |-> live, ph |-> [ph EXCEPT ![x].next = freelist]]
              ELSE [fl |-> freelist, live |-> live,
                    ph |-> [ph EXCEPT ![x].next = ph[prev].next, ![prev].next = x]]
         r == MergeItems(m, x, prev)
     IN freelist' = r.fl /\ ph' = r.ph /\ live' = r.live
  /\ owned' = owned \ {x}
  /\ UNCHANGED found
-----------------------------------------------------------------------------
Next ==
  \E t \in Threads : \/ \E n \in Lengths : AllocFind(t, n)
                     \/ AllocTake(t)
                     \/ \E x \in owned : Free(t, x)

Spec == Init /\ [][Next]_vars

(* No thread changes the list between another's walk and its update.  The  *)
(* code does not ensure it (README, deviations).                           *)
Undisturbed ==
  \A t \in Threads :
    found[t] # NotSearching /\ found'[t] = found[t] => mem' = mem
-----------------------------------------------------------------------------
FreeRegions == {Walk[n] : n \in 0..MaxHandles} \ {Nil}
Bytes(x) == ph[x].base .. ph[x].base + ph[x].len - 1

(* Types of the list. *)
TypeOK ==
  /\ freelist \in Handles \cup {Nil} /\ live \subseteq Handles /\ owned \subseteq Handles
  /\ \A x \in live : /\ ph[x].base \in 0..MemSize /\ ph[x].len \in 0..MemSize
                     /\ ph[x].next \in Handles \cup {Nil}

(* Every byte of the DMA memory belongs to one region, of a caller or of   *)
(* the free list: no two buffers overlap and none is lost.                 *)
Partition ==
  /\ \A x, y \in FreeRegions \cup owned : x # y => Bytes(x) \cap Bytes(y) = {}
  /\ UNION {Bytes(x) : x \in FreeRegions \cup owned} = 0..MemSize - 1

(* The free list ends, and no pointer of it leads to a freed handle or to  *)
(* a region that a caller holds.                                           *)
ListSound ==
  /\ Walk[MaxHandles] = Nil
  /\ FreeRegions \cup owned = live /\ FreeRegions \cap owned = {}

(* Once every buffer is returned the memory is one region again, so that   *)
(* what could be allocated at first can be allocated then.                 *)
AllMerged == owned = {} => \E x \in FreeRegions : ph[x].len = MemSize
=============================================================================
