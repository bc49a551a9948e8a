----------------------------- MODULE FlowTable -----------------------------
(***************************************************************************)
(* The flow lookup table: a hopscotch hash table in shared memory that the *)
(* kernel fills (flow_slot_alloc and nicif_connection_add in               *)
(* kernel/nicif.c) while fast path cores look flows up without a lock      *)
(* (fast_flows_packet_fss in flexnic/fast_flows.c).  One action is one     *)
(* write or read of shared memory between two barriers.  Indices are taken *)
(* modulo Entries, which divides 2^32 as in the code.                      *)
(***************************************************************************)
EXTENDS Naturals, FiniteSets

CONSTANTS Flows,      \* flows that the kernel registers
          Entries,    \* FLEXNIC_PL_FLOWHT_ENTRIES
          NbSz,       \* FLEXNIC_PL_FLOWHT_NBSZ
          Hashes,     \* hash values that occur
          NoFlow

TableAssumption ==
  /\ Entries \in Nat /\ NbSz \in Nat \ {0} /\ 5 * NbSz < Entries
  /\ Hashes \subseteq Nat /\ NoFlow \notin Flows

VARIABLES
  hash,      \* flow_hash of every flow's four-tuple
  htId,      \* flow_id word of every slot: flow (or none) and distance
  htHash,    \* flow_hash word of every slot
  reg,       \* flows whose registration has returned
  tried,     \* flows whose registration was begun
  ins,       \* the kernel inside nicif_connection_add
  look       \* a fast path core inside its lookup

vars == <<hash, htId, htHash, reg, tried, ins, look>>

Slots == 0..Entries - 1
Empty == [f |-> NoFlow, d |-> 0]
NoIns == [pc |-> "idle", f |-> NoFlow, i |-> 0, from |-> 0]
NoLook == [pc |-> "idle", f |-> NoFlow, j |-> 0, id |-> NoFlow]

Init ==
  /\ hash \in [Flows -> Hashes]
  /\ htId = [s \in Slots |-> Empty]
  /\ htHash = [s \in Slots |-> 0]
  /\ reg = {} /\ tried = {}
  /\ ins = NoIns /\ look = NoLook
-----------------------------------------------------------------------------
Valid(s) == htId[s].f # NoFlow
Home(f) == hash[f] % Entries
Slot(s, k) == (s + k) % Entries                \* k slots further
Back(s, k) == (s + Entries - k) % Entries      \* k slots back
Gap(s, t) == (t + Entries - s) % Entries       \* from s forward to t

(* Distance of the first empty slot from home, searched as far as the      *)
(* neighbourhood and the four that follow it.                              *)
EmptyAt(f) == {k \in 0..5 * NbSz - 1 : ~Valid(Slot(Home(f), k))}
FirstEmpty(f) == CHOOSE k \in EmptyAt(f) : \A m \in EmptyAt(f) : k <= m

(* nicif_connection_add begins: look for an empty slot. *)
FlowSlotAlloc(f) ==
  /\ ins = NoIns /\ f \notin tried
  /\ tried' = tried \cup {f}
  /\ ins' = IF EmptyAt(f) = {} THEN NoIns
            ELSE [pc |-> "move", f |-> f, i |-> Slot(Home(f), FirstEmpty(f)), from |-> 0]
  /\ UNCHANGED <<hash, htId, htHash, reg, look>>

InReach == Gap(Home(ins.f), ins.i) < NbSz

(* Mutation of Movable: one slot too far. *)
MovableTooFar(k) == {m \in 1..NbSz : m <= NbSz - htId[Back(k, m)].d}

(* Distance back from slot k to the first element that may move up to k,   *)
(* searched from the farthest.  It is judged by the distance that is       *)
(* stored with the element.                                                *)
Movable(k) == {m \in 1..NbSz : m <= NbSz - 1 - htId[Back(k, m)].d}

MoveFrom(k) == Back(k, CHOOSE m \in Movable(k) : \A n \in Movable(k) : n <= m)

(* Displacement: copy an element up into the empty slot, hash word first,  *)
(* then the id word with the distance it had, then clear the original.     *)
MoveHash ==
  /\ ins.pc = "move" /\ ~InReach
  /\ IF Movable(ins.i) = {}
     THEN ins' = NoIns /\ UNCHANGED htHash
     ELSE /\ htHash' = [htHash EXCEPT ![ins.i] = htHash[MoveFrom(ins.i)]]
          /\ ins' = [ins EXCEPT !.pc = "moveid", !.from = MoveFrom(ins.i)]
  /\ UNCHANGED <<hash, htId, reg, tried, look>>

MoveId ==
  /\ ins.pc = "moveid"
  /\ htId' = [htId EXCEPT ![ins.i] = htId[ins.from]]
  /\ ins' = [ins EXCEPT !.pc = "clear"]
  /\ UNCHANGED <<hash, htHash, reg, tried, look>>

MoveClear ==
  /\ ins.pc = "clear"
  /\ htId' = [htId EXCEPT ![ins.from] = Empty]
  /\ ins' = [ins EXCEPT !.pc = "move", !.i = ins.from]
  /\ UNCHANGED <<hash, htHash, reg, tried, look>>

(* A slot in reach is found; the queue manager may have no queue left.     *)
PutHash ==
  /\ ins.pc = "move" /\ InReach
  /\ \/ ins' = NoIns /\ UNCHANGED htHash
     \/ /\ htHash' = [htHash EXCEPT ![ins.i] = hash[ins.f]]
        /\ ins' = [ins EXCEPT !.pc = "putid"]
  /\ UNCHANGED <<hash, htId, reg, tried, look>>

PutId ==
  /\ ins.pc = "putid"
  /\ htId' = [htId EXCEPT ![ins.i] = [f |-> ins.f, d |-> Gap(Home(ins.f), ins.i)]]
  /\ reg' = reg \cup {ins.f}
  /\ ins' = NoIns
  /\ UNCHANGED <<hash, htHash, tried, look>>
-----------------------------------------------------------------------------
(* A segment of a registered flow arrives: its neighbourhood is scanned    *)
(* upwards, id word before hash word.                                      *)
LookupStart(f) ==
  /\ look.pc \in {"idle", "found", "missed"} /\ f \in reg
  /\ look' = [pc |-> "id", f |-> f, j |-> 0, id |-> NoFlow]
  /\ UNCHANGED <<hash, htId, htHash, reg, tried, ins>>

LookSlot == Slot(Home(look.f), look.j)

LookupId ==
  /\ look.pc = "id"
  /\ look' = [look EXCEPT !.pc = "hash", !.id = htId[LookSlot].f]
  /\ UNCHANGED <<hash, htId, htHash, reg, tried, ins>>

(* The hash word must match and, in the flow state, the four-tuple. *)
LookupHash ==
  /\ look.pc = "hash"
  /\ look' = IF /\ look.id = look.f
                /\ htHash[LookSlot] = hash[look.f]
             THEN [look EXCEPT !.pc = "found"]
             ELSE IF look.j + 1 < NbSz
             THEN [look EXCEPT !.pc = "id", !.j = @ + 1]
             ELSE [look EXCEPT !.pc = "missed"]
  /\ UNCHANGED <<hash, htId, htHash, reg, tried, ins>>
-----------------------------------------------------------------------------
Next ==
  \/ \E f \in Flows : FlowSlotAlloc(f) \/ LookupStart(f)
  \/ MoveHash \/ MoveId \/ MoveClear \/ PutHash \/ PutId
  \/ LookupId \/ LookupHash

Spec == Init /\ [][Next]_vars
-----------------------------------------------------------------------------
(* Types of the table and of the two actors. *)
TypeOK ==
  /\ htId \in [Slots -> [f : Flows \cup {NoFlow}, d : 0..NbSz - 1]]
  /\ htHash \in [Slots -> Hashes \cup {0}]
  /\ reg \subseteq tried /\ tried \subseteq Flows
  /\ ins.i \in Slots /\ ins.from \in Slots /\ look.j \in 0..NbSz - 1

(* A lookup never misses a flow that was registered before it began, while *)
(* the kernel displaces entries under it.                                  *)
LookupFinds == look.pc # "missed"

(* Every registered flow is in its neighbourhood, where lookups search:    *)
(* displacing entries for later flows never pushes it out.                 *)
FlowsReachable ==
  \A f \in reg : \E k \in 0..NbSz - 1 :
    LET s == Slot(Home(f), k) IN htId[s].f = f /\ htHash[s] = hash[f]

(* A flow has one slot, and a second one only while it is being moved. *)
NoDuplicates ==
  \A s, t \in Slots : htId[s].f = htId[t].f /\ Valid(s) /\ s # t =>
    ins.pc = "clear" /\ {s, t} = {ins.i, ins.from}

(* The assertions of flow_slot_alloc: the slot that is filled is empty and *)
(* the elements considered for moving into it are valid.                   *)
DisplacementAsserts ==
  /\ ins.pc \in {"move", "moveid", "putid"} => ~Valid(ins.i)
  /\ ins.pc = "move" /\ ~InReach => \A m \in 1..NbSz : Valid(Back(ins.i, m))
=============================================================================
