------------------------------- MODULE Arp ----------------------------------
(***************************************************************************)
(* Address resolution (kernel/arp.c): the table of entries, the            *)
(* connections that wait in them, retries with doubling timeouts, and the  *)
(* TAP thread, which walks the table while the kernel thread changes it.   *)
(* The network loses, repeats, delays and reorders messages.               *)
(***************************************************************************)
EXTENDS Naturals, Sequences, SequencesExt, FiniteSets, FiniteSetsExt

CONSTANTS Conns, Peers, Me, Macs, Ents,
          W,          \* width of the timeout in bits
          To, ToMax,  \* config.arp_to and config.arp_to_max
          Tap,        \* the TAP thread runs
          Nil

ArpAssumption ==
  /\ W \in Nat \ {0} /\ {To, ToMax} \subseteq 0..2^W - 1
  /\ Me \notin Peers /\ Nil \notin Ents \cup Macs /\ Tap \in BOOLEAN

IPs == Peers \cup {Me}

VARIABLES
  ent,    \* struct arp_entry at an address
  table,  \* the list from arp_table, first entry first
  conn,   \* per connection: what it asked for, and the outcome
  cq,     \* completions on their way to tcp_poll
  wire,   \* messages in the network
  tap,    \* the TAP thread's lookup: address asked for, entry reached
  told,   \* addresses and MACs that replies announced
  err     \* a failed check

vars == <<ent, table, conn, cq, wire, tap, told, err>>

FreeEnt == [ip |-> Nil, status |-> "free", mac |-> Nil, compl |-> <<>>, timeout |-> 0, armed |-> FALSE]
NoTap == [ip |-> Nil, at |-> Nil]

(* arp_init: an entry for the host itself. *)
Init ==
  /\ \E lb \in Ents, m \in Macs :
       /\ ent = [e \in Ents |-> IF e = lb THEN [FreeEnt EXCEPT !.ip = Me, !.status = "ready", !.mac = m] ELSE FreeEnt]
       /\ table = <<lb>> /\ told = {<<Me, m>>}
  /\ conn = [c \in Conns |-> [st |-> "idle", ip |-> Nil, mac |-> Nil]]
  /\ cq = <<>> /\ wire = {} /\ tap = NoTap /\ err = "no"

(* ae_lookup: the first entry of the address. *)
Lookup(ip) ==
  LET hits == {i \in DOMAIN table : ent[table[i]].ip = ip}
  IN IF hits = {} THEN Nil ELSE table[Min(hits)]

Message(op, ip, mac) == [op |-> op, ip |-> ip, mac |-> mac]

(* request_tx, which fails when there is no transmit buffer. *)
RequestTx(ip) == wire' \in {wire, wire \cup {Message("request", ip, Nil)}}
-----------------------------------------------------------------------------
(* Mutation of ArpRequest: a connection that joins replaces the list. *)
ArpRequestAlone(c, ip) ==
  /\ conn[c].st \in {"idle", "ok", "failed"}
  /\ LET e == Lookup(ip) IN
     \/ /\ e # Nil /\ ent[e].status = "ready"
        /\ conn' = [conn EXCEPT ![c] = [st |-> "ok", ip |-> ip, mac |-> ent[e].mac]]
        /\ UNCHANGED <<ent, table, wire>>
     \/ /\ e # Nil /\ ent[e].status = "pending"
        /\ ent' = [ent EXCEPT ![e].compl = <<c>>]
        /\ conn' = [conn EXCEPT ![c] = [st |-> "wait", ip |-> ip, mac |-> Nil]]
        /\ UNCHANGED <<table, wire>>
     \/ /\ e = Nil
        /\ \E n \in Ents :
             /\ ent[n].status = "free"
             /\ ent' = [ent EXCEPT ![n] = [FreeEnt EXCEPT !.ip = ip, !.status = "pending", !.compl = <<c>>,
                                                          !.timeout = To, !.armed = TRUE]]
             /\ table' = <<n>> \o table
        /\ conn' = [conn EXCEPT ![c] = [st |-> "wait", ip |-> ip, mac |-> Nil]]
        /\ RequestTx(ip)
  /\ UNCHANGED <<cq, tap, told, err>>

(* arp_request: the address is known, asked for already, or asked for now; *)
(* without memory for an entry it fails.                                   *)
ArpRequest(c, ip) ==
  /\ conn[c].st \in {"idle", "ok", "failed"}
  /\ LET e == Lookup(ip)
         wait == [conn EXCEPT ![c] = [st |-> "wait", ip |-> ip, mac |-> Nil]]
     IN \/ /\ e # Nil /\ ent[e].status = "ready"
           /\ conn' = [conn EXCEPT ![c] = [st |-> "ok", ip |-> ip, mac |-> ent[e].mac]]
           /\ UNCHANGED <<ent, table, wire>>
        \/ /\ e # Nil /\ ent[e].status = "pending"
           /\ ent' = [ent EXCEPT ![e].compl = <<c>> \o @] /\ conn' = wait
           /\ UNCHANGED <<table, wire>>
        \/ /\ e = Nil
           /\ \E n \in Ents :
                /\ ent[n].status = "free"
                /\ ent' = [ent EXCEPT ![n] = [FreeEnt EXCEPT !.ip = ip, !.status = "pending", !.compl = <<c>>,
                                                             !.timeout = To, !.armed = TRUE]]
                /\ table' = <<n>> \o table
           /\ conn' = wait /\ RequestTx(ip)
        \/ /\ e = Nil /\ \A n \in Ents : ent[n].status # "free"
           /\ conn' = [conn EXCEPT ![c] = [st |-> "failed", ip |-> ip, mac |-> Nil]]
           /\ UNCHANGED <<ent, table, wire>>
  /\ UNCHANGED <<cq, tap, told, err>>

(* The completions of an entry, in the order of its list. *)
Complete(e, ok, mac) == cq \o [i \in DOMAIN ent[e].compl |-> [c |-> ent[e].compl[i], ok |-> ok, mac |-> mac]]

(* Mutation of ReplyEntry: the list of waiting connections is kept. *)
ReplyEntryKeep(e, mac) ==
  ent' = [ent EXCEPT ![e].status = "ready", ![e].mac = mac, ![e].armed = FALSE]

ReplyEntry(e, mac) ==
  ent' = [ent EXCEPT ![e].status = "ready", ![e].mac = mac, ![e].compl = <<>>, ![e].armed = FALSE]

(* arp_packet for a reply, also one nobody asked for: the entry is filled  *)
(* in, its timeout disarmed and everyone waiting is notified.              *)
Reply(m) ==
  /\ m \in wire /\ m.op = "reply"
  /\ LET e == Lookup(m.ip) IN
       IF e = Nil THEN UNCHANGED <<ent, cq>>
       ELSE cq' = Complete(e, TRUE, m.mac) /\ ReplyEntry(e, m.mac)
  /\ wire' \in {wire, wire \ {m}}
  /\ UNCHANGED <<table, conn, tap, told, err>>

(* arp_packet for a request: only the one for the host is answered, which  *)
(* changes nothing here (the answer is not followed).                      *)
RequestPacket(m) ==
  /\ m \in wire /\ m.op = "request" /\ m.ip = Me
  /\ wire' = wire \ {m}
  /\ UNCHANGED <<ent, table, conn, cq, tap, told, err>>

(* The largest timeout is reached. *)
LastTry(e) == (ent[e].timeout * 2) % 2^W >= ToMax

(* Everyone waiting is told of the failure and the entry is freed. *)
GiveUp(e) ==
  /\ cq' = Complete(e, FALSE, Nil)
  /\ table' = Remove(table, e)
  /\ ent' = [ent EXCEPT ![e] = FreeEnt] /\ UNCHANGED wire

(* arp_timeout, which insists that the entry is not ready. *)
ArpTimeout(e) ==
  /\ ent[e].armed
  /\ IF ent[e].status = "ready" THEN err' = "ready" /\ UNCHANGED <<ent, table, cq, wire>>
     ELSE /\ UNCHANGED err
          /\ \/ LastTry(e) /\ GiveUp(e)
             \/ /\ ~LastTry(e) /\ RequestTx(ent[e].ip)
                /\ ent' = [ent EXCEPT ![e].timeout = (@ * 2) % 2^W]
                /\ UNCHANGED <<table, cq>>
  /\ UNCHANGED <<conn, tap, told>>

(* tcp_poll takes a completion. *)
TcpPoll ==
  /\ cq # <<>> /\ cq' = Tail(cq)
  /\ conn' = [conn EXCEPT ![Head(cq).c].st = IF Head(cq).ok THEN "ok" ELSE "failed", ![Head(cq).c].mac = Head(cq).mac]
  /\ UNCHANGED <<ent, table, wire, tap, told, err>>
-----------------------------------------------------------------------------
(* arp_packet_tap: a request of the host's own network stack; the entry of *)
(* the sender is looked up (replies are ignored) ...                       *)
TapStart(ip) ==
  /\ Tap /\ tap = NoTap /\ tap' = [ip |-> ip, at |-> Head(table)]
  /\ UNCHANGED <<ent, table, conn, cq, wire, told, err>>

(* ... one entry after the other, in memory that may have been freed (the  *)
(* lookup then ends), and the answer goes to the TAP device.               *)
TapStep ==
  /\ tap.at # Nil
  /\ IF ent[tap.at].status = "free" THEN err' = "freed" /\ tap' = NoTap
     ELSE /\ tap' = IF ent[tap.at].ip = tap.ip \/ Last(table) = tap.at THEN NoTap
                    ELSE [tap EXCEPT !.at = table[1 + CHOOSE i \in DOMAIN table : table[i] = tap.at]]
          /\ UNCHANGED err
  /\ UNCHANGED <<ent, table, conn, cq, wire, told>>
-----------------------------------------------------------------------------
(* A peer answers a request, or announces itself, or asks for the host. *)
Peer(p) ==
  \/ \E m \in Macs : /\ wire' = (wire \ {Message("request", p, Nil)}) \cup {Message("reply", p, m)}
                     /\ told' = told \cup {<<p, m>>}
  \/ wire' = wire \cup {Message("request", Me, Nil)} /\ UNCHANGED told

Network ==
  /\ \/ \E p \in Peers : Peer(p)
     \/ \E m \in wire : wire' = wire \ {m} /\ UNCHANGED told
  /\ UNCHANGED <<ent, table, conn, cq, tap, err>>

Next ==
  /\ err # "ready"
  /\ \/ \E c \in Conns, ip \in IPs : ArpRequest(c, ip)
     \/ \E m \in wire : Reply(m) \/ RequestPacket(m)
     \/ \E e \in Ents : ArpTimeout(e)
     \/ TcpPoll \/ Network \/ TapStep \/ \E ip \in IPs : TapStart(ip)

(* Timeouts fire and the kernel polls its completion queue. *)
Fairness == WF_vars(TcpPoll) /\ \A e \in Ents : WF_vars(ArpTimeout(e))

Spec == Init /\ [][Next]_vars /\ Fairness
-----------------------------------------------------------------------------
(* Types: entries in the list are in use, the others are free. *)
TypeOK ==
  /\ \A e \in Ents : /\ ent[e].status = "free" <=> e \notin ToSet(table)
                     /\ ent[e].timeout \in 0..2^W - 1 /\ ent[e].mac \in Macs \cup {Nil}
  /\ \A c \in Conns : conn[c].st \in {"idle", "wait", "ok", "failed"}
  /\ IsInjective(table)

Waits(c, e) == {i \in DOMAIN ent[e].compl : ent[e].compl[i] = c}
(* A connection that waits is notified exactly once: it is on one list of  *)
(* the table or on the completion queue, never both, and no other is.      *)
WaitsOnce ==
  \A c \in Conns :
    LET n == Cardinality(UNION {{<<e, i>> : i \in Waits(c, e)} : e \in ToSet(table)})
        k == Cardinality({i \in DOMAIN cq : cq[i].c = c})
    IN n + k = IF conn[c].st = "wait" THEN 1 ELSE 0

(* An entry has connections waiting while a timeout will retry or fail it, *)
(* and one entry per address (arp_timeout's abort is never reached).       *)
PendingArmed ==
  /\ err # "ready"
  /\ \A e \in ToSet(table) : /\ ent[e].armed <=> ent[e].status = "pending"
                             /\ ent[e].compl # <<>> => ent[e].armed
  /\ \A d, e \in ToSet(table) : ent[d].ip = ent[e].ip => d = e

(* A resolved address is one the owner announced, and a connection is      *)
(* never given another connection's answer.                                *)
MacTold == \A c \in Conns : conn[c].st = "ok" => <<conn[c].ip, conn[c].mac>> \in told

(* Every resolution ends, with an answer or a failure. *)
Resolved == \A c \in Conns : (conn[c].st = "wait") ~> (conn[c].st # "wait")

(* The table the TAP thread walks holds no freed entry. *)
NoFreedRead == err # "freed"
=============================================================================
