------------------------------ MODULE Routing -------------------------------
(***************************************************************************)
(* Routing (kernel/routing.c): the table made from the configuration, and  *)
(* the search for the address to resolve, hop by hop.                      *)
(***************************************************************************)
EXTENDS Naturals, Sequences

CONSTANTS B,         \* bits of an address
          MaxRoutes  \* routes of a configuration, the bound of the model

RoutingAssumption == B \in Nat \ {0} /\ MaxRoutes \in Nat

VARIABLES config,  \* the host's address and prefix, the routes in order
          table,   \* routing_table
          pc, ip,  \* what comes next, and the address looked for
          dest     \* the address routing_resolve was called with

vars == <<config, table, pc, ip, dest>>

IP == 0..2^B - 1
Route == [ip : IP, prefix : 0..B, hop : IP]

(* An address and prefix_len_mask(len). *)
Masked(a, len) == a - (a % 2^(B - len))
Entry(a, len, hop) == [ip |-> a, prefix |-> len, hop |-> hop]

(* The configuration is parsed: an address is required. *)
Init ==
  /\ config \in [ip : IP \ {0}, prefix : 0..B, routes : UNION {[1..n -> Route] : n \in 0..MaxRoutes}]
  /\ table = <<>> /\ pc = "init" /\ ip = 0 /\ dest = 0

(* routing_init: the network of the host first; a route whose mask removes *)
(* bits ends the kernel.                                                   *)
RoutingInit ==
  /\ pc = "init"
  /\ table' = <<Entry(Masked(config.ip, config.prefix), config.prefix, 0)>> \o config.routes
  /\ pc' = IF \A i \in DOMAIN config.routes : Masked(config.routes[i].ip, config.routes[i].prefix) = config.routes[i].ip
           THEN "idle" ELSE "exit"
  /\ UNCHANGED <<config, ip, dest>>

Resolve(a) ==
  /\ pc = "idle" /\ pc' = "route" /\ ip' = a /\ dest' = a
  /\ UNCHANGED <<config, table>>

(* resolve: the first route that matches. *)
Match(i, a) == table[i].ip = Masked(a, table[i].prefix)
First(i, a) == Match(i, a) /\ \A j \in 1..i - 1 : ~Match(j, a)

(* One turn of the loop of routing_resolve: no route, the address itself   *)
(* (arp_request follows), or the next hop is looked for.                   *)
Hop ==
  /\ pc = "route"
  /\ \/ (\A i \in DOMAIN table : ~Match(i, ip)) /\ pc' = "failed" /\ UNCHANGED ip
     \/ \E i \in DOMAIN table : First(i, ip) /\ table[i].hop = 0 /\ pc' = "arp" /\ UNCHANGED ip
     \/ \E i \in DOMAIN table : /\ First(i, ip) /\ table[i].hop # 0
                                /\ ip' = table[i].hop /\ UNCHANGED pc
  /\ UNCHANGED <<config, table, dest>>

Finished == pc \in {"failed", "arp", "exit"} /\ UNCHANGED vars

Next == RoutingInit \/ Hop \/ Finished \/ \E a \in IP : Resolve(a)

(* The loop of routing_resolve runs. *)
Fairness == WF_vars(Hop)

Spec == Init /\ [][Next]_vars /\ Fairness
-----------------------------------------------------------------------------
(* Types; the destinations of the table are networks. *)
TypeOK ==
  /\ table \in Seq(Route) /\ ip \in IP
  /\ pc \in {"idle", "route", "arp", "failed"} => \A i \in DOMAIN table : Masked(table[i].ip, table[i].prefix) = table[i].ip

Local(a) == Masked(a, config.prefix) = Masked(config.ip, config.prefix)

(* An address of the host's own network is resolved directly whatever the  *)
(* routes are.                                                             *)
LocalDirect == Local(dest) /\ pc = "arp" => ip = dest

Gateways == \A i \in DOMAIN config.routes : config.routes[i].hop # 0 => Local(config.routes[i].hop)

(* routing_resolve returns; with gateways in the host's network, for every *)
(* table.                                                                  *)
Returns == (pc = "route") ~> (pc # "route")
GatewaysReturn == Gateways => Returns
=============================================================================
