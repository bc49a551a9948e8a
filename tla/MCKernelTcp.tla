---------------------------- MODULE MCKernelTcp ----------------------------
(* Instances of the kernel's connection state machine for TLC. *)
EXTENDS KernelTcp, TLC

(* The listening port is one of the ephemeral ports. *)
MCListenPort == [l \in Listeners |-> FirstEph]
MCPeerHash == [p \in Peers |-> 1]
TsAlways == [p \in Peers |-> {TRUE}]
TsMixed == [p \in Peers |-> {TRUE, FALSE}]
(* Peers p1 and p2 offer timestamps, any other peer does not. *)
TsSome == [p \in Peers |-> {p \in {"p1", "p2"}}]
=============================================================================
