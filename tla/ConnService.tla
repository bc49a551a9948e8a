---------------------------- MODULE ConnService ----------------------------
(***************************************************************************)
(* What the kernel promises to an application that asks for connections:   *)
(* every request (open or accept) is answered at most once, and only after *)
(* it was made; an open request is answered in the end.  tcp_open's        *)
(* interface comment (kernel/internal.h): "This function returns           *)
(* asynchronously if it does not fail immediately.  The TCP module will    *)
(* call appif_conn_opened()."                                              *)
(***************************************************************************)
EXTENDS Naturals, Sequences

CONSTANTS Opens,      \* open requests of the application
          Accepts     \* accept requests of the application

VARIABLES asked,      \* requests made
          told        \* answers the application has read, per request

vars == <<asked, told>>

Reqs == Opens \cup Accepts

Init == /\ asked = {}
        /\ told = [r \in Reqs |-> <<>>]

Ask(r) == /\ r \notin asked
          /\ asked' = asked \cup {r}
          /\ UNCHANGED told

Answer(r) == /\ r \in asked
             /\ told[r] = <<>>
             /\ \E s \in {"ok", "fail"} : told' = [told EXCEPT ![r] = <<s>>]
             /\ UNCHANGED asked

Next == \E r \in Reqs : Ask(r) \/ Answer(r)

Spec == Init /\ [][Next]_vars

(* Every open is answered in the end; an accept may wait for a peer. *)
Answered == \A r \in Opens : WF_vars(Answer(r))
LiveSpec == Spec /\ Answered
=============================================================================
