------------------------------- MODULE MCSock -------------------------------
(***************************************************************************)
(* Small instances of the parts of the socket layer. They share no state   *)
(* in the model: a behaviour runs one part, chosen at the start, and the   *)
(* variables of the others do not change.                                  *)
(***************************************************************************)
EXTENDS Epoll

VARIABLES
  part,  \* the part that runs
  \* SockData
  c, sk, used, call, rd, out, in, data_aborted,
  \* SockControl
  sock, kin, kout, kl, kctx, came, ctl, handed, ctl_aborted

MCTimeouts == {-1, 0, 1}
MCReceivers == [s \in Socks |-> Threads]

(* Steps that leave the other threads, epolls, sockets and events alone. *)
Only(ts, es, ss, evs) ==
  /\ \A t \in Threads \ ts : th'[t] = th[t] /\ pend'[t] = pend[t]
  /\ \A e \in Epolls, s \in Socks : mask'[e][s] \subseteq IF e \in es /\ s \in ss THEN evs \cup {Err} ELSE {}
  /\ \A t \in Threads : pend'[t] \subseteq ss \X evs /\ th'[t].ep \in es \cup {Nil}

(* Vectors of one, two and three parts, with an empty one.                 *)
Data == INSTANCE SockData WITH
  aborted <- data_aborted, RxLen <- 4, TxLen <- 3, Iovs <- {<<1>>, <<2>>, <<4>>, <<1, 2>>, <<0, 1, 1>>}

(* A listener and its connections; two threads that move a connection.     *)
Control == INSTANCE SockControl WITH
  so <- sock, th <- ctl, aborted <- ctl_aborted, Threads <- {"t1"}, Addrs <- {"a1", "a2", "a3"},
  MaxConns <- 2, CloseBusy <- FALSE

Move == INSTANCE SockControl WITH
  so <- sock, th <- ctl, aborted <- ctl_aborted, Threads <- {"t1", "t2"}, Addrs <- {"a1", "a2"},
  MaxConns <- 0, CloseBusy <- FALSE

(* The instances meet the assumptions of their modules. *)
ASSUME Assumptions ==
  /\ EpollAssumption /\ Data!DataAssumption /\ Control!ControlAssumption /\ Move!ControlAssumption
-----------------------------------------------------------------------------
sockDataVars == <<c, sk, used, call, rd, out, in, data_aborted>>
sockControlVars == <<sock, kin, kout, kl, kctx, came, ctl, handed, ctl_aborted>>
mcVars == <<part, vars, sockDataVars, sockControlVars>>

Off == "off"

MCInit ==
  /\ part \in {"epoll", "epolls", "threads", "data", "control", "move"}
  /\ Init
  /\ IF part = "data" THEN Data!Init
     ELSE /\ c = Off /\ sk = Off /\ used = Off /\ call = Off /\ rd = Off /\ out = Off /\ in = Off
          /\ data_aborted = Off
  /\ CASE part = "control" -> Control!Init
       [] part = "move" -> Move!Init
       [] OTHER -> /\ sock = Off /\ kin = Off /\ kout = Off /\ kl = Off /\ kctx = Off /\ came = Off
                   /\ ctl = Off /\ handed = Off /\ ctl_aborted = Off

(* The other parts stand still. *)
OthersRest ==
  /\ UNCHANGED part
  /\ IF part \in {"epoll", "epolls", "threads"} THEN TRUE ELSE UNCHANGED vars
  /\ IF part = "data" THEN TRUE ELSE UNCHANGED sockDataVars
  /\ IF part \in {"control", "move"} THEN TRUE ELSE UNCHANGED sockControlVars

(* Parts that really may stop, and threads that would race. *)
Rest == part \in {"threads", "data", "control", "move"} /\ UNCHANGED mcVars

(* Two sockets on one epoll, one socket that two epolls share, and two     *)
(* threads that do not race for a socket.                                  *)
MCNext ==
  \/ part = "epoll" /\ Next /\ NoRaces /\ Only({"t1"}, {"e1"}, Socks, {"in"}) /\ OthersRest
  \/ part = "epolls" /\ Next /\ NoRaces /\ Only({"t1"}, Epolls, {"s1"}, Events) /\ OthersRest
  \/ part = "threads" /\ Next /\ NoRaces /\ Only(Threads, {"e1"}, {"s1"}, {"in"}) /\ OthersRest
  \/ part = "data" /\ Data!Next /\ OthersRest
  \/ part = "control" /\ Control!Next /\ OthersRest
  \/ part = "move" /\ Move!Next /\ OthersRest
  \/ Rest

MCSpec == MCInit /\ [][MCNext]_mcVars
-----------------------------------------------------------------------------
(* context.c and transfer.c: the at most two pieces of a socket are, in    *)
(* order, the received bytes that were not read; a receive copies the next *)
(* of them, as many as are there and fit; a send copies the bytes of the   *)
(* message to the next places of the transmit buffer and never blocks a    *)
(* non-blocking socket; and the socket is readable for epoll exactly when  *)
(* a receive finds data.                                                   *)
DataExact ==
  part = "data" =>
    /\ Data!TypeOK /\ Data!TwoPieces /\ Data!PiecesExact /\ Data!RecvExact
    /\ Data!SendExact /\ Data!NonblockReturns /\ Data!ReadableExact

(* control.c and context.c: a connection is returned by one accept; while  *)
(* one waits and no accept is on its way to it, or one was accepted and    *)
(* not returned, the listener is readable or about to be; and the context  *)
(* kept in a connected socket is the one the kernel delivers to, whatever  *)
(* moves were refused.                                                     *)
ConnectionsKept ==
  /\ part = "control" => Control!TypeOK /\ Control!AcceptedOnce /\ Control!NoneForgotten
  /\ part = "move" => Move!TypeOK /\ Move!ContextAgrees
=============================================================================
