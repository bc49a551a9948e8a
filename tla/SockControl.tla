---------------------------- MODULE SockControl -----------------------------
(***************************************************************************)
(* The control path of the socket layer (sockets/control.c and the event   *)
(* handlers of sockets/context.c): sockets in memory that is reused after  *)
(* close, requests to the kernel, and the events that answer them, which   *)
(* carry the address of the socket.  Each thread has its own context.  The *)
(* kernel is seen through its queues (the TCP side is in KernelTcp).       *)
(***************************************************************************)
EXTENDS Integers, Sequences, SequencesExt, FiniteSets

CONSTANTS Threads, Addrs,
          MaxConns,   \* connections that come in, the bound of the model
          CloseBusy,  \* the application closes sockets that are in use
          Nil

ControlAssumption ==
  /\ MaxConns \in Nat /\ CloseBusy \in BOOLEAN /\ Nil \notin Addrs \cup Threads

VARIABLES
  so,       \* the struct socket at an address
  kin,      \* requests of a context, oldest first
  kout,     \* events for a context, oldest first
  kl,       \* the kernel's listeners: context, connections waiting, accepts waiting
  kctx,     \* the context the kernel delivers a connection's events to
  came,     \* connections that came in
  th,       \* per thread: next step, socket, new socket, predecessor in the list
  handed,   \* connections accept returned
  aborted   \* the assertion that failed

vars == <<so, kin, kout, kl, kctx, came, th, handed, aborted>>
kernel == <<kin, kout, kl, kctx, came>>

Free == [type |-> "free", nonblock |-> FALSE, status |-> "none", listener |-> Nil,
         ctx |-> Nil, move |-> "none", epin |-> FALSE, pending |-> <<>>]
NoListener == [ctx |-> Nil, waiting |-> 0, accepts |-> <<>>]
App == [pc |-> "app", s |-> Nil, ns |-> Nil, spp |-> Nil]

Init ==
  /\ so = [a \in Addrs |-> Free] /\ kctx = [a \in Addrs |-> Nil]
  /\ kl = [a \in Addrs |-> NoListener]
  /\ kin = [t \in Threads |-> <<>>] /\ kout = [t \in Threads |-> <<>>]
  /\ th = [t \in Threads |-> App]
  /\ came = 0 /\ handed = {} /\ aborted = "no"

Request(t, op, s, l) == kin' = [kin EXCEPT ![t] = Append(@, [op |-> op, s |-> s, l |-> l])]
Is(s, type, status) == so[s].type = type /\ so[s].status = status
-----------------------------------------------------------------------------
(* socket() and bind(); flextcp_fd_salloc clears the memory. *)
Socket(t, nb) ==
  /\ th[t].pc = "app"
  /\ \E s \in Addrs : so[s].type = "free" /\ so' = [so EXCEPT ![s] = [Free EXCEPT !.type = "socket", !.nonblock = nb]]
  /\ UNCHANGED <<kernel, th, handed, aborted>>

(* connect(), also again after a failure: non-blocking it returns, else it *)
(* polls until the status changes.                                         *)
Connect(t, s) ==
  /\ th[t].pc = "app" /\ (so[s].type = "socket" \/ Is(s, "conn", "failed"))
  /\ so' = [so EXCEPT ![s].type = "conn", ![s].status = "connecting", ![s].listener = Nil, ![s].ctx = t]
  /\ Request(t, "connect", s, Nil)
  /\ th' = IF so[s].nonblock THEN th ELSE [th EXCEPT ![t] = [App EXCEPT !.pc = "connect", !.s = s]]
  /\ UNCHANGED <<kout, kl, kctx, came, handed, aborted>>

Connected(t) ==
  /\ th[t].pc = "connect" /\ so[th[t].s].status # "connecting"
  /\ th' = [th EXCEPT ![t] = App]
  /\ UNCHANGED <<so, kernel, handed, aborted>>

(* listen() always waits for the answer. *)
Listen(t, s) ==
  /\ th[t].pc = "app" /\ so[s].type = "socket"
  /\ so' = [so EXCEPT ![s].type = "listener", ![s].status = "opening", ![s].pending = <<>>]
  /\ Request(t, "listen", s, Nil)
  /\ th' = [th EXCEPT ![t] = [App EXCEPT !.pc = "listen", !.s = s]]
  /\ UNCHANGED <<kout, kl, kctx, came, handed, aborted>>

Listening(t) ==
  /\ th[t].pc = "listen" /\ so[th[t].s].status # "opening"
  /\ th' = [th EXCEPT ![t] = App]
  /\ UNCHANGED <<so, kernel, handed, aborted>>
-----------------------------------------------------------------------------
(* accept4() on a listener: the pending accept of this context, if any ... *)
AcceptAgain(t, l) ==
  /\ th[t].pc = "app" /\ so[l].type = "listener"
  /\ \E i \in DOMAIN so[l].pending :
       /\ so[l].pending[i].ctx = t /\ \A j \in 1..i - 1 : so[l].pending[j].ctx # t
       /\ th' = [th EXCEPT ![t] = [App EXCEPT !.pc = "check", !.s = l, !.ns = so[l].pending[i].s]]
  /\ UNCHANGED <<so, kernel, handed, aborted>>

(* ... or a new socket and a request, and the end of the list is found. *)
AcceptNew(t, l) ==
  /\ th[t].pc = "app" /\ so[l].type = "listener"
  /\ \A i \in DOMAIN so[l].pending : so[l].pending[i].ctx # t
  /\ \E ns \in Addrs :
       /\ so[ns].type = "free"
       /\ so' = [so EXCEPT ![ns] = [Free EXCEPT !.type = "conn", !.status = "connecting", !.listener = l, !.ctx = t]]
       /\ Request(t, "accept", ns, l)
       /\ th' = [th EXCEPT ![t] = [App EXCEPT !.pc = "append", !.s = l, !.ns = ns,
            !.spp = IF so[l].pending = <<>> THEN Nil ELSE Last(so[l].pending).s]]
  /\ UNCHANGED <<kout, kl, kctx, came, handed, aborted>>

(* The entry is linked: as the first, or after the one found. *)
AcceptAppend(t) ==
  /\ th[t].pc = "append"
  /\ LET l == th[t].s
         p == so[l].pending
         e == [s |-> th[t].ns, ctx |-> t]
         at == {i \in DOMAIN p : p[i].s = th[t].spp}
     IN so' = [so EXCEPT ![l].pending =
                 CASE th[t].spp = Nil -> <<e>>
                   [] th[t].spp # Nil /\ at # {} -> Append(SubSeq(p, 1, CHOOSE i \in at : TRUE), e)
                   [] OTHER -> p]
  /\ th' = [th EXCEPT ![t].pc = "check"]
  /\ UNCHANGED <<kernel, handed, aborted>>

(* Mutation of AcceptWait: readiness is cleared whatever the state. *)
AcceptWaitClear(t) ==
  /\ th[t].pc = "check"
  /\ so' = [so EXCEPT ![th[t].s].epin = FALSE]
  /\ th' = [th EXCEPT ![t] = IF so[th[t].s].nonblock THEN App ELSE [@ EXCEPT !.pc = "accept"]]
  /\ UNCHANGED <<kernel, handed, aborted>>

(* Still connecting: the listener is not readable any more; EAGAIN or wait. *)
AcceptWait(t) ==
  /\ th[t].pc = "check" /\ so[th[t].ns].status = "connecting"
  /\ so' = [so EXCEPT ![th[t].s].epin = FALSE]
  /\ th' = [th EXCEPT ![t] = IF so[th[t].s].nonblock THEN App ELSE [@ EXCEPT !.pc = "accept"]]
  /\ UNCHANGED <<kernel, handed, aborted>>

(* The connection is there: its entry is found and removed. *)
AcceptDone(t) ==
  LET l == th[t].s
      at == {i \in DOMAIN so[l].pending : so[l].pending[i].s = th[t].ns} IN
  /\ th[t].pc \in {"check", "accept"} /\ so[th[t].ns].status # "connecting"
  /\ IF at = {} THEN aborted' = "list" /\ UNCHANGED <<so, handed>>
     ELSE /\ so' = [so EXCEPT ![l].pending = RemoveAt(@, CHOOSE i \in at : TRUE)]
          /\ handed' = handed \cup {th[t].ns} /\ UNCHANGED aborted
  /\ th' = [th EXCEPT ![t] = App]
  /\ UNCHANGED kernel
-----------------------------------------------------------------------------
(* move_conn(): the calling thread's context takes the connection over. *)
Move(t, s) ==
  /\ th[t].pc = "app" /\ Is(s, "conn", "connected") /\ so[s].ctx # t
  /\ \A u \in Threads : th[u].pc = "move" => th[u].s # s
  /\ so' = [so EXCEPT ![s].move = "asked"]
  /\ Request(t, "move", s, Nil)
  /\ th' = [th EXCEPT ![t] = [App EXCEPT !.pc = "move", !.s = s]]
  /\ UNCHANGED <<kout, kl, kctx, came, handed, aborted>>

Moved(t) ==
  /\ th[t].pc = "move" /\ so[th[t].s].move # "asked"
  /\ so' = [so EXCEPT ![th[t].s].ctx = IF so[th[t].s].move = "ok" THEN t ELSE @, ![th[t].s].move = "none"]
  /\ th' = [th EXCEPT ![t] = App]
  /\ UNCHANGED <<kernel, handed, aborted>>

(* The socket has nothing outstanding and the kernel has forgotten it. *)
Idle(s) == so[s].type = "socket" \/ so[s].status = "failed"

(* close() frees the memory and does nothing else. *)
Close(t, s) ==
  /\ th[t].pc = "app" /\ so[s].type # "free" /\ (CloseBusy \/ Idle(s))
  /\ so[s].type = "conn" => so[s].listener = Nil \/ s \in handed
  /\ \A u \in Threads : s \notin {th[u].s, th[u].ns}
  /\ so' = [so EXCEPT ![s] = Free] /\ handed' = handed \ {s}
  /\ UNCHANGED <<kernel, th, aborted>>
-----------------------------------------------------------------------------
(* What an event asserts of the socket it is for. *)
Expected(e) ==
  CASE e.op = "listen" -> Is(e.s, "listener", "opening")
    [] e.op = "newconn" -> so[e.s].type = "listener"
    [] e.op = "accept" -> Is(e.s, "conn", "connecting") /\ so[e.s].listener # Nil
    [] e.op = "connect" -> Is(e.s, "conn", "connecting")
    [] e.op = "move" -> Is(e.s, "conn", "connected")

Handle(e) ==
  CASE e.op = "listen" -> [so EXCEPT ![e.s].status = IF e.ok THEN "open" ELSE "failed"]
    [] e.op = "newconn" -> [so EXCEPT ![e.s].epin = TRUE]
    [] e.op = "accept" -> [so EXCEPT ![e.s].status = "connected", ![so[e.s].listener].epin = TRUE]
    [] e.op = "connect" -> [so EXCEPT ![e.s].status = IF e.ok THEN "connected" ELSE "failed"]
    [] e.op = "move" -> [so EXCEPT ![e.s].move = IF e.ok THEN "ok" ELSE "error"]

(* flextcp_sockctx_poll, from a call that waits or between calls.  The     *)
(* fields of freed memory that was not reused still satisfy the            *)
(* assertions, and writing them has no effect.                             *)
Poll(t) ==
  /\ th[t].pc \notin {"append", "check"} /\ kout[t] # <<>>
  /\ LET e == Head(kout[t]) IN
       CASE so[e.s].type = "free" -> UNCHANGED <<so, aborted>>
         [] so[e.s].type # "free" /\ Expected(e) -> so' = Handle(e) /\ UNCHANGED aborted
         [] OTHER -> aborted' = "event" /\ UNCHANGED so
  /\ kout' = [kout EXCEPT ![t] = Tail(@)]
  /\ UNCHANGED <<kin, kl, kctx, came, th, handed>>
-----------------------------------------------------------------------------
Event(op, s, ok) == [op |-> op, s |-> s, ok |-> ok]

(* The kernel takes a request.  An accept waits for a connection, the      *)
(* others are answered.                                                    *)
KernelRequest(t) ==
  /\ kin[t] # <<>>
  /\ LET r == Head(kin[t]) IN
     IF r.op = "accept"
     THEN /\ IF kl[r.l].waiting > 0
             THEN /\ kl' = [kl EXCEPT ![r.l].waiting = @ - 1]
                  /\ kout' = [kout EXCEPT ![t] = Append(@, Event("accept", r.s, TRUE))]
                  /\ kctx' = [kctx EXCEPT ![r.s] = t]
             ELSE /\ kl' = [kl EXCEPT ![r.l].accepts = Append(@, [s |-> r.s, ctx |-> t])]
                  /\ UNCHANGED <<kout, kctx>>
     ELSE \E ok \in BOOLEAN :
            /\ kout' = [kout EXCEPT ![t] = Append(@, Event(r.op, r.s, ok))]
            /\ kl' = IF r.op = "listen" /\ ok THEN [kl EXCEPT ![r.s] = [NoListener EXCEPT !.ctx = t]] ELSE kl
            /\ kctx' = IF r.op \in {"connect", "move"} /\ ok THEN [kctx EXCEPT ![r.s] = t] ELSE kctx
  /\ kin' = [kin EXCEPT ![t] = Tail(@)]
  /\ UNCHANGED <<so, came, th, handed, aborted>>

(* A connection comes in: the listener's context hears of it, and an       *)
(* accept that waits gets it.                                              *)
Incoming(l) ==
  /\ kl[l].ctx # Nil /\ came < MaxConns /\ came' = came + 1
  /\ LET k1 == [kout EXCEPT ![kl[l].ctx] = Append(@, Event("newconn", l, TRUE))]
         a == Head(kl[l].accepts)
     IN IF kl[l].accepts = <<>>
        THEN kl' = [kl EXCEPT ![l].waiting = @ + 1] /\ kout' = k1 /\ UNCHANGED kctx
        ELSE /\ kl' = [kl EXCEPT ![l].accepts = Tail(@)]
             /\ kout' = [k1 EXCEPT ![a.ctx] = Append(@, Event("accept", a.s, TRUE))]
             /\ kctx' = [kctx EXCEPT ![a.s] = a.ctx]
  /\ UNCHANGED <<so, kin, th, handed, aborted>>

ThreadStep(t) == Connected(t) \/ Listening(t) \/ AcceptAppend(t) \/ AcceptWait(t) \/ AcceptDone(t) \/ Moved(t)

(* An application that only listens and accepts. *)
ServerNext ==
  /\ aborted = "no"
  /\ \/ \E t \in Threads :
          \/ ThreadStep(t) \/ Poll(t) \/ KernelRequest(t) \/ \E nb \in BOOLEAN : Socket(t, nb)
          \/ \E s \in Addrs : Listen(t, s) \/ AcceptAgain(t, s) \/ AcceptNew(t, s) \/ Close(t, s)
     \/ \E l \in Addrs : Incoming(l)

Next ==
  \/ ServerNext
  \/ aborted = "no" /\ \E t \in Threads, s \in Addrs : Connect(t, s) \/ Move(t, s)

(* Threads and the kernel run, an application whose listener is readable   *)
(* calls accept, and it polls in between (a non-blocking accept does not). *)
Fairness ==
  /\ \A t \in Threads : WF_vars(ThreadStep(t)) /\ SF_vars(Poll(t)) /\ WF_vars(KernelRequest(t))
  /\ \A l \in Addrs : SF_vars(so[l].epin /\ \E t \in Threads : AcceptAgain(t, l) \/ AcceptNew(t, l))

Spec == Init /\ [][Next]_vars /\ Fairness
-----------------------------------------------------------------------------
(* Types of the sockets and the threads: each kind of socket has its own   *)
(* statuses.                                                               *)
TypeOK ==
  /\ \A s \in Addrs : /\ \/ so[s].type \in {"free", "socket"} /\ so[s].status = "none"
                         \/ so[s].type = "conn" /\ so[s].status \in {"connecting", "connected", "failed"}
                         \/ so[s].type = "listener" /\ so[s].status \in {"opening", "open", "failed"}
                      /\ so[s].listener \in Addrs \cup {Nil} /\ so[s].ctx \in Threads \cup {Nil}
  /\ handed \subseteq Addrs

Queued(op, s) == \E t \in Threads : \E i \in DOMAIN kout[t] : kout[t][i].op = op /\ kout[t][i].s = s
AcceptAsked(l) ==
  \/ kl[l].accepts # <<>>
  \/ \E t \in Threads : \E i \in DOMAIN kin[t] : kin[t][i].op = "accept" /\ kin[t][i].l = l
  \/ \E s \in Addrs : so[s].listener = l /\ Queued("accept", s)

(* No connection is forgotten: while one waits in the kernel and no accept *)
(* is on its way to it, or one was accepted and not returned, the listener *)
(* is readable or about to be.                                             *)
NoneForgotten ==
  \A l \in Addrs : so[l].type = "listener" /\ aborted = "no" =>
    /\ kl[l].waiting > 0 /\ ~AcceptAsked(l) => so[l].epin \/ Queued("newconn", l)
    /\ \A i \in DOMAIN so[l].pending : so[so[l].pending[i].s].status = "connected" =>
         \/ so[l].epin
         \/ \E t \in Threads : th[t].s = l /\ th[t].ns = so[l].pending[i].s

(* A connection is returned by one accept: it is not pending any more, and *)
(* the accepts pending on a listener are of different contexts.            *)
AcceptedOnce ==
  \A l \in Addrs : so[l].type = "listener" =>
    \A i \in DOMAIN so[l].pending :
      /\ so[l].pending[i].s \notin handed /\ so[so[l].pending[i].s].listener = l
      /\ \A j \in DOMAIN so[l].pending : so[l].pending[j].ctx = so[l].pending[i].ctx => i = j

(* The context kept in a connected socket is the one the kernel delivers   *)
(* to, whatever moves were refused.                                        *)
ContextAgrees ==
  \A s \in Addrs : Is(s, "conn", "connected") /\ so[s].move = "none" => so[s].ctx = kctx[s]

(* Every connection that comes in is returned by an accept, unless memory *)
(* for sockets runs out and stays out.                                     *)
Accepted ==
  \A n \in 1..MaxConns :
    (came = n) ~> (Cardinality(handed) >= n \/ [](\A a \in Addrs : so[a].type # "free"))

(* Events find the socket they are for: the assertions of the handlers     *)
(* hold.                                                                   *)
EventsFindSocket == aborted # "event"

(* accept4 finds its entry in the list of the listener. *)
EntryFound == aborted # "list"
=============================================================================
