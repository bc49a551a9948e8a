------------------------------- MODULE Epoll --------------------------------
(***************************************************************************)
(* The epoll layer of sockets/epoll.c.  Every socket keeps the events that *)
(* are active on it, every epoll descriptor the sockets on it in a list    *)
(* of active and one of inactive ones.  Threads deliver events while they  *)
(* poll their context, call epoll_ctl and epoll_wait, and clear events     *)
(* from recv and accept.  Any thread may call anything on any epoll and    *)
(* nothing is locked.  A list operation is one step; reading the events of *)
(* a socket and acting on them are two.  The lists are sequences, the      *)
(* first element being the head.                                           *)
(***************************************************************************)
EXTENDS Integers, Sequences, SequencesExt, FiniteSets

CONSTANTS Threads, Epolls, Socks,
          Receivers,  \* the threads whose context gets events of a socket
          Events, Err,
          MaxEvents,  \* maxevents of epoll_wait
          Timeouts,   \* timeouts used: -1, 0 and positive
          Nil

EpollAssumption ==
  /\ Receivers \in [Socks -> SUBSET Threads]
  /\ IsFiniteSet(Socks) /\ Err \notin Events
  /\ MaxEvents \in Nat \ {0} /\ Timeouts \subseteq Int /\ Nil \notin Epolls \cup Socks

VARIABLES
  ep_events,        \* events active on a socket
  mask,             \* mask of a socket on an epoll, {} where it is not on it
  active, inactive, \* the lists of an epoll
  pend,             \* events waiting in the context of a thread
  th,               \* what a thread is doing
  startwait,        \* a poll of the thread found nothing since one found something
  early             \* an epoll_wait came back empty-handed before its deadline

vars == <<ep_events, mask, active, inactive, pend, th, startwait, early>>
lists == <<mask, active, inactive>>

Idle == [pc |-> "app", ep |-> Nil, batch |-> {}, s |-> Nil, ev |-> Nil, old |-> {},
         got |-> FALSE, todo |-> 0, out |-> {}, tmo |-> 0, left |-> 0]

Init ==
  /\ ep_events = [s \in Socks |-> {}]
  /\ mask = [e \in Epolls |-> [s \in Socks |-> {}]]
  /\ active = [e \in Epolls |-> <<>>] /\ inactive = [e \in Epolls |-> <<>>]
  /\ pend = [t \in Threads |-> {}]
  /\ th = [t \in Threads |-> Idle] /\ startwait = [t \in Threads |-> FALSE] /\ early = FALSE

On(e, s) == mask[e][s] # {}
Ready(e, s) == ep_events[s] \cap mask[e][s] # {}

(* es_remove_active, es_remove_inactive: the neighbours of a socket are    *)
(* linked with each other.                                                 *)
Unlink(l, s) ==
  IF Contains(l, s)
  THEN LET i == CHOOSE i \in DOMAIN l : l[i] = s
       IN [j \in 1..Len(l) - 1 |-> IF j < i THEN l[j] ELSE l[j + 1]]
  ELSE l

(* es_activate, for all epolls in es: to the end of the active list. *)
Activate(s, es) ==
  LET move == {e \in es : Contains(inactive[e], s)} IN
  /\ active' = [e \in Epolls |-> IF e \in move THEN Append(active[e], s) ELSE active[e]]
  /\ inactive' = [e \in Epolls |-> IF e \in move THEN Unlink(inactive[e], s) ELSE inactive[e]]
-----------------------------------------------------------------------------
(* The stack puts an event into a context. *)
Arrive(t, s, ev) ==
  /\ t \in Receivers[s] /\ <<s, ev>> \notin pend[t]
  /\ pend' = [pend EXCEPT ![t] = @ \cup {<<s, ev>>}]
  /\ UNCHANGED <<ep_events, lists, th, early, startwait>>

(* flextcp_epoll_set reads the events of the socket ... *)
SetRead(t) ==
  /\ th[t].pc = "poll"
  /\ \E x \in th[t].batch :
       th' = [th EXCEPT ![t].pc = "set", ![t].batch = @ \ {x}, ![t].s = x[1], ![t].ev = x[2],
                        ![t].old = ep_events[x[1]]]
  /\ UNCHANGED <<ep_events, lists, pend, early, startwait>>

(* ... and, if the event is new, adds it and activates the socket on every *)
(* epoll that asked for it.                                                *)
SetWrite(t) ==
  /\ th[t].pc = "set"
  /\ LET s == th[t].s   ev == th[t].ev IN
       IF ev \in th[t].old THEN UNCHANGED <<ep_events, active, inactive>>
       ELSE /\ ep_events' = [ep_events EXCEPT ![s] = th[t].old \cup {ev}]
            /\ Activate(s, {e \in Epolls : ev \in mask[e][s]})
  /\ th' = [th EXCEPT ![t].pc = "poll", ![t].s = Nil, ![t].ev = Nil, ![t].old = {}]
  /\ UNCHANGED <<mask, pend, early, startwait>>

(* flextcp_epoll_clear, from a receive or an accept that found nothing. *)
ClearRead(t, s, ev) ==
  /\ th[t].pc = "app" /\ ev \in ep_events[s]
  /\ th' = [th EXCEPT ![t].pc = "clear", ![t].s = s, ![t].ev = ev, ![t].old = ep_events[s]]
  /\ UNCHANGED <<ep_events, lists, pend, early, startwait>>

ClearWrite(t) ==
  /\ th[t].pc = "clear"
  /\ ep_events' = [ep_events EXCEPT ![th[t].s] = th[t].old \ {th[t].ev}]
  /\ th' = [th EXCEPT ![t] = Idle]
  /\ UNCHANGED <<lists, pend, early, startwait>>
-----------------------------------------------------------------------------
(* EPOLL_CTL_ADD, a socket that is not on the epoll: to the inactive list, *)
(* and to the active one if an event it asks for is active.                *)
CtlAdd(t, e, s, m) ==
  /\ th[t].pc = "app" /\ ~On(e, s)
  /\ mask' = [mask EXCEPT ![e][s] = m \cup {Err}]
  /\ IF ep_events[s] \cap (m \cup {Err}) # {}
     THEN active' = [active EXCEPT ![e] = Append(@, s)] /\ UNCHANGED inactive
     ELSE inactive' = [inactive EXCEPT ![e] = <<s>> \o @] /\ UNCHANGED active
  /\ UNCHANGED <<ep_events, pend, th, early, startwait>>

(* Mutation of CtlMod: the new mask is not compared with the events. *)
CtlModQuiet(t, e, s, m) ==
  /\ th[t].pc = "app" /\ On(e, s)
  /\ mask' = [mask EXCEPT ![e][s] = m \cup {Err}]
  /\ UNCHANGED <<active, inactive, ep_events, pend, th, early, startwait>>

(* EPOLL_CTL_MOD. *)
CtlMod(t, e, s, m) ==
  /\ th[t].pc = "app" /\ On(e, s)
  /\ mask' = [mask EXCEPT ![e][s] = m \cup {Err}]
  /\ IF ep_events[s] \cap (m \cup {Err}) # {} THEN Activate(s, {e}) ELSE UNCHANGED <<active, inactive>>
  /\ UNCHANGED <<ep_events, pend, th, early, startwait>>

(* EPOLL_CTL_DEL. *)
CtlDel(t, e, s) ==
  /\ th[t].pc = "app" /\ On(e, s)
  /\ mask' = [mask EXCEPT ![e][s] = {}]
  /\ active' = [active EXCEPT ![e] = Unlink(@, s)]
  /\ inactive' = [inactive EXCEPT ![e] = Unlink(@, s)]
  /\ UNCHANGED <<ep_events, pend, th, early, startwait>>
-----------------------------------------------------------------------------
(* epoll_wait: poll the context first. *)
WaitCall(t, e, tmo) ==
  /\ th[t].pc = "app"
  /\ th' = [th EXCEPT ![t] = [Idle EXCEPT !.pc = "poll", !.ep = e, !.batch = pend[t],
                                          !.got = pend[t] # {}, !.tmo = tmo, !.left = tmo]]
  /\ pend' = [pend EXCEPT ![t] = {}]
  /\ UNCHANGED <<ep_events, lists, early, startwait>>

(* All events of the poll are delivered; the active list is scanned. *)
PollDone(t) ==
  /\ th[t].pc = "poll" /\ th[t].batch = {}
  /\ th' = [th EXCEPT ![t].pc = "scan", ![t].todo = Len(active[th[t].ep])]
  /\ startwait' = [startwait EXCEPT ![t] = ~th[t].got]
  /\ UNCHANGED <<ep_events, lists, pend, early>>

(* Nothing came in this poll, nor in an earlier one a while ago: block      *)
(* until an event comes or for the timeout, then poll again.               *)
Block(t) ==
  /\ th[t].pc = "poll" /\ ~th[t].got /\ startwait[t]
  /\ th' = [th EXCEPT ![t].pc = "blocked"]
  /\ startwait' = [startwait EXCEPT ![t] = FALSE]
  /\ UNCHANGED <<ep_events, lists, pend, early>>

Wake(t) ==
  /\ th[t].pc = "blocked" /\ (pend[t] # {} \/ (th[t].tmo >= 0 /\ th[t].left <= 0))
  /\ th' = [th EXCEPT ![t].pc = "poll", ![t].batch = pend[t], ![t].got = pend[t] # {}]
  /\ pend' = [pend EXCEPT ![t] = {}]
  /\ UNCHANGED <<ep_events, lists, early, startwait>>

(* Mutation of Pushback: a reported socket stays at the head. *)
PushbackNot(l) == l

(* es_active_pushback, for the head. *)
Pushback(l) == Append(Tail(l), Head(l))

(* There is a socket left to look at, and room to report it. *)
Scanning(t) ==
  /\ th[t].pc = "scan" /\ th[t].todo > 0 /\ active[th[t].ep] # <<>>
  /\ Cardinality(th[t].out) < MaxEvents

(* The head of the active list is ready: report it and move it back. *)
Report(t) ==
  LET e == th[t].ep   s == Head(active[e]) IN
  /\ Scanning(t) /\ Ready(e, s)
  /\ active' = [active EXCEPT ![e] = Pushback(@)]
  /\ th' = [th EXCEPT ![t].todo = @ - 1, ![t].out = @ \cup {s}]
  /\ UNCHANGED <<ep_events, mask, inactive, pend, early, startwait>>

(* It is not: it goes to the inactive list, in a second step.  (If another *)
(* thread takes it off the epoll in between, that step works with freed    *)
(* memory, here one that says it is not active.)                           *)
NotReady(t) ==
  /\ Scanning(t) /\ ~Ready(th[t].ep, Head(active[th[t].ep]))
  /\ th' = [th EXCEPT ![t].pc = "deactivate", ![t].s = Head(active[th[t].ep])]
  /\ UNCHANGED <<ep_events, lists, pend, early, startwait>>

Deactivate(t) ==
  LET e == th[t].ep   s == th[t].s IN
  /\ th[t].pc = "deactivate"
  /\ active' = [active EXCEPT ![e] = Unlink(@, s)]
  /\ inactive' = [inactive EXCEPT ![e] = IF Contains(active[e], s) THEN <<s>> \o @ ELSE @]
  /\ th' = [th EXCEPT ![t].pc = "scan", ![t].todo = @ - 1, ![t].s = Nil]
  /\ UNCHANGED <<ep_events, mask, pend, early, startwait>>

(* The scan ends.  With nothing to report the call goes on for timeout -1, *)
(* or when the deadline has passed (the comparison is the wrong way        *)
(* round), and returns otherwise.                                          *)
WaitAgain(t) ==
  /\ th[t].pc = "scan" /\ ~Scanning(t)
  /\ th[t].out = {} /\ (th[t].tmo = -1 \/ (th[t].tmo > 0 /\ th[t].left < 0))
  /\ th' = [th EXCEPT ![t].pc = "poll", ![t].batch = pend[t], ![t].got = pend[t] # {}, ![t].todo = 0]
  /\ pend' = [pend EXCEPT ![t] = {}]
  /\ UNCHANGED <<ep_events, lists, early, startwait>>

WaitReturn(t) ==
  /\ th[t].pc = "scan" /\ ~Scanning(t)
  /\ th[t].out # {} \/ ~(th[t].tmo = -1 \/ (th[t].tmo > 0 /\ th[t].left < 0))
  /\ early' = (early \/ (th[t].out = {} /\ th[t].tmo > 0 /\ th[t].left > 0))
  /\ th' = [th EXCEPT ![t] = Idle]
  /\ UNCHANGED <<ep_events, lists, pend, startwait>>

(* A millisecond passes; left is the deadline minus the time. *)
Tick(t) ==
  /\ th[t].tmo > 0 /\ th[t].left >= 0 /\ th' = [th EXCEPT ![t].left = @ - 1]
  /\ UNCHANGED <<ep_events, lists, pend, early, startwait>>

WaitSteps(t) ==
  \/ SetRead(t) \/ SetWrite(t) \/ PollDone(t) \/ Wake(t) \/ Report(t) \/ NotReady(t) \/ Deactivate(t)
  \/ WaitAgain(t) \/ WaitReturn(t)

Next ==
  \E t \in Threads :
    \/ \E s \in Socks, ev \in Events : Arrive(t, s, ev) \/ ClearRead(t, s, ev)
    \/ \E e \in Epolls, s \in Socks : CtlDel(t, e, s) \/ \E m \in SUBSET Events : CtlAdd(t, e, s, m) \/ CtlMod(t, e, s, m)
    \/ \E e \in Epolls, tmo \in Timeouts : WaitCall(t, e, tmo)
    \/ WaitSteps(t) \/ Block(t) \/ ClearWrite(t) \/ Tick(t)

(* A thread runs its calls, and the application goes on waiting on an      *)
(* epoll for ever.                                                         *)
Fairness ==
  /\ \A t \in Threads : WF_vars(WaitSteps(t)) /\ WF_vars(ClearWrite(t))
  /\ \A e \in Epolls : SF_vars(\E t \in Threads, tmo \in Timeouts : WaitCall(t, e, tmo))

Spec == Init /\ [][Next]_vars /\ Fairness
-----------------------------------------------------------------------------
(* Types of the events and the masks, and the caller's array is not        *)
(* overrun.                                                                *)
TypeOK ==
  /\ ep_events \in [Socks -> SUBSET Events]
  /\ mask \in [Epolls -> [Socks -> SUBSET (Events \cup {Err})]]
  /\ \A e \in Epolls : active[e] \in Seq(Socks) /\ inactive[e] \in Seq(Socks)
  /\ \A t \in Threads : th[t].todo \in 0..Cardinality(Socks) /\ th[t].out \subseteq Socks
                         /\ Cardinality(th[t].out) <= MaxEvents

(* The two lists hold the sockets of the epoll, each once. *)
ListsSound ==
  \A e \in Epolls :
    /\ ToSet(active[e]) \cap ToSet(inactive[e]) = {}
    /\ ToSet(active[e]) \cup ToSet(inactive[e]) = {s \in Socks : On(e, s)}
    /\ IsInjective(active[e]) /\ IsInjective(inactive[e])

(* The inactive list holds sockets without unmasked events only: no event  *)
(* is lost between the socket, which several epolls share, and a wait.     *)
InactiveQuiet == \A e \in Epolls : \A s \in ToSet(inactive[e]) : ~Ready(e, s)

(* What a thread has read of a socket is not changed by another one until  *)
(* it has acted on it.  The code does not see to that.                     *)
NoRaces ==
  \A t \in Threads : th'[t].pc = th[t].pc =>
    /\ th[t].pc \in {"set", "clear", "deactivate"} => ep_events'[th[t].s] = ep_events[th[t].s]
    /\ th[t].pc = "deactivate" => mask'[th[t].ep][th[t].s] = mask[th[t].ep][th[t].s]

(* What epoll keeps of the events. *)
EventsKept == TypeOK /\ ListsSound /\ InactiveQuiet

(* A ready socket is reported before long although one wait reports no     *)
(* more than MaxEvents and others are always ready.                        *)
Reported ==
  \A e \in Epolls, s \in Socks :
    Ready(e, s) ~> \/ ~Ready(e, s)
                   \/ \E t \in Threads : th[t].ep = e /\ s \in th[t].out

(* A thread that blocks as idle has nothing to report: no socket of its    *)
(* epoll is ready.                                                         *)
BlockedIdle ==
  \A t \in Threads : th[t].pc = "blocked" => \A s \in Socks : ~Ready(th[t].ep, s)

(* A wait with a timeout and nothing to report lasts until the deadline. *)
WaitsOut == ~early
=============================================================================
