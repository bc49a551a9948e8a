------------------------------- MODULE AppIf --------------------------------
(***************************************************************************)
(* Setting up application contexts (kernel/appif.c, stack/kernel.c): the   *)
(* thread of the kernel that serves the Unix sockets of applications, the  *)
(* main thread that registers contexts, the queues between them, and the   *)
(* library's side.  File descriptors are numbers that are used again.      *)
(***************************************************************************)
EXTENDS Naturals, Sequences, SequencesExt, FiniteSets, Functions

CONSTANTS Procs, NFds, MaxCtx,
          Doorbells, AppstNum, CtxNum,  \* limits of doorbells, application ids, contexts of one
          Fail,   \* allocations fail, and memory that nobody initialised is not zero
          Crash,  \* a process may end while it waits for the kernel
          Nil

AppIfAssumption ==
  /\ {NFds, MaxCtx, Doorbells, AppstNum, CtxNum} \subseteq Nat /\ {Fail, Crash} \subseteq BOOLEAN
  /\ Nil \notin Procs

VARIABLES
  proc,      \* per process: step, contexts it got, responses it can read
  pend,      \* processes in the backlog of the listening socket, oldest first
  req,       \* processes whose request is in their socket
  fds,       \* per descriptor of the kernel: process at the other end, entry in the epoll set
  st,        \* the struct application of a process
  batch,     \* events of epoll_wait still to be handled
  uxq, pq,   \* ux_to_poll and poll_to_ux
  notified,  \* notifyfd is readable
  apps,      \* the list of the main thread
  free,      \* free doorbells
  ids,       \* app_id_next
  dead       \* the kernel process was killed

vars == <<proc, pend, req, fds, st, batch, uxq, pq, notified, apps, free, ids, dead>>
lists == <<uxq, pq, notified, apps, free, ids, dead>>

Closed == [peer |-> Nil, ptr |-> Nil, in |-> FALSE]
NoApp == [fd |-> 0, id |-> 0, need |-> FALSE, ctxs |-> 0, reg |-> 0, ready |-> 0, closed |-> FALSE]

Init ==
  /\ proc = [p \in Procs |-> [pc |-> "start", n |-> 0, inbox |-> <<>>]]
  /\ pend = <<>> /\ req = {} /\ batch = {} /\ uxq = <<>> /\ pq = <<>> /\ apps = {}
  /\ fds = [f \in 1..NFds |-> Closed] /\ st = [p \in Procs |-> NoApp]
  /\ notified = FALSE /\ free = Doorbells /\ ids = 0 /\ dead = FALSE

Gone(p) == proc[p].pc = "gone"
Served(p) == \E f \in 1..NFds : fds[f].peer = p
-----------------------------------------------------------------------------
(* flextcp_kernel_connect: succeeds at once, then waits for the welcome    *)
(* message and the descriptors.                                            *)
Connect(p) ==
  /\ proc[p].pc = "start" /\ proc' = [proc EXCEPT ![p].pc = "welcome"]
  /\ pend' = Append(pend, p)
  /\ UNCHANGED <<req, fds, st, batch, lists>>

(* flextcp_kernel_newctx sends a request (one at a time: the socket layer  *)
(* takes a mutex) and reads the response; end of file is not noticed.      *)
Newctx(p) ==
  /\ proc[p].pc = "up" /\ proc[p].n < MaxCtx /\ Served(p)
  /\ proc' = [proc EXCEPT ![p].pc = "asked"] /\ req' = req \cup {p}
  /\ UNCHANGED <<pend, fds, st, batch, lists>>

NewctxDone(p) ==
  /\ proc[p].pc = "asked" /\ proc[p].inbox # <<>>
  /\ proc' = [proc EXCEPT ![p] = [pc |-> "up", n |-> @.n + 1, inbox |-> Tail(@.inbox)]]
  /\ UNCHANGED <<pend, req, fds, st, batch, lists>>

(* A process ends; impolitely, while it waits. *)
Exit(p) ==
  /\ proc[p].pc \in IF Crash THEN {"welcome", "up", "asked"} ELSE {"up"}
  /\ proc' = [proc EXCEPT ![p] = [pc |-> "gone", n |-> 0, inbox |-> <<>>]] /\ req' = req \ {p}
  /\ UNCHANGED <<pend, fds, st, batch, lists>>
-----------------------------------------------------------------------------
Ready ==
  (IF pend # <<>> THEN {[k |-> "listen", p |-> Nil]} ELSE {})
  \cup (IF notified THEN {[k |-> "notify", p |-> Nil]} ELSE {})
  \cup {[k |-> "error", p |-> fds[f].ptr] : f \in {g \in 1..NFds : fds[g].ptr # Nil /\ Gone(fds[g].peer)}}
  \cup {[k |-> "in", p |-> fds[f].ptr] : f \in {g \in 1..NFds : fds[g].in /\ fds[g].peer \in req}}

(* uxsocket_thread: all events that are there are fetched, then handled    *)
(* one after the other.                                                    *)
EpollWait ==
  /\ batch = {} /\ Ready # {} /\ batch' = Ready
  /\ UNCHANGED <<proc, pend, req, fds, st, lists>>

Handling(k, p) == [k |-> k, p |-> p] \in batch /\ batch' = batch \ {[k |-> k, p |-> p]}

(* uxsocket_error, of either thread: the descriptor is closed, whoever has *)
(* it now.                                                                 *)
UxError(p) ==
  /\ fds' = [fds EXCEPT ![st[p].fd] = Closed]
  /\ st' = [st EXCEPT ![p].closed = TRUE]

(* uxsocket_accept: a welcome, a new struct with the next id, an entry in  *)
(* the epoll set.  Writing to a process that is gone kills the kernel.     *)
UxAccept ==
  /\ Handling("listen", Nil) /\ pend' = Tail(pend)
  /\ \E f \in 1..NFds, p \in {Head(pend)} :
       /\ fds[f].peer = Nil /\ \A g \in 1..f - 1 : fds[g].peer # Nil
       /\ \/ Gone(p) /\ dead' = TRUE /\ UNCHANGED <<proc, fds, st, uxq, ids>>
          \/ /\ ~Gone(p) /\ proc' = [proc EXCEPT ![p].pc = "up"]
             /\ fds' = [fds EXCEPT ![f] = [peer |-> p, ptr |-> p, in |-> TRUE]]
             /\ st' = [st EXCEPT ![p] = [NoApp EXCEPT !.fd = f, !.id = ids]]
             /\ ids' = ids + 1 /\ uxq' = Append(uxq, p) /\ UNCHANGED dead
          \/ Fail /\ ~Gone(p) /\ proc' = [proc EXCEPT ![p].pc = "up"] /\ UNCHANGED <<fds, st, uxq, ids, dead>>
  /\ UNCHANGED <<req, pq, notified, apps, free>>

UxHangup(p) ==
  /\ Handling("error", p) /\ UxError(p)
  /\ UNCHANGED <<proc, pend, req, lists>>

(* Mutation of Mask: EPOLLIN stays on. *)
MaskOff(f) == UNCHANGED fds

(* No longer wait for requests until the completion. *)
Mask(f) == fds' = [fds EXCEPT ![f].in = FALSE]

(* uxsocket_receive: the request is read, a context allocated and handed   *)
(* to the main thread, and the socket is masked until that is done.        *)
UxReceive(p) ==
  LET f == st[p].fd
      r == fds[f].peer IN
  /\ Handling("in", p)
  /\ \/ r = Nil /\ UxError(p) /\ UNCHANGED <<req, free>>
     \/ /\ r \in req /\ req' = req \ {r}
        /\ \/ /\ free > 0 /\ free' = free - 1 /\ Mask(f)
              /\ st' = [st EXCEPT ![p].need = TRUE, ![p].ctxs = @ + 1]
           \/ (Fail \/ free = 0) /\ UxError(p) /\ UNCHANGED free
  /\ UNCHANGED <<proc, pend, uxq, pq, notified, apps, ids, dead>>

(* uxsocket_notify: the eventfd is read and the queue emptied. *)
UxNotify ==
  /\ [k |-> "notify", p |-> Nil] \in batch /\ notified' = FALSE
  /\ batch' = (batch \ {[k |-> "notify", p |-> Nil]}) \cup {[k |-> "drain", p |-> Nil]}
  /\ UNCHANGED <<proc, pend, req, fds, st, uxq, pq, apps, free, ids, dead>>

UxDrained ==
  /\ Handling("drain", Nil) /\ pq = <<>>
  /\ UNCHANGED <<proc, pend, req, fds, st, lists>>

(* uxsocket_notify_app: the context is ready, the response goes to the     *)
(* descriptor, and requests are waited for again.  The status it tests     *)
(* first was never set.                                                    *)
UxNotifyApp ==
  /\ [k |-> "drain", p |-> Nil] \in batch /\ pq # <<>> /\ pq' = Tail(pq)
  /\ LET p == Head(pq)
         f == st[p].fd
         r == fds[f].peer
     IN \/ (r = Nil \/ Fail) /\ UxError(p) /\ UNCHANGED <<proc, dead>>
        \/ r # Nil /\ Gone(r) /\ dead' = TRUE /\ UNCHANGED <<proc, fds, st>>
        \/ /\ r # Nil /\ ~Gone(r) /\ proc' = [proc EXCEPT ![r].inbox = Append(@, p)]
           /\ st' = [st EXCEPT ![p].ready = @ + 1]
           /\ fds' = [fds EXCEPT ![f].ptr = p, ![f].in = TRUE] /\ UNCHANGED dead
  /\ UNCHANGED <<pend, req, batch, uxq, notified, apps, free, ids>>
-----------------------------------------------------------------------------
(* appif_poll on the main thread: new applications ... *)
PollNew ==
  /\ uxq # <<>> /\ uxq' = Tail(uxq) /\ apps' = apps \cup {Head(uxq)}
  /\ UNCHANGED <<proc, pend, req, fds, st, batch, pq, notified, free, ids, dead>>

(* nicif_appctx_add refuses high ids and the last context of a table. *)
Registered(p, ok) == IF ok THEN st[p].id < AppstNum /\ st[p].reg + 1 < CtxNum
                     ELSE Fail \/ st[p].id >= AppstNum \/ st[p].reg + 1 >= CtxNum

(* ... and contexts to be registered; the socket thread is notified, or    *)
(* the descriptor closed.                                                  *)
PollReg(p) ==
  /\ p \in apps /\ st[p].need
  /\ \/ /\ Registered(p, TRUE)
        /\ st' = [st EXCEPT ![p].need = FALSE, ![p].reg = @ + 1]
        /\ pq' = Append(pq, p) /\ notified' = TRUE /\ UNCHANGED fds
     \/ /\ Registered(p, FALSE) /\ fds' = [fds EXCEPT ![st[p].fd] = Closed]
        /\ st' = [st EXCEPT ![p].need = FALSE, ![p].closed = TRUE] /\ UNCHANGED <<pq, notified>>
  /\ UNCHANGED <<proc, pend, req, batch, uxq, apps, free, ids, dead>>

UxStep == EpollWait \/ UxAccept \/ UxNotify \/ UxDrained \/ UxNotifyApp \/ \E p \in Procs : UxHangup(p) \/ UxReceive(p)
MainStep == PollNew \/ \E p \in Procs : PollReg(p)

Next ==
  /\ ~dead
  /\ UxStep \/ MainStep \/ \E p \in Procs : Connect(p) \/ Newctx(p) \/ NewctxDone(p) \/ Exit(p)

(* Both threads and the reading process run. *)
Fairness == WF_vars(UxStep) /\ WF_vars(MainStep) /\ \A p \in Procs : WF_vars(NewctxDone(p))

Spec == Init /\ [][Next]_vars /\ Fairness
-----------------------------------------------------------------------------
(* Types, and one descriptor per process. *)
TypeOK ==
  /\ \A p \in Procs : proc[p].n <= MaxCtx /\ st[p].fd \in 0..NFds /\ proc[p].inbox \in Seq(Procs)
  /\ free \in 0..Doorbells /\ free + FoldFunction(+, 0, [p \in Procs |-> st[p].ctxs]) = Doorbells
  /\ \A f, g \in 1..NFds : fds[f].peer # Nil /\ fds[f].peer = fds[g].peer => f = g

(* A request has exactly one place on its way: the socket, the main        *)
(* thread, the completion queue or the response; it is lost only when the  *)
(* kernel closed the socket, and until it is answered no other is read.    *)
OnePlace ==
  \A p \in Procs : proc[p].pc = "asked" /\ Served(p) =>
    /\ Len(proc[p].inbox) + Cardinality({i \in DOMAIN pq : pq[i] = p})
         + (IF p \in req THEN 1 ELSE 0) + (IF st[p].need THEN 1 ELSE 0) = 1
    /\ st[p].need \/ p \in ToSet(pq) => \A f \in 1..NFds : fds[f].ptr = p => ~fds[f].in

(* A process is told of a context only after the context was registered    *)
(* with the fast path: the counts never overtake each other.               *)
ReadyRegistered ==
  \A p \in Procs : /\ proc[p].n + Len(proc[p].inbox) <= st[p].ready /\ st[p].ready <= st[p].reg
                   /\ st[p].reg <= st[p].ctxs

(* A response reaches the process it is for. *)
RightAnswer == \A p \in Procs : \A i \in DOMAIN proc[p].inbox : proc[p].inbox[i] = p

(* A process that ends does not take the kernel with it. *)
KernelUp == ~dead

(* flextcp_kernel_newctx returns. *)
NewctxReturns == \A p \in Procs : (proc[p].pc = "asked") ~> (proc[p].pc # "asked")
=============================================================================
