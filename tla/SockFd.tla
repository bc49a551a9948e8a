------------------------------- MODULE SockFd -------------------------------
(***************************************************************************)
(* File descriptors of the socket layer: the handle table of               *)
(* sockets/manage_fd.c, the libc interposition of sockets/interpose.c with *)
(* its one-time initialisation and its Linux companion sockets, and the    *)
(* operations that create and close descriptors.  Several threads run      *)
(* them; a step is what happens between two system calls or two shared     *)
(* writes.  The kernel hands out the lowest free descriptor.               *)
(***************************************************************************)
EXTENDS Integers, FiniteSets

CONSTANTS Threads,
          NFds,     \* descriptors 0..NFds - 1 of the process; 0 is in use
          MaxSock,  \* MAXSOCK: entries of the handle table
          Addrs,    \* addresses malloc may return for a struct socket
          Nil

FdAssumption ==
  /\ NFds \in Nat \ {0} /\ MaxSock \in 1..NFds
  /\ IsFiniteSet(Threads) /\ IsFiniteSet(Addrs) /\ Nil \notin Addrs /\ Nil \notin Threads
  /\ Nil \notin 0..NFds - 1 /\ "libc" \notin Addrs

VARIABLES
  kernel,    \* what a descriptor is in the kernel, "free" when closed
  fhs,       \* handle table: type, and the socket for FH_SOCKET
  linux_fd,  \* map[].linux_fd, 0 where never set
  heap,      \* allocated struct sockets
  pc, fd, so,\* per thread: next step, descriptor and socket it works on
  boot,      \* "none", "running" by one thread, "bound" to libc, "done"
  aborted    \* an assertion failed and the process is gone

vars == <<kernel, fhs, linux_fd, heap, pc, fd, so, boot, aborted>>
tvars == <<pc, fd, so>>

Fds == 0..NFds - 1
Unused == [type |-> "unused", s |-> Nil]
Lowest == CHOOSE f \in Fds : kernel[f] = "free" /\ \A g \in 0..f - 1 : kernel[g] # "free"
Full == \A f \in Fds : kernel[f] # "free"

Init ==
  /\ kernel = [f \in Fds |-> IF f = 0 THEN "linux" ELSE "free"]
  /\ fhs = [f \in 0..MaxSock - 1 |-> Unused]
  /\ linux_fd = [f \in 0..MaxSock - 1 |-> 0]
  /\ heap = {} /\ boot = "none" /\ aborted = FALSE
  /\ pc = [t \in Threads |-> "app"]
  /\ fd = [t \in Threads |-> Nil] /\ so = [t \in Threads |-> Nil]

Goto(t, l) == pc' = [pc EXCEPT ![t] = l]
Return(t) ==
  /\ Goto(t, "ready") /\ fd' = [fd EXCEPT ![t] = Nil] /\ so' = [so EXCEPT ![t] = Nil]
-----------------------------------------------------------------------------
(* ensure_init at the first call of a thread: the counter lets one thread  *)
(* initialise and the others wait for init_done.                           *)
EnsureInit(t) ==
  /\ pc[t] = "app"
  /\ CASE boot = "none" -> boot' = "running" /\ Goto(t, "bind")
       [] boot = "done" -> boot' = boot /\ Goto(t, "ready")
       [] OTHER -> boot' = boot /\ Goto(t, "wait")
  /\ UNCHANGED <<kernel, fhs, linux_fd, heap, fd, so, aborted>>

(* init binds the libc symbols. *)
BindSymbols(t) ==
  /\ pc[t] = "bind" /\ boot' = "bound" /\ Goto(t, "lwip")
  /\ UNCHANGED <<kernel, fhs, linux_fd, heap, fd, so, aborted>>

(* lwip_init connects to the kernel over a Unix socket: the nested calls   *)
(* of the socket functions pass ensure_init because in_init is set, and go *)
(* on to libc.  init_done is set at the end.                               *)
LwipInit(t) ==
  /\ pc[t] = "lwip" /\ ~Full
  /\ kernel' = [kernel EXCEPT ![Lowest] = "internal"]
  /\ boot' = "done" /\ Goto(t, "ready")
  /\ UNCHANGED <<fhs, linux_fd, heap, fd, so, aborted>>

Waited(t) ==
  /\ pc[t] = "wait" /\ boot = "done" /\ Goto(t, "ready")
  /\ UNCHANGED <<kernel, fhs, linux_fd, heap, fd, so, boot, aborted>>
-----------------------------------------------------------------------------
(* flextcp_fd_salloc: allocate and reserve a descriptor with an eventfd.   *)
(* Without a descriptor, or with one beyond the table, it fails.  socket() *)
(* makes a companion for the socket, accept() accepts one on the           *)
(* listener's companion, accept4() makes none.                             *)
Salloc(t, next) ==
  /\ pc[t] = "ready" /\ ~Full /\ Lowest < MaxSock
  /\ \E s \in Addrs \ heap :
       /\ heap' = heap \cup {s} /\ so' = [so EXCEPT ![t] = s]
       /\ kernel' = [kernel EXCEPT ![Lowest] = "event"]
       /\ fd' = [fd EXCEPT ![t] = Lowest]
  /\ Goto(t, next)
  /\ UNCHANGED <<fhs, linux_fd, boot, aborted>>

(* The table entry is filled, in socket() or in accept. *)
SallocSet(t) ==
  /\ pc[t] \in {"socket", "accept4"}
  /\ fhs' = [fhs EXCEPT ![fd[t]] = [type |-> "socket", s |-> so[t]]]
  /\ IF pc[t] = "socket" THEN Goto(t, "companion") /\ UNCHANGED <<fd, so>> ELSE Return(t)
  /\ UNCHANGED <<kernel, linux_fd, heap, boot, aborted>>

(* The companion, -1 when libc has no descriptor left. *)
Companion(t) ==
  /\ pc[t] = "companion"
  /\ IF Full THEN linux_fd' = [linux_fd EXCEPT ![fd[t]] = -1] /\ UNCHANGED kernel
     ELSE /\ linux_fd' = [linux_fd EXCEPT ![fd[t]] = Lowest]
          /\ kernel' = [kernel EXCEPT ![Lowest] = "companion"]
  /\ Return(t)
  /\ UNCHANGED <<fhs, heap, boot, aborted>>

(* socket() for anything but TCP, and any other open of the application. *)
OtherOpen(t) ==
  /\ pc[t] = "ready" /\ ~Full
  /\ kernel' = [kernel EXCEPT ![Lowest] = "linux"]
  /\ UNCHANGED <<fhs, linux_fd, heap, tvars, boot, aborted>>

(* epoll_create1: libc makes the descriptor, flextcp_fd_ealloc asserts     *)
(* that the table entry is free and fills it.                              *)
EpollCreate(t) ==
  /\ pc[t] = "ready" /\ ~Full /\ Lowest < MaxSock
  /\ kernel' = [kernel EXCEPT ![Lowest] = "epoll"]
  /\ fd' = [fd EXCEPT ![t] = Lowest] /\ Goto(t, "ealloc")
  /\ UNCHANGED <<fhs, linux_fd, heap, so, boot, aborted>>

Ealloc(t) ==
  /\ pc[t] = "ealloc"
  /\ aborted' = (fhs[fd[t]].type # "unused")
  /\ fhs' = [fhs EXCEPT ![fd[t]] = [type |-> "epoll", s |-> Nil]]
  /\ Return(t)
  /\ UNCHANGED <<kernel, linux_fd, heap, boot>>
-----------------------------------------------------------------------------
(* Descriptors an application may close: its own, and each once. *)
Closable(f) ==
  /\ f # 0 /\ kernel[f] \in {"event", "linux", "epoll"}
  /\ \A t \in Threads : fd[t] # f
  /\ kernel[f] = "event" => fhs[f].type = "socket"

(* Mutation of CloseReset: the descriptor is closed before the entry is    *)
(* reset.                                                                  *)
CloseResetLate(t) ==
  /\ pc[t] = "ready"
  /\ \E f \in 0..MaxSock - 1 :
       /\ Closable(f) /\ fhs[f].type = "socket"
       /\ fd' = [fd EXCEPT ![t] = f] /\ so' = [so EXCEPT ![t] = fhs[f].s]
       /\ kernel' = [kernel EXCEPT ![f] = "free"]
  /\ Goto(t, "free")
  /\ UNCHANGED <<fhs, linux_fd, heap, boot, aborted>>

(* close() of one of our sockets: flextcp_fd_close first gives up the      *)
(* table entry ...                                                         *)
CloseReset(t) ==
  /\ pc[t] = "ready"
  /\ \E f \in 0..MaxSock - 1 :
       /\ Closable(f) /\ fhs[f].type = "socket"
       /\ fd' = [fd EXCEPT ![t] = f] /\ so' = [so EXCEPT ![t] = fhs[f].s]
       /\ fhs' = [fhs EXCEPT ![f] = Unused]
  /\ Goto(t, "close")
  /\ UNCHANGED <<kernel, linux_fd, heap, boot, aborted>>

(* ... then closes the descriptor, through the interposed close, which     *)
(* finds no entry and passes the call to libc ...                          *)
CloseKernel(t) ==
  /\ pc[t] = "close"
  /\ kernel' = [kernel EXCEPT ![fd[t]] = "free"]
  /\ Goto(t, "free")
  /\ UNCHANGED <<fhs, linux_fd, heap, fd, so, boot, aborted>>

(* ... and frees the socket.  The companion stays open. *)
CloseFree(t) ==
  /\ pc[t] = "free" /\ heap' = heap \ {so[t]} /\ Return(t)
  /\ UNCHANGED <<kernel, fhs, linux_fd, boot, aborted>>

(* close() of any other descriptor goes to libc; the table is not touched. *)
CloseOther(t) ==
  /\ pc[t] = "ready"
  /\ \E f \in Fds : /\ Closable(f)
                    /\ f < MaxSock => fhs[f].type # "socket"
                    /\ kernel' = [kernel EXCEPT ![f] = "free"]
  /\ UNCHANGED <<fhs, linux_fd, heap, tvars, boot, aborted>>

Step(t) ==
  \/ EnsureInit(t) \/ BindSymbols(t) \/ LwipInit(t) \/ Waited(t)
  \/ Salloc(t, "socket") \/ Salloc(t, "accept4") \/ SallocSet(t) \/ Companion(t)
  \/ OtherOpen(t) \/ EpollCreate(t) \/ Ealloc(t)
  \/ CloseReset(t) \/ CloseKernel(t) \/ CloseFree(t) \/ CloseOther(t)

Next == ~aborted /\ \E t \in Threads : Step(t)

(* A thread that was started runs on. *)
Fairness == \A t \in Threads : WF_vars(~aborted /\ (BindSymbols(t) \/ LwipInit(t) \/ Waited(t)))

Spec == Init /\ [][Next]_vars /\ Fairness
-----------------------------------------------------------------------------
(* Where the interposed calls of sockets/interpose.c go: to the socket     *)
(* flextcp_fd_slookup finds, or to libc.                                   *)
Dispatch(f) ==
  IF f < MaxSock /\ fhs[f].type = "socket" THEN fhs[f].s ELSE "libc"

(* The descriptor on which bind, listen, fcntl and setsockopt repeat the   *)
(* call, for a socket of ours.                                             *)
Repeated(f) == linux_fd[f]

(* Types of the tables and the threads: the table is indexed within its    *)
(* bounds.                                                                 *)
TypeOK ==
  /\ fd \in [Threads -> 0..MaxSock - 1 \cup {Nil}]
  /\ kernel \in [Fds -> {"free", "event", "linux", "epoll", "companion", "internal"}]
  /\ \A f \in DOMAIN fhs : fhs[f].type \in {"unused", "socket", "epoll"} /\ fhs[f].s \in Addrs \cup {Nil}
  /\ linux_fd \in [0..MaxSock - 1 -> -1..NFds - 1] /\ heap \subseteq Addrs

(* A call on a descriptor reaches the socket the descriptor was reserved   *)
(* for and never freed memory, one that is no socket reaches libc, and two *)
(* descriptors never share a socket, although descriptors and memory are   *)
(* reused at once by other threads.                                        *)
DispatchSound ==
  /\ \A f \in Fds : Dispatch(f) # "libc" => kernel[f] = "event" /\ Dispatch(f) \in heap
  /\ \A f, g \in Fds : Dispatch(f) = Dispatch(g) /\ f # g => Dispatch(f) = "libc"
  /\ \A f \in Fds : kernel[f] = "event" /\ Dispatch(f) = "libc" =>
       \E t \in Threads : fd[t] = f

(* The Linux calls that bind, listen, fcntl and setsockopt repeat on the   *)
(* companion never reach a descriptor that is something else by now.       *)
CompanionsSound ==
  \A f \in 0..MaxSock - 1 : Repeated(f) > 0 =>
    /\ kernel[Repeated(f)] = "companion"
    /\ \A g \in 0..MaxSock - 1 : Repeated(g) = Repeated(f) => g = f

(* No thread runs a socket function before the libc symbols are bound and  *)
(* the library is connected.                                               *)
InitFirst == \A t \in Threads : pc[t] \notin {"app", "bind", "lwip", "wait"} => boot = "done"

(* What the descriptors promise, whatever other threads do: a call reaches *)
(* the socket its descriptor was reserved for, a repeated one the          *)
(* companion of that socket, and none comes before the initialisation.     *)
DescriptorsSound == TypeOK /\ DispatchSound /\ CompanionsSound /\ InitFirst

(* Every thread gets past the initialisation, also the one that runs it    *)
(* and calls socket functions from inside.                                 *)
InitEnds == \A t \in Threads : pc[t] \in {"bind", "lwip", "wait"} ~> pc[t] = "ready" \/ aborted

(* A new epoll descriptor finds its table entry unused.                    *)
EpollEntryFree == ~aborted
=============================================================================
