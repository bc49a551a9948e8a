---------------------------- MODULE Epoll_proofs ----------------------------
(***************************************************************************)
(* Epoll keeps events, for any number of threads, epolls and sockets:      *)
(* EventsKept, as long as nothing a thread has read of a socket is changed *)
(* by another before the thread has acted on it (NoRaces); a single thread *)
(* needs no such proviso.                                                  *)
(*                                                                         *)
(* The inductive invariant says that what a thread has read is still so.   *)
(***************************************************************************)
EXTENDS Epoll, TLAPS, SequenceTheorems, FiniteSetTheorems

\* Types of what the threads do.
Thread ==
  [pc : {"app", "poll", "set", "clear", "scan", "deactivate", "blocked"}, ep : Epolls \cup {Nil},
   batch : SUBSET (Socks \X Events), s : Socks \cup {Nil}, ev : Events \cup {Nil}, old : SUBSET Events,
   got : BOOLEAN, todo : 0..Cardinality(Socks), out : SUBSET Socks, tmo : Int, left : Int]

Types ==
  /\ ep_events \in [Socks -> SUBSET Events]
  /\ mask \in [Epolls -> [Socks -> SUBSET (Events \cup {Err})]]
  /\ active \in [Epolls -> Seq(Socks)] /\ inactive \in [Epolls -> Seq(Socks)]
  /\ th \in [Threads -> Thread]
  /\ pend \in [Threads -> SUBSET (Socks \X Events)]

\* The lists of an epoll, one with the socket a thread is about to take off.
Lists(e) ==
  /\ ToSet(active[e]) \cap ToSet(inactive[e]) = {}
  /\ ToSet(active[e]) \cup ToSet(inactive[e]) = {s \in Socks : On(e, s)}
  /\ IsInjective(active[e]) /\ IsInjective(inactive[e])

AllLists == \A e \in Epolls : Lists(e)

\* An epoll_wait is on an epoll, and its array has room for the socket it
\* looks at.
Waiting(t) ==
  /\ th[t].pc \in {"poll", "set", "scan", "deactivate", "blocked"} => th[t].ep \in Epolls
  /\ Cardinality(th[t].out) <= MaxEvents
  /\ th[t].pc = "deactivate" => th[t].todo > 0

\* What a thread has read of a socket is still so.
StillSo(t) ==
  /\ th[t].pc \in {"set", "clear"} =>
       th[t].s \in Socks /\ th[t].ev \in Events /\ th[t].old = ep_events[th[t].s]
  /\ th[t].pc = "deactivate" => th[t].s \in Socks /\ ~Ready(th[t].ep, th[t].s)

AllWaiting == \A t \in Threads : Waiting(t)
AllStillSo == \A t \in Threads : StillSo(t)

IInv == Types /\ AllLists /\ AllWaiting /\ AllStillSo /\ InactiveQuiet
-----------------------------------------------------------------------------
(* Lists. *)

\* The elements of a list, and a list without doubles is no longer than the
\* set it is from.
LEMMA InList ==
  ASSUME NEW S, NEW l \in Seq(S), NEW x
  PROVE  /\ x \in ToSet(l) <=> \E i \in 1..Len(l) : l[i] = x
         /\ Contains(l, x) <=> x \in ToSet(l)
         /\ DOMAIN l = 1..Len(l) /\ Len(l) \in Nat /\ ToSet(l) \subseteq S
  BY ElementOfSeq, LenProperties DEF ToSet, Contains

LEMMA AppendList ==
  ASSUME NEW S, NEW l \in Seq(S), NEW x \in S
  PROVE  /\ Append(l, x) \in Seq(S) /\ ToSet(Append(l, x)) = ToSet(l) \cup {x}
         /\ IsInjective(l) /\ x \notin ToSet(l) => IsInjective(Append(l, x))
<1> DEFINE a == Append(l, x)
           n == Len(l)
<1>1. /\ a \in Seq(S) /\ Len(a) = n + 1 /\ n \in Nat /\ a[n + 1] = x
      /\ \A i \in 1..n : a[i] = l[i] /\ i \in 1..n + 1 /\ i # n + 1
  BY AppendProperties, LenProperties
<1>2. DOMAIN a = 1..n + 1 /\ DOMAIN l = 1..n
  BY <1>1, LenProperties
<1>3. n + 1 \in 1..n + 1 /\ \A i \in 1..n + 1 : i \in 1..n \/ i = n + 1
  BY <1>1
<1> HIDE DEF a, n
<1>4. ToSet(a) = ToSet(l) \cup {x}
  BY <1>1, <1>2, <1>3 DEF ToSet
<1>5. ASSUME IsInjective(l), x \notin ToSet(l)
      PROVE  IsInjective(a)
  BY <1>1, <1>2, <1>3, <1>5 DEF ToSet, IsInjective
<1> QED BY <1>1, <1>4, <1>5 DEF a

LEMMA PrependList ==
  ASSUME NEW S, NEW l \in Seq(S), NEW x \in S
  PROVE  /\ <<x>> \o l \in Seq(S) /\ ToSet(<<x>> \o l) = ToSet(l) \cup {x}
         /\ IsInjective(l) /\ x \notin ToSet(l) => IsInjective(<<x>> \o l)
<1> DEFINE a == <<x>> \o l
           n == Len(l)
<1>1. <<x>> \in Seq(S) /\ Len(<<x>>) = 1 /\ <<x>>[1] = x /\ n \in Nat
  OBVIOUS
<1>2. /\ a \in Seq(S) /\ Len(a) = n + 1
      /\ \A i \in 1..n + 1 : a[i] = IF i <= 1 THEN <<x>>[i] ELSE l[i - 1]
  BY <1>1, ConcatProperties
<1>3. DOMAIN a = 1..n + 1 /\ DOMAIN l = 1..n
  BY <1>2, LenProperties
<1>4. /\ a[1] = x /\ 1 \in 1..n + 1
      /\ \A i \in 1..n + 1 : i = 1 \/ (i - 1 \in 1..n /\ a[i] = l[i - 1])
      /\ \A i \in 1..n : i + 1 \in 1..n + 1 /\ a[i + 1] = l[i]
  BY <1>1, <1>2
<1> HIDE DEF a, n
<1>5. ToSet(a) = ToSet(l) \cup {x}
  <2>1. ToSet(a) \subseteq ToSet(l) \cup {x}
    BY <1>3, <1>4 DEF ToSet
  <2>2. ToSet(l) \cup {x} \subseteq ToSet(a)
    BY <1>3, <1>4 DEF ToSet
  <2> QED BY <2>1, <2>2
<1>6. ASSUME IsInjective(l), x \notin ToSet(l)
      PROVE  IsInjective(a)
  <2> SUFFICES ASSUME NEW i \in 1..n + 1, NEW j \in 1..n + 1, a[i] = a[j]
               PROVE  i = j
    BY <1>3 DEF IsInjective
  <2>1. CASE i = 1 \/ j = 1
    BY <1>3, <1>4, <1>6, <2>1 DEF ToSet
  <2>2. CASE i # 1 /\ j # 1
    <3>1. i - 1 = j - 1
      BY <1>3, <1>4, <1>6, <2>2 DEF IsInjective
    <3> QED BY <3>1
  <2> QED BY <2>1, <2>2
<1> QED BY <1>2, <1>5, <1>6 DEF a

LEMMA UnlinkList ==
  ASSUME NEW S, NEW l \in Seq(S), NEW x, IsInjective(l)
  PROVE  /\ Unlink(l, x) \in Seq(S) /\ ToSet(Unlink(l, x)) = ToSet(l) \ {x}
         /\ IsInjective(Unlink(l, x))
<1> DEFINE n == Len(l)
           i == CHOOSE k \in DOMAIN l : l[k] = x
           a == [j \in 1..n - 1 |-> IF j < i THEN l[j] ELSE l[j + 1]]
<1>1. DOMAIN l = 1..n /\ n \in Nat /\ \A j \in 1..n : l[j] \in S
  BY LenProperties, ElementOfSeq
<1>2. CASE ~Contains(l, x)
  BY <1>2, InList DEF Unlink
<1>3. CASE Contains(l, x)
  <2>1. i \in 1..n /\ l[i] = x /\ Unlink(l, x) = a
    BY <1>1, <1>3 DEF Unlink, Contains
  <2> HIDE DEF i
  <2>2. \A j \in 1..n : l[j] = x => j = i
    BY <1>1, <2>1 DEF IsInjective
  <2>3. /\ n - 1 \in Nat
        /\ \A j \in 1..n - 1 : j \in 1..n /\ j + 1 \in 1..n /\ (j < i => j # i) /\ (~(j < i) => j + 1 # i)
    BY <1>1, <2>1
  <2>4. /\ DOMAIN a = 1..n - 1 /\ a \in Seq(S)
        /\ \A j \in 1..n - 1 : a[j] = IF j < i THEN l[j] ELSE l[j + 1]
    <3>1. a \in [1..n - 1 -> S]
      BY <1>1, <2>3
    <3> QED BY <2>3, <3>1, IsASeq
  <2> HIDE DEF a, n
  <2>5. ToSet(a) = ToSet(l) \ {x}
    <3>1. ASSUME NEW j \in 1..n - 1 PROVE a[j] \in ToSet(l) \ {x}
      BY <1>1, <2>2, <2>3, <2>4 DEF ToSet
    <3>2. ASSUME NEW j \in 1..n, j # i PROVE l[j] \in ToSet(a)
      <4>1. CASE j < i
        <5>1. j \in 1..n - 1
          BY <1>1, <2>1, <4>1
        <5> QED BY <2>4, <4>1, <5>1 DEF ToSet
      <4>2. CASE ~(j < i)
        <5> DEFINE k == j - 1
        <5>1. k \in 1..n - 1 /\ ~(k < i) /\ k + 1 = j
          BY <1>1, <2>1, <3>2, <4>2
        <5> HIDE DEF k
        <5>2. a[k] = l[j]
          BY <2>4, <5>1
        <5> QED BY <2>4, <5>1, <5>2 DEF ToSet
      <4> QED BY <4>1, <4>2
    <3>3. ToSet(a) \subseteq ToSet(l) \ {x}
      BY <2>4, <3>1 DEF ToSet
    <3>4. ToSet(l) \ {x} \subseteq ToSet(a)
      BY <1>1, <2>1, <3>2 DEF ToSet
    <3> QED BY <3>3, <3>4
  <2>6. IsInjective(a)
    <3> SUFFICES ASSUME NEW j \in 1..n - 1, NEW k \in 1..n - 1, a[j] = a[k]
                 PROVE  j = k
      BY <2>4 DEF IsInjective
    <3> DEFINE jj == IF j < i THEN j ELSE j + 1
    <3> DEFINE kk == IF k < i THEN k ELSE k + 1
    <3>1. jj \in 1..n /\ kk \in 1..n /\ l[jj] = l[kk]
      BY <2>3, <2>4
    <3>2. jj = kk
      <4> HIDE DEF jj, kk
      <4> QED BY <1>1, <3>1 DEF IsInjective
    <3>3. j \in Int /\ k \in Int /\ i \in Int
      BY <1>1, <2>1
    <3> QED BY <3>2, <3>3
  <2> QED BY <2>1, <2>4, <2>5, <2>6
<1> QED BY <1>2, <1>3

LEMMA PushbackList ==
  ASSUME NEW S, NEW l \in Seq(S), l # <<>>
  PROVE  /\ Head(l) \in ToSet(l) /\ Head(l) \in S
         /\ Pushback(l) \in Seq(S) /\ ToSet(Pushback(l)) = ToSet(l)
         /\ IsInjective(l) => IsInjective(Pushback(l))
<1> DEFINE t == Tail(l)
           h == Head(l)
           n == Len(t)
<1>1. /\ n \in Nat /\ Len(l) = n + 1 /\ h = l[1] /\ t \in Seq(S)
      /\ \A i \in 1..n : t[i] = l[i + 1]
  BY HeadTailProperties
<1>2. DOMAIN l = 1..n + 1 /\ DOMAIN t = 1..n
  BY <1>1, LenProperties
<1>3. /\ 1 \in 1..n + 1
      /\ \A i \in 1..n + 1 : i = 1 \/ (i - 1 \in 1..n /\ (i - 1) + 1 = i)
      /\ \A i \in 1..n : i + 1 \in 1..n + 1 /\ i + 1 # 1
  BY <1>1
<1> HIDE DEF t, h, n
<1>4. h \in ToSet(l) /\ h \in S
  BY <1>1, <1>2, <1>3, InList DEF ToSet
<1>5. ToSet(l) = ToSet(t) \cup {h}
  <2>1. ToSet(t) \cup {h} \subseteq ToSet(l)
    <3>1. ASSUME NEW i \in 1..n PROVE t[i] \in ToSet(l)
      <4>1. t[i] = l[i + 1] /\ i + 1 \in DOMAIN l
        BY <1>1, <1>2, <1>3
      <4> QED BY <4>1 DEF ToSet
    <3>2. ToSet(t) \subseteq ToSet(l)
      BY <1>2, <3>1 DEF ToSet
    <3> QED BY <1>4, <3>2
  <2>2. ASSUME NEW i \in 1..n + 1 PROVE l[i] \in ToSet(t) \cup {h}
    <3>1. CASE i = 1
      BY <1>1, <3>1
    <3>2. CASE i # 1
      <4>1. i - 1 \in 1..n /\ t[i - 1] = l[i]
        BY <1>1, <1>3, <3>2
      <4> QED BY <1>2, <4>1 DEF ToSet
    <3> QED BY <3>1, <3>2
  <2>3. ToSet(l) \subseteq ToSet(t) \cup {h}
    BY <1>2, <2>2 DEF ToSet
  <2> QED BY <2>1, <2>3
<1>6. Pushback(l) = Append(t, h)
  BY DEF Pushback, t, h
<1>7. ASSUME IsInjective(l)
      PROVE  IsInjective(t) /\ h \notin ToSet(t)
  <2>1. ASSUME NEW i \in 1..n, NEW j \in 1..n, t[i] = t[j] PROVE i = j
    <3>1. i + 1 = j + 1
      BY <1>1, <1>2, <1>3, <1>7, <2>1 DEF IsInjective
    <3> QED BY <3>1
  <2>2. ASSUME NEW i \in 1..n PROVE t[i] # h
    BY <1>1, <1>2, <1>3, <1>7 DEF IsInjective
  <2> QED BY <1>2, <2>1, <2>2 DEF IsInjective, ToSet
<1> QED BY <1>1, <1>4, <1>5, <1>6, <1>7, AppendList DEF h

\* A list without doubles is no longer than the set of its elements.
LEMMA ListLength ==
  ASSUME NEW S, IsFiniteSet(S), NEW l \in Seq(S), IsInjective(l)
  PROVE  Len(l) \in 0..Cardinality(S)
<1>1. Len(l) \in Nat /\ l \in [1..Len(l) -> S]
  BY LenProperties
<1>2. l \in Injection(1..Len(l), S)
  BY <1>1 DEF Injection
<1>3. IsFiniteSet(1..Len(l)) /\ Cardinality(1..Len(l)) = Len(l)
  BY <1>1, FS_Interval
<1>4. Cardinality(1..Len(l)) <= Cardinality(S) /\ Cardinality(S) \in Nat
  BY <1>2, <1>3, FS_Injection, FS_CardinalityType
<1> QED BY <1>1, <1>3, <1>4
-----------------------------------------------------------------------------
(* Steps that only change what a thread is doing. *)

\* A step of t that changes neither events nor lists.
LEMMA ThreadStep ==
  ASSUME IInv, NEW t \in Threads, NEW r \in Thread, th' = [th EXCEPT ![t] = r],
         UNCHANGED <<ep_events, lists>>,
         pend' \in [Threads -> SUBSET (Socks \X Events)],
         \A u \in Threads : u # t => pend'[u] = pend[u],
         Waiting(t)', StillSo(t)'
  PROVE  IInv'
<1>1. UNCHANGED <<ep_events, mask, active, inactive>>
  BY DEF lists
<1>2. th'[t] = r /\ \A u \in Threads : u # t => th'[u] = th[u]
  BY DEF IInv, Types
<1>3. Types'
  BY <1>1 DEF IInv, Types
<1>4. AllLists'
  BY <1>1 DEF IInv, AllLists, Lists, On
<1>5. AllWaiting'
  <2> SUFFICES ASSUME NEW u \in Threads, u # t
               PROVE  Waiting(u)'
    BY DEF AllWaiting
  <2> QED BY <1>2 DEF IInv, AllWaiting, Waiting
<1>6. AllStillSo'
  <2> SUFFICES ASSUME NEW u \in Threads, u # t
               PROVE  StillSo(u)'
    BY DEF AllStillSo
  <2>1. StillSo(u) /\ th'[u] = th[u]
    BY <1>2 DEF IInv, AllStillSo
  <2> QED BY <1>1, <2>1 DEF StillSo, Ready
<1>7. InactiveQuiet'
  BY <1>1 DEF IInv, InactiveQuiet, Ready
<1> QED BY <1>3, <1>4, <1>5, <1>6, <1>7 DEF IInv

LEMMA ArriveKeeps ==
  ASSUME IInv, NEW t \in Threads, NEW s \in Socks, NEW ev \in Events, Arrive(t, s, ev)
  PROVE  IInv'
<1>1. th[t] \in Thread /\ th' = [th EXCEPT ![t] = th[t]] /\ th'[t] = th[t]
  BY DEF IInv, Types, Arrive
<1>2. pend' = [pend EXCEPT ![t] = pend[t] \cup {<<s, ev>>}] /\ UNCHANGED <<ep_events, lists>>
  BY DEF Arrive
<1>3. /\ pend' \in [Threads -> SUBSET (Socks \X Events)] /\ pend'[t] = pend[t] \cup {<<s, ev>>}
      /\ \A u \in Threads : u # t => pend'[u] = pend[u]
  BY <1>2 DEF IInv, Types
<1>4. Waiting(t)'
  BY <1>1 DEF IInv, AllWaiting, Waiting
<1>5. StillSo(t)'
  BY <1>1, <1>2 DEF IInv, AllStillSo, StillSo, Ready, lists
<1> QED BY <1>1, <1>2, <1>3, <1>4, <1>5, ThreadStep

LEMMA SetReadKeeps ==
  ASSUME IInv, NEW t \in Threads, SetRead(t)
  PROVE  IInv'
<1>1. PICK x \in th[t].batch :
        th' = [th EXCEPT ![t].pc = "set", ![t].batch = @ \ {x}, ![t].s = x[1], ![t].ev = x[2],
                         ![t].old = ep_events[x[1]]]
  BY DEF SetRead
<1> DEFINE r == [th[t] EXCEPT !.pc = "set", !.batch = @ \ {x}, !.s = x[1], !.ev = x[2], !.old = ep_events[x[1]]]
<1>2. th[t] \in Thread /\ th[t].pc = "poll"
  BY DEF IInv, Types, SetRead
<1>3. x[1] \in Socks /\ x[2] \in Events
  BY <1>2 DEF Thread
<1>4. ep_events[x[1]] \in SUBSET Events
  BY <1>3 DEF IInv, Types
<1>5. /\ r \in Thread /\ r.pc = "set" /\ r.s = x[1] /\ r.ev = x[2] /\ r.old = ep_events[x[1]]
      /\ r.batch \subseteq th[t].batch /\ r.ep = th[t].ep /\ r.out = th[t].out
  BY <1>2, <1>3, <1>4 DEF Thread
<1>6. th' = [th EXCEPT ![t] = r] /\ UNCHANGED <<ep_events, lists, pend>>
  BY <1>1 DEF SetRead, IInv, Types
<1> HIDE DEF r
<1>7. th'[t] = r
  BY <1>6 DEF IInv, Types
<1>8. pend' \in [Threads -> SUBSET (Socks \X Events)] /\ \A u \in Threads : pend'[u] = pend[u]
  BY <1>6 DEF IInv, Types
<1>9. Waiting(t)'
  BY <1>2, <1>5, <1>7 DEF IInv, AllWaiting, Waiting
<1>10. StillSo(t)'
  BY <1>3, <1>5, <1>6, <1>7 DEF StillSo
<1> QED BY <1>5, <1>6, <1>8, <1>9, <1>10, ThreadStep

LEMMA SocksFinite ==
  ASSUME EpollAssumption
  PROVE  /\ IsFiniteSet(Socks) /\ Cardinality(Socks) \in Nat
         /\ \A S \in SUBSET Socks : IsFiniteSet(S) /\ Cardinality(S) \in Nat
         /\ Cardinality({}) = 0 /\ MaxEvents \in Nat \ {0}
  BY FS_CardinalityType, FS_Subset, FS_EmptySet DEF EpollAssumption

LEMMA IdleThread ==
  ASSUME EpollAssumption
  PROVE  Idle \in Thread /\ Idle.pc = "app" /\ Idle.batch = {} /\ Idle.out = {}
  BY SocksFinite DEF Idle, Thread

LEMMA ClearReadKeeps ==
  ASSUME IInv, NEW t \in Threads, NEW s \in Socks, NEW ev \in Events, ClearRead(t, s, ev)
  PROVE  IInv'
<1> DEFINE r == [th[t] EXCEPT !.pc = "clear", !.s = s, !.ev = ev, !.old = ep_events[s]]
<1>1. th[t] \in Thread /\ ep_events[s] \in SUBSET Events
  BY DEF IInv, Types
<1>2. /\ r \in Thread /\ r.pc = "clear" /\ r.s = s /\ r.ev = ev /\ r.old = ep_events[s]
      /\ r.batch = th[t].batch /\ r.out = th[t].out
  BY <1>1 DEF Thread
<1>3. th' = [th EXCEPT ![t] = r] /\ UNCHANGED <<ep_events, lists, pend>>
  BY DEF ClearRead, IInv, Types
<1> HIDE DEF r
<1>4. th'[t] = r
  BY <1>3 DEF IInv, Types
<1>5. pend' \in [Threads -> SUBSET (Socks \X Events)] /\ \A u \in Threads : pend'[u] = pend[u]
  BY <1>3 DEF IInv, Types
<1>6. Waiting(t)'
  BY <1>2, <1>4 DEF IInv, AllWaiting, Waiting
<1>7. StillSo(t)'
  BY <1>2, <1>3, <1>4 DEF StillSo
<1> QED BY <1>2, <1>3, <1>5, <1>6, <1>7, ThreadStep

LEMMA WaitCallKeeps ==
  ASSUME EpollAssumption, IInv, NEW t \in Threads, NEW e \in Epolls, NEW tmo \in Timeouts, WaitCall(t, e, tmo)
  PROVE  IInv'
<1> DEFINE r == [Idle EXCEPT !.pc = "poll", !.ep = e, !.batch = pend[t], !.got = pend[t] # {}, !.tmo = tmo, !.left = tmo]
<1>1. pend[t] \in SUBSET (Socks \X Events) /\ tmo \in Int
  BY DEF IInv, Types, EpollAssumption
<1>2. /\ r \in Thread /\ r.pc = "poll" /\ r.ep = e /\ r.batch = pend[t] /\ r.out = {}
  BY <1>1, IdleThread DEF Thread
<1>3. /\ th' = [th EXCEPT ![t] = r] /\ UNCHANGED <<ep_events, lists>>
      /\ pend' = [pend EXCEPT ![t] = {}]
  BY DEF WaitCall
<1> HIDE DEF r
<1>4. th'[t] = r
  BY <1>3 DEF IInv, Types
<1>5. /\ pend' \in [Threads -> SUBSET (Socks \X Events)] /\ pend'[t] = {}
      /\ \A u \in Threads : u # t => pend'[u] = pend[u]
  BY <1>3 DEF IInv, Types
<1>6. Waiting(t)'
  BY <1>2, <1>3, <1>4, SocksFinite DEF Waiting
<1>7. StillSo(t)'
  BY <1>2, <1>4 DEF StillSo
<1> QED BY <1>2, <1>3, <1>5, <1>6, <1>7, ThreadStep

LEMMA PollDoneKeeps ==
  ASSUME EpollAssumption, IInv, NEW t \in Threads, PollDone(t)
  PROVE  IInv'
<1> DEFINE e == th[t].ep
<1> DEFINE n == Len(active[e])
<1> DEFINE r == [th[t] EXCEPT !.pc = "scan", !.todo = n]
<1>1. th[t] \in Thread /\ e \in Epolls
  BY DEF IInv, Types, AllWaiting, Waiting, PollDone
<1>2. n \in 0..Cardinality(Socks)
  BY <1>1, SocksFinite, ListLength DEF IInv, Types, AllLists, Lists
<1> HIDE DEF n
<1>3. /\ r \in Thread /\ r.pc = "scan" /\ r.batch = th[t].batch /\ r.out = th[t].out /\ r.ep = e
  BY <1>1, <1>2 DEF Thread
<1>4. th' = [th EXCEPT ![t] = r] /\ UNCHANGED <<ep_events, lists, pend>>
  BY DEF PollDone, IInv, Types, n
<1> HIDE DEF r
<1>5. th'[t] = r
  BY <1>4 DEF IInv, Types
<1>6. pend' \in [Threads -> SUBSET (Socks \X Events)] /\ \A u \in Threads : pend'[u] = pend[u]
  BY <1>4 DEF IInv, Types
<1>7. Waiting(t)'
  BY <1>1, <1>3, <1>5 DEF IInv, AllWaiting, Waiting
<1>8. StillSo(t)'
  BY <1>3, <1>5 DEF StillSo
<1> QED BY <1>3, <1>4, <1>6, <1>7, <1>8, ThreadStep

LEMMA BlockKeeps ==
  ASSUME IInv, NEW t \in Threads, Block(t)
  PROVE  IInv'
<1> DEFINE r == [th[t] EXCEPT !.pc = "blocked"]
<1>1. th[t] \in Thread /\ th[t].pc = "poll"
  BY DEF IInv, Types, Block
<1>2. /\ r \in Thread /\ r.pc = "blocked" /\ r.batch = th[t].batch /\ r.out = th[t].out /\ r.ep = th[t].ep
  BY <1>1 DEF Thread
<1>3. th' = [th EXCEPT ![t] = r] /\ UNCHANGED <<ep_events, lists, pend>>
  BY DEF Block, IInv, Types
<1> HIDE DEF r
<1>4. th'[t] = r
  BY <1>3 DEF IInv, Types
<1>5. pend' \in [Threads -> SUBSET (Socks \X Events)] /\ \A u \in Threads : pend'[u] = pend[u]
  BY <1>3 DEF IInv, Types
<1>6. Waiting(t)'
  BY <1>1, <1>2, <1>4 DEF IInv, AllWaiting, Waiting
<1>7. StillSo(t)'
  BY <1>2, <1>4 DEF StillSo
<1> QED BY <1>2, <1>3, <1>5, <1>6, <1>7, ThreadStep

\* The thread polls its context again.
LEMMA PollAgain ==
  ASSUME IInv, NEW t \in Threads, NEW r \in Thread,
         th[t].pc \in {"scan", "blocked"}, r.pc = "poll", r.batch = pend[t], r.ep = th[t].ep, r.out = th[t].out,
         th' = [th EXCEPT ![t] = r], pend' = [pend EXCEPT ![t] = {}], UNCHANGED <<ep_events, lists>>
  PROVE  IInv'
<1>1. th'[t] = r
  BY DEF IInv, Types
<1>2. /\ pend' \in [Threads -> SUBSET (Socks \X Events)] /\ pend'[t] = {}
      /\ \A u \in Threads : u # t => pend'[u] = pend[u]
  BY DEF IInv, Types
<1>3. Waiting(t)'
  BY <1>1 DEF IInv, AllWaiting, Waiting
<1>4. StillSo(t)'
  BY <1>1 DEF StillSo
<1> QED BY <1>1, <1>2, <1>3, <1>4, ThreadStep

LEMMA WakeKeeps ==
  ASSUME IInv, NEW t \in Threads, Wake(t)
  PROVE  IInv'
<1> DEFINE r == [th[t] EXCEPT !.pc = "poll", !.batch = pend[t], !.got = pend[t] # {}]
<1>1. th[t] \in Thread /\ pend[t] \in SUBSET (Socks \X Events) /\ th[t].pc = "blocked"
  BY DEF IInv, Types, Wake
<1>2. r \in Thread /\ r.pc = "poll" /\ r.batch = pend[t] /\ r.ep = th[t].ep /\ r.out = th[t].out
  BY <1>1 DEF Thread
<1>3. th' = [th EXCEPT ![t] = r] /\ pend' = [pend EXCEPT ![t] = {}] /\ UNCHANGED <<ep_events, lists>>
  BY DEF Wake, IInv, Types
<1> HIDE DEF r
<1> QED BY <1>1, <1>2, <1>3, PollAgain

LEMMA WaitAgainKeeps ==
  ASSUME EpollAssumption, IInv, NEW t \in Threads, WaitAgain(t)
  PROVE  IInv'
<1> DEFINE r == [th[t] EXCEPT !.pc = "poll", !.batch = pend[t], !.got = pend[t] # {}, !.todo = 0]
<1>1. th[t] \in Thread /\ pend[t] \in SUBSET (Socks \X Events) /\ th[t].pc = "scan"
  BY DEF IInv, Types, WaitAgain
<1>2. r \in Thread /\ r.pc = "poll" /\ r.batch = pend[t] /\ r.ep = th[t].ep /\ r.out = th[t].out
  <2>1. 0 \in 0..Cardinality(Socks)
    BY SocksFinite
  <2> QED BY <1>1, <2>1 DEF Thread
<1>3. th' = [th EXCEPT ![t] = r] /\ pend' = [pend EXCEPT ![t] = {}] /\ UNCHANGED <<ep_events, lists>>
  BY DEF WaitAgain, IInv, Types
<1> HIDE DEF r
<1> QED BY <1>1, <1>2, <1>3, PollAgain

LEMMA NotReadyKeeps ==
  ASSUME IInv, NEW t \in Threads, NotReady(t)
  PROVE  IInv'
<1> DEFINE e == th[t].ep
<1> DEFINE s == Head(active[e])
<1> DEFINE r == [th[t] EXCEPT !.pc = "deactivate", !.s = s]
<1>1. /\ th[t] \in Thread /\ e \in Epolls /\ active[e] \in Seq(Socks) /\ active[e] # <<>>
      /\ th[t].todo > 0 /\ th[t].pc = "scan" /\ ~Ready(e, s)
  BY DEF IInv, Types, AllWaiting, Waiting, NotReady, Scanning
<1>2. s \in ToSet(active[e]) /\ s \in Socks
  BY <1>1, PushbackList
<1>3. th' = [th EXCEPT ![t] = r] /\ UNCHANGED <<ep_events, lists, pend>>
  BY DEF NotReady, IInv, Types
<1> HIDE DEF s
<1>4. /\ r \in Thread /\ r.pc = "deactivate" /\ r.s = s /\ r.batch = th[t].batch /\ r.out = th[t].out
      /\ r.ep = e /\ r.todo = th[t].todo
  BY <1>1, <1>2 DEF Thread
<1> HIDE DEF r
<1>5. th'[t] = r
  BY <1>3 DEF IInv, Types
<1>6. pend' \in [Threads -> SUBSET (Socks \X Events)] /\ \A u \in Threads : pend'[u] = pend[u]
  BY <1>3 DEF IInv, Types
<1>7. Waiting(t)'
  BY <1>1, <1>4, <1>5 DEF IInv, AllWaiting, Waiting
<1>8. StillSo(t)'
  BY <1>1, <1>2, <1>3, <1>4, <1>5 DEF StillSo, Ready, lists
<1> QED BY <1>3, <1>4, <1>6, <1>7, <1>8, ThreadStep

\* The thread's call ends.
LEMMA CallEnds ==
  ASSUME EpollAssumption, IInv, NEW t \in Threads, th' = [th EXCEPT ![t] = Idle],
         UNCHANGED <<ep_events, lists, pend>>
  PROVE  IInv'
<1>1. th'[t] = Idle /\ Idle \in Thread
  BY IdleThread DEF IInv, Types
<1>2. pend' \in [Threads -> SUBSET (Socks \X Events)] /\ \A u \in Threads : pend'[u] = pend[u]
  BY DEF IInv, Types
<1>3. Waiting(t)'
  BY <1>1, IdleThread, SocksFinite DEF Waiting
<1>4. StillSo(t)'
  BY <1>1, IdleThread DEF StillSo
<1> QED BY <1>1, <1>2, <1>3, <1>4, ThreadStep

LEMMA TickKeeps ==
  ASSUME IInv, NEW t \in Threads, Tick(t)
  PROVE  IInv'
<1> DEFINE r == [th[t] EXCEPT !.left = @ - 1]
<1>1. th[t] \in Thread
  BY DEF IInv, Types
<1>2. /\ r \in Thread /\ r.pc = th[t].pc /\ r.batch = th[t].batch /\ r.out = th[t].out /\ r.ep = th[t].ep
      /\ r.todo = th[t].todo /\ r.s = th[t].s /\ r.ev = th[t].ev /\ r.old = th[t].old
  BY <1>1 DEF Thread
<1>3. th' = [th EXCEPT ![t] = r] /\ UNCHANGED <<ep_events, lists, pend>>
  BY DEF Tick, IInv, Types
<1> HIDE DEF r
<1>4. th'[t] = r
  BY <1>3 DEF IInv, Types
<1>5. pend' \in [Threads -> SUBSET (Socks \X Events)] /\ \A u \in Threads : pend'[u] = pend[u]
  BY <1>3 DEF IInv, Types
<1>6. Waiting(t)'
  BY <1>2, <1>4 DEF IInv, AllWaiting, Waiting
<1>7. StillSo(t)'
  BY <1>2, <1>3, <1>4 DEF IInv, AllStillSo, StillSo, Ready, lists
<1> QED BY <1>2, <1>3, <1>5, <1>6, <1>7, ThreadStep
-----------------------------------------------------------------------------
(* Steps that change events or lists. *)

\* es_activate: the sockets stay on the lists of their epolls.
LEMMA ActivateKeeps ==
  ASSUME Types, AllLists, NEW s \in Socks, NEW es \in SUBSET Epolls, Activate(s, es),
         \A e \in Epolls : \A x \in Socks : On(e, x)' <=> On(e, x)
  PROVE  /\ active' \in [Epolls -> Seq(Socks)] /\ inactive' \in [Epolls -> Seq(Socks)]
         /\ AllLists'
         /\ \A e \in Epolls : ToSet(inactive'[e]) = ToSet(inactive[e]) \ (IF e \in es THEN {s} ELSE {})
<1> SUFFICES ASSUME NEW e \in Epolls
             PROVE  /\ active'[e] \in Seq(Socks) /\ inactive'[e] \in Seq(Socks)
                    /\ Lists(e)'
                    /\ ToSet(inactive'[e]) = ToSet(inactive[e]) \ (IF e \in es THEN {s} ELSE {})
  <2>1. DOMAIN active' = Epolls /\ DOMAIN inactive' = Epolls
    BY DEF Activate
  <2>2. /\ active' = [e \in Epolls |-> active'[e]]
        /\ inactive' = [e \in Epolls |-> inactive'[e]]
    BY DEF Activate
  <2> QED BY <2>1, <2>2 DEF AllLists
<1>1. active[e] \in Seq(Socks) /\ inactive[e] \in Seq(Socks) /\ Lists(e)
  BY DEF Types, AllLists
<1>2. Contains(inactive[e], s) <=> s \in ToSet(inactive[e])
  BY <1>1, InList
<1>3. CASE e \in es /\ s \in ToSet(inactive[e])
  <2>1. active'[e] = Append(active[e], s) /\ inactive'[e] = Unlink(inactive[e], s)
    BY <1>2, <1>3 DEF Activate
  <2>2. /\ active'[e] \in Seq(Socks) /\ ToSet(active'[e]) = ToSet(active[e]) \cup {s}
        /\ IsInjective(active'[e])
    BY <1>1, <1>3, <2>1, AppendList DEF Lists
  <2>3. /\ inactive'[e] \in Seq(Socks) /\ ToSet(inactive'[e]) = ToSet(inactive[e]) \ {s}
        /\ IsInjective(inactive'[e])
    BY <1>1, <2>1, UnlinkList DEF Lists
  <2>4. Lists(e)'
    <3>1. {x \in Socks : On(e, x)}' = {x \in Socks : On(e, x)}
      OBVIOUS
    <3>2. ToSet(active'[e]) \cap ToSet(inactive'[e]) = {}
      BY <1>1, <1>3, <2>2, <2>3 DEF Lists
    <3>3. ToSet(active'[e]) \cup ToSet(inactive'[e]) = {x \in Socks : On(e, x)}
      BY <1>1, <1>3, <2>2, <2>3 DEF Lists
    <3> QED BY <2>2, <2>3, <3>1, <3>2, <3>3 DEF Lists
  <2> QED BY <1>3, <2>2, <2>3, <2>4
<1>4. CASE ~(e \in es /\ s \in ToSet(inactive[e]))
  <2>1. active'[e] = active[e] /\ inactive'[e] = inactive[e]
    BY <1>2, <1>4 DEF Activate
  <2>2. {x \in Socks : On(e, x)}' = {x \in Socks : On(e, x)}
    OBVIOUS
  <2>3. Lists(e)'
    BY <1>1, <2>1, <2>2 DEF Lists
  <2> QED BY <1>1, <1>4, <2>1, <2>3
<1> QED BY <1>3, <1>4

\* Without a race what the other threads have read is still so.
LEMMA OthersStillSo ==
  ASSUME AllStillSo, NoRaces, NEW u \in Threads, th'[u] = th[u]
  PROVE  StillSo(u)'
<1>1. StillSo(u)
  BY DEF AllStillSo
<1>2. /\ th[u].pc \in {"set", "clear", "deactivate"} => ep_events'[th[u].s] = ep_events[th[u].s]
      /\ th[u].pc = "deactivate" => mask'[th[u].ep][th[u].s] = mask[th[u].ep][th[u].s]
  BY DEF NoRaces
<1> QED BY <1>1, <1>2 DEF StillSo, Ready

\* A step of t that changes the events of a socket.
LEMMA EventStep ==
  ASSUME IInv, NoRaces, NEW t \in Threads, NEW r \in Thread, th' = [th EXCEPT ![t] = r],
         UNCHANGED <<mask, pend>>, NEW s \in Socks,
         NEW evs \in SUBSET Events, ep_events' = [ep_events EXCEPT ![s] = evs],
         active' \in [Epolls -> Seq(Socks)], inactive' \in [Epolls -> Seq(Socks)], AllLists',
         \A e \in Epolls : ToSet(inactive'[e]) \subseteq ToSet(inactive[e]),
         \A e \in Epolls : s \in ToSet(inactive'[e]) /\ ~Ready(e, s) => ~Ready(e, s)',
         r.batch \subseteq th[t].batch, r.out \subseteq th[t].out, r.pc = "app" \/ (r.pc = "poll" /\ r.ep = th[t].ep /\ r.out = th[t].out /\ th[t].pc = "set"),
         Cardinality(r.out) <= MaxEvents
  PROVE  IInv'
<1>1. th'[t] = r /\ \A u \in Threads : u # t => th'[u] = th[u]
  BY DEF IInv, Types
<1>2. ep_events'[s] = evs /\ \A x \in Socks : x # s => ep_events'[x] = ep_events[x]
  BY DEF IInv, Types
<1>3. Types'
  BY DEF IInv, Types
<1>4. AllWaiting'
  <2> SUFFICES ASSUME NEW u \in Threads
               PROVE  Waiting(u)'
    BY DEF AllWaiting
  <2>1. CASE u = t
    BY <1>1, <2>1 DEF IInv, AllWaiting, Waiting
  <2>2. CASE u # t
    BY <1>1, <2>2 DEF IInv, AllWaiting, Waiting
  <2> QED BY <2>1, <2>2
<1>5. AllStillSo'
  <2> SUFFICES ASSUME NEW u \in Threads
               PROVE  StillSo(u)'
    BY DEF AllStillSo
  <2>1. CASE u = t
    BY <1>1, <2>1 DEF StillSo
  <2>2. CASE u # t
    BY <1>1, <2>2, OthersStillSo DEF IInv
  <2> QED BY <2>1, <2>2
<1>6. InactiveQuiet'
  <2> SUFFICES ASSUME NEW e \in Epolls, NEW x \in ToSet(inactive'[e])
               PROVE  ~Ready(e, x)'
    BY DEF InactiveQuiet
  <2>1. x \in ToSet(inactive[e]) /\ ~Ready(e, x) /\ x \in Socks
    BY InList DEF IInv, InactiveQuiet, Types
  <2>2. CASE x = s
    BY <2>1, <2>2
  <2>3. CASE x # s
    BY <1>2, <2>1, <2>3 DEF Ready
  <2> QED BY <2>2, <2>3
<1> QED BY <1>3, <1>4, <1>5, <1>6 DEF IInv

LEMMA ClearWriteKeeps ==
  ASSUME EpollAssumption, IInv, NoRaces, NEW t \in Threads, ClearWrite(t)
  PROVE  IInv'
<1> PICK s \in Socks : s = th[t].s
  BY DEF IInv, AllStillSo, StillSo, ClearWrite
<1> DEFINE evs == th[t].old \ {th[t].ev}
<1>1. th[t] \in Thread /\ s \in Socks /\ th[t].old = ep_events[s]
  BY DEF IInv, Types, AllStillSo, StillSo, ClearWrite
<1>2. evs \in SUBSET Events
  BY <1>1 DEF Thread
<1>3. /\ th' = [th EXCEPT ![t] = Idle] /\ ep_events' = [ep_events EXCEPT ![s] = evs]
      /\ UNCHANGED <<mask, pend>> /\ active' = active /\ inactive' = inactive
  BY DEF ClearWrite, lists
<1>4. Idle \in Thread /\ Idle.pc = "app" /\ Idle.batch = {} /\ Idle.out = {} /\ Cardinality(Idle.out) <= MaxEvents
  BY IdleThread, SocksFinite
<1>5. evs \subseteq ep_events[s]
  BY <1>1
<1> HIDE DEF evs
<1>6. ep_events'[s] = evs
  BY <1>1, <1>3 DEF IInv, Types
<1>7. \A e \in Epolls : s \in ToSet(inactive'[e]) /\ ~Ready(e, s) => ~Ready(e, s)'
  BY <1>3, <1>5, <1>6 DEF Ready
<1>8. active' \in [Epolls -> Seq(Socks)] /\ inactive' \in [Epolls -> Seq(Socks)] /\ AllLists'
  BY <1>3 DEF IInv, Types, AllLists, Lists, On
<1>9. \A e \in Epolls : ToSet(inactive'[e]) \subseteq ToSet(inactive[e])
  BY <1>3
<1>10. Idle.batch \subseteq th[t].batch /\ Idle.out \subseteq th[t].out
  BY <1>4
<1> QED BY <1>1, <1>2, <1>3, <1>4, <1>7, <1>8, <1>9, <1>10, EventStep

\* The event is new: the socket is activated where the event is asked for,
\* and is not ready for it anywhere else.
LEMMA SetWriteKeeps ==
  ASSUME EpollAssumption, IInv, NoRaces, NEW t \in Threads, SetWrite(t)
  PROVE  IInv'
<1> PICK s \in Socks : s = th[t].s
  BY DEF IInv, AllStillSo, StillSo, SetWrite
<1> PICK ev \in Events : ev = th[t].ev
  BY DEF IInv, AllStillSo, StillSo, SetWrite
<1> DEFINE old == th[t].old
<1> DEFINE r == [th[t] EXCEPT !.pc = "poll", !.s = Nil, !.ev = Nil, !.old = {}]
<1>1. /\ th[t] \in Thread /\ s \in Socks /\ ev \in Events /\ old = ep_events[s]
      /\ th[t].pc = "set"
  BY DEF IInv, Types, AllStillSo, StillSo, SetWrite
<1>2. old \in SUBSET Events
  BY <1>1 DEF Thread
<1>3. /\ r \in Thread /\ r.pc = "poll" /\ r.batch = th[t].batch /\ r.out = th[t].out /\ r.ep = th[t].ep
  BY <1>1 DEF Thread
<1>4. Cardinality(r.out) <= MaxEvents
  BY <1>3 DEF IInv, AllWaiting, Waiting
<1>5. th' = [th EXCEPT ![t] = r] /\ UNCHANGED <<mask, pend>>
  BY DEF SetWrite, IInv, Types
<1>6. IF ev \in old THEN UNCHANGED <<ep_events, active, inactive>>
      ELSE /\ ep_events' = [ep_events EXCEPT ![s] = old \cup {ev}]
           /\ Activate(s, {e \in Epolls : ev \in mask[e][s]})
  BY DEF SetWrite
<1> HIDE DEF r, old
<1>7. CASE ev \in old
  <2> DEFINE evs == ep_events[s]
  <2>1. evs \in SUBSET Events /\ ep_events' = [ep_events EXCEPT ![s] = evs]
    BY <1>1, <1>6, <1>7 DEF IInv, Types
  <2>2. UNCHANGED <<ep_events, active, inactive>>
    BY <1>6, <1>7
  <2>3. \A e \in Epolls : ~Ready(e, s) => ~Ready(e, s)'
    BY <1>5, <2>2 DEF Ready
  <2>4. active' \in [Epolls -> Seq(Socks)] /\ inactive' \in [Epolls -> Seq(Socks)] /\ AllLists'
    BY <1>5, <2>2 DEF IInv, Types, AllLists, Lists, On
  <2>5. \A e \in Epolls : ToSet(inactive'[e]) \subseteq ToSet(inactive[e])
    BY <2>2
  <2> HIDE DEF evs
  <2> QED BY <1>1, <1>3, <1>4, <1>5, <2>1, <2>3, <2>4, <2>5, EventStep
<1>8. CASE ev \notin old
  <2> DEFINE evs == old \cup {ev}
  <2> DEFINE es == {e \in Epolls : ev \in mask[e][s]}
  <2>1. evs \in SUBSET Events /\ ep_events' = [ep_events EXCEPT ![s] = evs] /\ Activate(s, es)
    BY <1>1, <1>2, <1>6, <1>8
  <2>2. ep_events'[s] = evs
    BY <1>1, <2>1 DEF IInv, Types
  <2>3. \A e \in Epolls : \A x \in Socks : On(e, x)' <=> On(e, x)
    BY <1>5 DEF On
  <2>4. /\ active' \in [Epolls -> Seq(Socks)] /\ inactive' \in [Epolls -> Seq(Socks)]
        /\ AllLists'
        /\ \A e \in Epolls : ToSet(inactive'[e]) = ToSet(inactive[e]) \ (IF e \in es THEN {s} ELSE {})
    <3> HIDE DEF es
    <3>1. es \in SUBSET Epolls
      BY DEF es
    <3> QED BY <1>1, <2>1, <2>3, <3>1, ActivateKeeps DEF IInv
  <2>5. \A e \in Epolls : s \in ToSet(inactive'[e]) /\ ~Ready(e, s) => ~Ready(e, s)'
    <3> SUFFICES ASSUME NEW e \in Epolls, s \in ToSet(inactive'[e]), ~Ready(e, s)
                 PROVE  ~Ready(e, s)'
      OBVIOUS
    <3>1. ev \notin mask[e][s]
      BY <2>4
    <3>2. ep_events'[s] = ep_events[s] \cup {ev}
      BY <1>1, <2>2
    <3> QED BY <1>5, <3>1, <3>2 DEF Ready
  <2>6. \A e \in Epolls : ToSet(inactive'[e]) \subseteq ToSet(inactive[e])
    BY <2>4
  <2>7. /\ active' \in [Epolls -> Seq(Socks)] /\ inactive' \in [Epolls -> Seq(Socks)]
        /\ AllLists'
    BY <2>4
  <2> HIDE DEF evs, es
  <2> QED BY <1>1, <1>3, <1>4, <1>5, <2>1, <2>5, <2>6, <2>7, EventStep
<1> QED BY <1>7, <1>8

\* A call of epoll_ctl changes one epoll.
LEMMA CtlStep ==
  ASSUME IInv, NoRaces, NEW e \in Epolls,
         UNCHANGED <<ep_events, pend, th>>,
         mask' \in [Epolls -> [Socks -> SUBSET (Events \cup {Err})]],
         active' \in [Epolls -> Seq(Socks)], inactive' \in [Epolls -> Seq(Socks)],
         \A f \in Epolls : f # e => mask'[f] = mask[f] /\ active'[f] = active[f] /\ inactive'[f] = inactive[f],
         Lists(e)', \A x \in ToSet(inactive'[e]) : ~Ready(e, x)'
  PROVE  IInv'
<1>1. Types'
  BY DEF IInv, Types
<1>2. AllLists'
  <2> SUFFICES ASSUME NEW f \in Epolls, f # e
               PROVE  Lists(f)'
    BY DEF AllLists
  <2>1. {x \in Socks : On(f, x)}' = {x \in Socks : On(f, x)}
    BY DEF On
  <2> QED BY <2>1 DEF IInv, AllLists, Lists
<1>3. AllWaiting'
  BY DEF IInv, AllWaiting, Waiting
<1>4. AllStillSo'
  BY OthersStillSo DEF IInv, AllStillSo
<1>5. InactiveQuiet'
  <2> SUFFICES ASSUME NEW f \in Epolls, f # e, NEW x \in ToSet(inactive'[f])
               PROVE  ~Ready(f, x)'
    BY DEF InactiveQuiet
  <2> QED BY DEF IInv, InactiveQuiet, Ready
<1> QED BY <1>1, <1>2, <1>3, <1>4, <1>5 DEF IInv

\* The mask of a socket on an epoll.
LEMMA SetMask ==
  ASSUME Types, NEW e \in Epolls, NEW s \in Socks, NEW m \in SUBSET (Events \cup {Err}),
         mask' = [mask EXCEPT ![e][s] = m]
  PROVE  /\ mask' \in [Epolls -> [Socks -> SUBSET (Events \cup {Err})]]
         /\ mask'[e][s] = m /\ \A x \in Socks : x # s => mask'[e][x] = mask[e][x]
         /\ \A f \in Epolls : f # e => mask'[f] = mask[f]
  BY DEF Types

LEMMA CtlAddKeeps ==
  ASSUME IInv, NoRaces, NEW t \in Threads, NEW e \in Epolls, NEW s \in Socks, NEW m \in SUBSET Events,
         CtlAdd(t, e, s, m)
  PROVE  IInv'
<1> DEFINE n == m \cup {Err}
<1>1. /\ ~On(e, s) /\ UNCHANGED <<ep_events, pend, th>>
      /\ mask' = [mask EXCEPT ![e][s] = n]
      /\ IF ep_events[s] \cap n # {}
         THEN active' = [active EXCEPT ![e] = Append(@, s)] /\ UNCHANGED inactive
         ELSE inactive' = [inactive EXCEPT ![e] = <<s>> \o @] /\ UNCHANGED active
  BY DEF CtlAdd
<1>2. n \in SUBSET (Events \cup {Err}) /\ n # {}
  OBVIOUS
<1> HIDE DEF n
<1>3. /\ mask' \in [Epolls -> [Socks -> SUBSET (Events \cup {Err})]]
      /\ mask'[e][s] = n /\ \A x \in Socks : x # s => mask'[e][x] = mask[e][x]
      /\ \A f \in Epolls : f # e => mask'[f] = mask[f]
  BY <1>1, <1>2, SetMask DEF IInv
<1>4. active[e] \in Seq(Socks) /\ inactive[e] \in Seq(Socks) /\ Lists(e)
  BY DEF IInv, Types, AllLists
<1>5. s \notin ToSet(active[e]) /\ s \notin ToSet(inactive[e])
  BY <1>1, <1>4 DEF Lists
<1>6. {x \in Socks : On(e, x)}' = {x \in Socks : On(e, x)} \cup {s}
  BY <1>2, <1>3 DEF On
<1>7. \A x \in ToSet(inactive[e]) : ~Ready(e, x)' /\ x # s
  BY <1>1, <1>3, <1>4, <1>5, InList DEF IInv, InactiveQuiet, Ready
<1>8. CASE ep_events[s] \cap n # {}
  <2>1. /\ active'[e] = Append(active[e], s) /\ inactive' = inactive
        /\ \A f \in Epolls : f # e => active'[f] = active[f]
    BY <1>1, <1>8 DEF IInv, Types
  <2>2. /\ Append(active[e], s) \in Seq(Socks) /\ ToSet(Append(active[e], s)) = ToSet(active[e]) \cup {s}
        /\ IsInjective(Append(active[e], s))
    BY <1>4, <1>5, AppendList DEF Lists
  <2>3. active' \in [Epolls -> Seq(Socks)] /\ inactive' \in [Epolls -> Seq(Socks)]
    BY <1>1, <1>8, <2>2 DEF IInv, Types
  <2>4. Lists(e)'
    BY <1>4, <1>5, <1>6, <2>1, <2>2 DEF Lists
  <2> QED BY <1>1, <1>3, <1>7, <2>1, <2>3, <2>4, CtlStep
<1>9. CASE ep_events[s] \cap n = {}
  <2>1. /\ inactive'[e] = <<s>> \o inactive[e] /\ active' = active
        /\ \A f \in Epolls : f # e => inactive'[f] = inactive[f]
    BY <1>1, <1>9 DEF IInv, Types
  <2>2. /\ <<s>> \o inactive[e] \in Seq(Socks) /\ ToSet(<<s>> \o inactive[e]) = ToSet(inactive[e]) \cup {s}
        /\ IsInjective(<<s>> \o inactive[e])
    BY <1>4, <1>5, PrependList DEF Lists
  <2>3. active' \in [Epolls -> Seq(Socks)] /\ inactive' \in [Epolls -> Seq(Socks)]
    BY <1>1, <1>9, <2>2 DEF IInv, Types
  <2>4. Lists(e)'
    BY <1>4, <1>5, <1>6, <2>1, <2>2 DEF Lists
  <2>5. \A x \in ToSet(inactive'[e]) : ~Ready(e, x)'
    BY <1>1, <1>3, <1>7, <1>9, <2>1, <2>2 DEF Ready
  <2> QED BY <1>1, <1>3, <2>1, <2>3, <2>4, <2>5, CtlStep
<1> QED BY <1>8, <1>9

LEMMA CtlModKeeps ==
  ASSUME IInv, NoRaces, NEW t \in Threads, NEW e \in Epolls, NEW s \in Socks, NEW m \in SUBSET Events,
         CtlMod(t, e, s, m)
  PROVE  IInv'
<1> DEFINE n == m \cup {Err}
<1>1. /\ On(e, s) /\ UNCHANGED <<ep_events, pend, th>>
      /\ mask' = [mask EXCEPT ![e][s] = n]
      /\ IF ep_events[s] \cap n # {} THEN Activate(s, {e}) ELSE UNCHANGED <<active, inactive>>
  BY DEF CtlMod
<1>2. n \in SUBSET (Events \cup {Err}) /\ n # {}
  OBVIOUS
<1> HIDE DEF n
<1>3. /\ mask' \in [Epolls -> [Socks -> SUBSET (Events \cup {Err})]]
      /\ mask'[e][s] = n /\ \A x \in Socks : x # s => mask'[e][x] = mask[e][x]
      /\ \A f \in Epolls : f # e => mask'[f] = mask[f]
  BY <1>1, <1>2, SetMask DEF IInv
<1>4. \A f \in Epolls : \A x \in Socks : On(f, x)' <=> On(f, x)
  BY <1>1, <1>2, <1>3 DEF On
<1>5. \A x \in ToSet(inactive[e]) : x # s => ~Ready(e, x)'
  BY <1>1, <1>3, InList DEF IInv, Types, InactiveQuiet, Ready
<1>6. CASE ep_events[s] \cap n # {}
  <2>1. /\ active' \in [Epolls -> Seq(Socks)] /\ inactive' \in [Epolls -> Seq(Socks)]
        /\ AllLists'
        /\ \A f \in Epolls : ToSet(inactive'[f]) = ToSet(inactive[f]) \ (IF f \in {e} THEN {s} ELSE {})
    <3>1. {e} \in SUBSET Epolls /\ Activate(s, {e})
      BY <1>1, <1>6
    <3> QED BY <1>4, <3>1, ActivateKeeps DEF IInv
  <2>2. \A f \in Epolls : f # e => active'[f] = active[f] /\ inactive'[f] = inactive[f]
    BY <1>1, <1>6 DEF Activate
  <2>3. Lists(e)'
    BY <2>1 DEF AllLists
  <2>4. \A x \in ToSet(inactive'[e]) : ~Ready(e, x)'
    BY <1>5, <2>1
  <2> QED BY <1>1, <1>3, <2>1, <2>2, <2>3, <2>4, CtlStep
<1>7. CASE ep_events[s] \cap n = {}
  <2>1. active' = active /\ inactive' = inactive
    BY <1>1, <1>7
  <2>2. {x \in Socks : On(e, x)}' = {x \in Socks : On(e, x)}
    BY <1>4
  <2>3. Lists(e)'
    BY <2>1, <2>2 DEF IInv, AllLists, Lists
  <2>4. \A x \in ToSet(inactive'[e]) : ~Ready(e, x)'
    BY <1>1, <1>3, <1>5, <1>7, <2>1 DEF Ready
  <2>5. active' \in [Epolls -> Seq(Socks)] /\ inactive' \in [Epolls -> Seq(Socks)]
    BY <2>1 DEF IInv, Types
  <2> QED BY <1>1, <1>3, <2>1, <2>3, <2>4, <2>5, CtlStep
<1> QED BY <1>6, <1>7

LEMMA CtlDelKeeps ==
  ASSUME IInv, NoRaces, NEW t \in Threads, NEW e \in Epolls, NEW s \in Socks, CtlDel(t, e, s)
  PROVE  IInv'
<1>1. /\ UNCHANGED <<ep_events, pend, th>>
      /\ mask' = [mask EXCEPT ![e][s] = {}]
      /\ active' = [active EXCEPT ![e] = Unlink(active[e], s)]
      /\ inactive' = [inactive EXCEPT ![e] = Unlink(inactive[e], s)]
  BY DEF CtlDel
<1>2. /\ mask' \in [Epolls -> [Socks -> SUBSET (Events \cup {Err})]]
      /\ mask'[e][s] = {} /\ \A x \in Socks : x # s => mask'[e][x] = mask[e][x]
      /\ \A f \in Epolls : f # e => mask'[f] = mask[f]
  <2>1. {} \in SUBSET (Events \cup {Err})
    OBVIOUS
  <2> QED BY <1>1, <2>1, SetMask DEF IInv
<1>3. active[e] \in Seq(Socks) /\ inactive[e] \in Seq(Socks) /\ Lists(e)
  BY DEF IInv, Types, AllLists
<1>4. /\ Unlink(active[e], s) \in Seq(Socks) /\ ToSet(Unlink(active[e], s)) = ToSet(active[e]) \ {s}
      /\ IsInjective(Unlink(active[e], s))
      /\ Unlink(inactive[e], s) \in Seq(Socks) /\ ToSet(Unlink(inactive[e], s)) = ToSet(inactive[e]) \ {s}
      /\ IsInjective(Unlink(inactive[e], s))
  BY <1>3, UnlinkList DEF Lists
<1>5. /\ active'[e] = Unlink(active[e], s) /\ inactive'[e] = Unlink(inactive[e], s)
      /\ \A f \in Epolls : f # e => active'[f] = active[f] /\ inactive'[f] = inactive[f]
      /\ active' \in [Epolls -> Seq(Socks)] /\ inactive' \in [Epolls -> Seq(Socks)]
  BY <1>1, <1>4 DEF IInv, Types
<1>6. {x \in Socks : On(e, x)}' = {x \in Socks : On(e, x)} \ {s}
  BY <1>2 DEF On
<1>7. Lists(e)'
  BY <1>3, <1>4, <1>5, <1>6 DEF Lists
<1>8. \A x \in ToSet(inactive'[e]) : ~Ready(e, x)'
  BY <1>1, <1>2, <1>3, <1>4, <1>5, InList DEF IInv, InactiveQuiet, Ready
<1> QED BY <1>1, <1>2, <1>5, <1>7, <1>8, CtlStep

\* A step of a scan changes the lists of the epoll that is waited on.
LEMMA ScanStep ==
  ASSUME IInv, NEW t \in Threads, NEW r \in Thread, th' = [th EXCEPT ![t] = r],
         NEW e \in Epolls, UNCHANGED <<ep_events, mask, pend>>,
         active' \in [Epolls -> Seq(Socks)], inactive' \in [Epolls -> Seq(Socks)],
         \A f \in Epolls : f # e => active'[f] = active[f] /\ inactive'[f] = inactive[f],
         Lists(e)', \A x \in ToSet(inactive'[e]) : ~Ready(e, x),
         r.pc = "scan", r.ep = e, r.batch = th[t].batch, Cardinality(r.out) <= MaxEvents
  PROVE  IInv'
<1>1. th'[t] = r /\ \A u \in Threads : u # t => th'[u] = th[u]
  BY DEF IInv, Types
<1>2. Types'
  BY DEF IInv, Types
<1>3. AllLists'
  <2> SUFFICES ASSUME NEW f \in Epolls, f # e
               PROVE  Lists(f)'
    BY DEF AllLists
  <2>1. {x \in Socks : On(f, x)}' = {x \in Socks : On(f, x)}
    BY DEF On
  <2> QED BY <2>1 DEF IInv, AllLists, Lists
<1>4. AllWaiting'
  <2> SUFFICES ASSUME NEW u \in Threads
               PROVE  Waiting(u)'
    BY DEF AllWaiting
  <2>1. CASE u = t
    BY <1>1, <2>1 DEF Waiting
  <2>2. CASE u # t
    BY <1>1, <2>2 DEF IInv, AllWaiting, Waiting
  <2> QED BY <2>1, <2>2
<1>5. AllStillSo'
  <2> SUFFICES ASSUME NEW u \in Threads
               PROVE  StillSo(u)'
    BY DEF AllStillSo
  <2>1. CASE u = t
    BY <1>1, <2>1 DEF StillSo
  <2>2. CASE u # t
    <3>1. StillSo(u) /\ th'[u] = th[u]
      BY <1>1, <2>2 DEF IInv, AllStillSo
    <3> QED BY <3>1 DEF StillSo, Ready
  <2> QED BY <2>1, <2>2
<1>6. InactiveQuiet'
  <2> SUFFICES ASSUME NEW f \in Epolls, NEW x \in ToSet(inactive'[f])
               PROVE  ~Ready(f, x)'
    BY DEF InactiveQuiet
  <2>1. ~Ready(f, x)
    BY DEF IInv, InactiveQuiet
  <2> QED BY <2>1 DEF Ready
<1> QED BY <1>2, <1>3, <1>4, <1>5, <1>6 DEF IInv

LEMMA ReportKeeps ==
  ASSUME EpollAssumption, IInv, NEW t \in Threads, Report(t)
  PROVE  IInv'
<1> PICK e \in Epolls : e = th[t].ep
  BY DEF IInv, AllWaiting, Waiting, Report, Scanning
<1>1. active[e] \in Seq(Socks) /\ active[e] # <<>> /\ Lists(e)
  BY DEF IInv, Types, AllLists, Report, Scanning
<1>2. PICK s \in Socks : s = Head(active[e])
  BY <1>1, PushbackList
<1> DEFINE k == th[t].todo
<1> DEFINE r == [th[t] EXCEPT !.todo = k - 1, !.out = @ \cup {s}]
<1>3. /\ th[t] \in Thread /\ th[t].pc = "scan" /\ k > 0 /\ Cardinality(th[t].out) < MaxEvents
      /\ th' = [th EXCEPT ![t] = r] /\ UNCHANGED <<ep_events, mask, inactive, pend>>
      /\ active' = [active EXCEPT ![e] = Pushback(active[e])]
  BY <1>2 DEF Report, Scanning, IInv, Types
<1>4. k \in 0..Cardinality(Socks) /\ th[t].out \in SUBSET Socks
  BY <1>3 DEF Thread
<1>5. k - 1 \in 0..Cardinality(Socks) /\ th[t].out \cup {s} \in SUBSET Socks
  BY <1>3, <1>4, SocksFinite
<1> HIDE DEF k
<1>6. /\ r \in Thread /\ r.pc = "scan" /\ r.ep = e /\ r.batch = th[t].batch /\ r.out = th[t].out \cup {s}
  BY <1>3, <1>5 DEF Thread
<1> HIDE DEF r
<1>7. Cardinality(r.out) <= MaxEvents
  <2> DEFINE c == Cardinality(th[t].out)
  <2>1. IsFiniteSet(th[t].out) /\ c \in Nat /\ c < MaxEvents /\ MaxEvents \in Nat
    BY <1>3, <1>4, SocksFinite
  <2>2. Cardinality(r.out) = c \/ Cardinality(r.out) = c + 1
    BY <1>6, <2>1, FS_AddElement
  <2> HIDE DEF c
  <2> QED BY <2>1, <2>2
<1>8. /\ Pushback(active[e]) \in Seq(Socks) /\ ToSet(Pushback(active[e])) = ToSet(active[e])
      /\ IsInjective(Pushback(active[e]))
  BY <1>1, PushbackList DEF Lists
<1>9. /\ active'[e] = Pushback(active[e]) /\ inactive' = inactive
      /\ \A f \in Epolls : f # e => active'[f] = active[f]
      /\ active' \in [Epolls -> Seq(Socks)] /\ inactive' \in [Epolls -> Seq(Socks)]
  BY <1>3, <1>8 DEF IInv, Types
<1>10. Lists(e)'
  <2>1. {x \in Socks : On(e, x)}' = {x \in Socks : On(e, x)}
    BY <1>3 DEF On
  <2> QED BY <1>1, <1>8, <1>9, <2>1 DEF Lists
<1>11. \A x \in ToSet(inactive'[e]) : ~Ready(e, x)
  BY <1>9 DEF IInv, InactiveQuiet
<1> QED BY <1>3, <1>6, <1>7, <1>9, <1>10, <1>11, ScanStep

LEMMA DeactivateKeeps ==
  ASSUME EpollAssumption, IInv, NEW t \in Threads, Deactivate(t)
  PROVE  IInv'
<1> PICK e \in Epolls : e = th[t].ep
  BY DEF IInv, AllWaiting, Waiting, Deactivate
<1>1. active[e] \in Seq(Socks) /\ inactive[e] \in Seq(Socks) /\ Lists(e)
  BY DEF IInv, Types, AllLists
<1>2. PICK s \in Socks : s = th[t].s /\ ~Ready(e, s)
  BY DEF IInv, AllStillSo, StillSo, Deactivate
<1> DEFINE k == th[t].todo
<1> DEFINE r == [th[t] EXCEPT !.pc = "scan", !.todo = k - 1, !.s = Nil]
<1>3. /\ th[t] \in Thread /\ k > 0 /\ Cardinality(th[t].out) <= MaxEvents
      /\ th' = [th EXCEPT ![t] = r] /\ UNCHANGED <<ep_events, mask, pend>>
      /\ active' = [active EXCEPT ![e] = Unlink(active[e], s)]
      /\ inactive' = [inactive EXCEPT ![e] = IF Contains(active[e], s) THEN <<s>> \o inactive[e] ELSE inactive[e]]
  BY <1>2 DEF Deactivate, IInv, Types, AllWaiting, Waiting
<1>4. k \in 0..Cardinality(Socks)
  BY <1>3 DEF Thread
<1>5. k - 1 \in 0..Cardinality(Socks)
  BY <1>3, <1>4, SocksFinite
<1> HIDE DEF k
<1>6. /\ r \in Thread /\ r.pc = "scan" /\ r.ep = e /\ r.batch = th[t].batch /\ r.out = th[t].out
  BY <1>3, <1>5 DEF Thread
<1> HIDE DEF r
<1>7. Contains(active[e], s) <=> s \in ToSet(active[e])
  BY <1>1, InList
<1>8. /\ Unlink(active[e], s) \in Seq(Socks) /\ ToSet(Unlink(active[e], s)) = ToSet(active[e]) \ {s}
      /\ IsInjective(Unlink(active[e], s))
  BY <1>1, UnlinkList DEF Lists
<1> DEFINE i1 == IF Contains(active[e], s) THEN <<s>> \o inactive[e] ELSE inactive[e]
<1>9. /\ i1 \in Seq(Socks) /\ IsInjective(i1)
       /\ ToSet(i1) = ToSet(inactive[e]) \cup (IF s \in ToSet(active[e]) THEN {s} ELSE {})
  <2>1. CASE s \in ToSet(active[e])
    <3>1. s \notin ToSet(inactive[e]) /\ i1 = <<s>> \o inactive[e]
      BY <1>1, <1>7, <2>1 DEF Lists
    <3>2. /\ <<s>> \o inactive[e] \in Seq(Socks) /\ IsInjective(<<s>> \o inactive[e])
          /\ ToSet(<<s>> \o inactive[e]) = ToSet(inactive[e]) \cup {s}
      BY <1>1, <3>1, PrependList DEF Lists
    <3> QED BY <2>1, <3>1, <3>2
  <2>2. CASE s \notin ToSet(active[e])
    BY <1>1, <1>7, <2>2 DEF Lists
  <2> QED BY <2>1, <2>2
<1>10. /\ active'[e] = Unlink(active[e], s) /\ inactive'[e] = i1
       /\ \A f \in Epolls : f # e => active'[f] = active[f] /\ inactive'[f] = inactive[f]
       /\ active' \in [Epolls -> Seq(Socks)] /\ inactive' \in [Epolls -> Seq(Socks)]
  BY <1>3, <1>8, <1>9 DEF IInv, Types
<1> HIDE DEF i1
<1>11. Lists(e)'
  <2>1. {x \in Socks : On(e, x)}' = {x \in Socks : On(e, x)}
    BY <1>3 DEF On
  <2>2. ToSet(active'[e]) \cap ToSet(inactive'[e]) = {}
    BY <1>1, <1>8, <1>9, <1>10 DEF Lists
  <2>3. ToSet(active'[e]) \cup ToSet(inactive'[e]) = {x \in Socks : On(e, x)}
    BY <1>1, <1>8, <1>9, <1>10 DEF Lists
  <2> QED BY <1>8, <1>9, <1>10, <2>1, <2>2, <2>3 DEF Lists
<1>12. \A x \in ToSet(inactive'[e]) : ~Ready(e, x)
  BY <1>2, <1>9, <1>10 DEF IInv, InactiveQuiet
<1>13. Cardinality(r.out) <= MaxEvents
  BY <1>3, <1>6
<1> QED BY <1>3, <1>6, <1>10, <1>11, <1>12, <1>13, ScanStep
-----------------------------------------------------------------------------
LEMMA InitInv ==
  ASSUME EpollAssumption, Init
  PROVE  IInv
<1>1. {} \in SUBSET Events /\ {} \in SUBSET (Events \cup {Err}) /\ {} \in SUBSET (Socks \X Events)
  OBVIOUS
<1>2. /\ <<>> \in Seq(Socks) /\ ToSet(<<>>) = {} /\ IsInjective(<<>>)
  BY DEF ToSet, IsInjective
<1>3. Types
  BY <1>1, <1>2, IdleThread DEF Init, Types
<1>4. AllLists
  <2> SUFFICES ASSUME NEW e \in Epolls
               PROVE  Lists(e)
    BY DEF AllLists
  <2>1. active[e] = <<>> /\ inactive[e] = <<>> /\ \A s \in Socks : ~On(e, s)
    BY DEF Init, On
  <2> QED BY <1>2, <2>1 DEF Lists
<1>5. AllWaiting
  <2> SUFFICES ASSUME NEW t \in Threads
               PROVE  Waiting(t)
    BY DEF AllWaiting
  <2>1. th[t] = Idle
    BY DEF Init
  <2> QED BY <2>1, IdleThread, SocksFinite DEF Waiting
<1>6. AllStillSo
  BY IdleThread DEF Init, AllStillSo, StillSo
<1>7. InactiveQuiet
  BY <1>2 DEF Init, InactiveQuiet
<1> QED BY <1>3, <1>4, <1>5, <1>6, <1>7 DEF IInv

LEMMA StutterInv ==
  ASSUME IInv, UNCHANGED vars
  PROVE  IInv'
BY DEF vars, lists, IInv, Types, AllLists, Lists, On, AllWaiting, Waiting, AllStillSo, StillSo, InactiveQuiet, Ready

LEMMA NextInv ==
  ASSUME EpollAssumption, IInv, NoRaces, Next
  PROVE  IInv'
<1> PICK t \in Threads :
      \/ \E s \in Socks, ev \in Events : Arrive(t, s, ev) \/ ClearRead(t, s, ev)
      \/ \E e \in Epolls, s \in Socks :
           CtlDel(t, e, s) \/ \E m \in SUBSET Events : CtlAdd(t, e, s, m) \/ CtlMod(t, e, s, m)
      \/ \E e \in Epolls, tmo \in Timeouts : WaitCall(t, e, tmo)
      \/ WaitSteps(t) \/ Block(t) \/ ClearWrite(t) \/ Tick(t)
  BY DEF Next
<1>1. ASSUME NEW s \in Socks, NEW ev \in Events, Arrive(t, s, ev) \/ ClearRead(t, s, ev) PROVE IInv'
  BY <1>1, ArriveKeeps, ClearReadKeeps
<1>2. ASSUME NEW e \in Epolls, NEW s \in Socks, CtlDel(t, e, s) PROVE IInv'
  BY <1>2, CtlDelKeeps
<1>3. ASSUME NEW e \in Epolls, NEW s \in Socks, NEW m \in SUBSET Events,
             CtlAdd(t, e, s, m) \/ CtlMod(t, e, s, m)
      PROVE  IInv'
  BY <1>3, CtlAddKeeps, CtlModKeeps
<1>4. ASSUME NEW e \in Epolls, NEW tmo \in Timeouts, WaitCall(t, e, tmo) PROVE IInv'
  BY <1>4, WaitCallKeeps
<1>5. CASE SetRead(t) \/ SetWrite(t)
  BY <1>5, SetReadKeeps, SetWriteKeeps
<1>6. CASE PollDone(t) \/ Wake(t) \/ Block(t) \/ WaitAgain(t)
  BY <1>6, PollDoneKeeps, WakeKeeps, BlockKeeps, WaitAgainKeeps
<1>7. CASE Report(t) \/ NotReady(t) \/ Deactivate(t)
  BY <1>7, ReportKeeps, NotReadyKeeps, DeactivateKeeps
<1>8. CASE WaitReturn(t)
  BY <1>8, CallEnds DEF WaitReturn
<1>9. CASE ClearWrite(t) \/ Tick(t)
  BY <1>9, ClearWriteKeeps, TickKeeps
<1> QED BY <1>1, <1>2, <1>3, <1>4, <1>5, <1>6, <1>7, <1>8, <1>9 DEF WaitSteps

LEMMA InvSound ==
  ASSUME IInv
  PROVE  EventsKept
<1>1. TypeOK
  <2>1. \A t \in Threads : /\ th[t].todo \in 0..Cardinality(Socks) /\ th[t].out \subseteq Socks
                           /\ Cardinality(th[t].out) <= MaxEvents
    BY DEF IInv, Types, Thread, AllWaiting, Waiting
  <2> QED BY <2>1 DEF IInv, Types, TypeOK
<1>2. ListsSound
  BY DEF IInv, AllLists, Lists, ListsSound
<1> QED BY <1>1, <1>2 DEF IInv, EventsKept

\* EventsKept holds for all threads, epolls and sockets, whoever calls what on
\* which of them, as long as no thread changes a socket's events or mask while
\* another is between reading and using them (flextcp_epoll_set,
\* flextcp_epoll_clear and the scan of epoll_wait in sockets/epoll.c, which lock
\* nothing).
THEOREM EventsAreKept ==
  ASSUME EpollAssumption
  PROVE  Spec /\ [][NoRaces]_vars => []EventsKept
<1>1. Init => IInv
  BY InitInv
<1>2. IInv /\ [Next]_vars /\ [NoRaces]_vars => IInv'
  BY NextInv, StutterInv
<1>3. IInv => EventsKept
  BY InvSound
<1> QED BY <1>1, <1>2, <1>3, PTL DEF Spec

\* A step of the only thread is no race: one that changes events or masks ends
\* what the thread was doing, or is a call of its own.
LEMMA OneThreadStep ==
  ASSUME IInv, NEW t \in Threads, Threads = {t}, Next
  PROVE  NoRaces
<1> SUFFICES ASSUME th'[t].pc = th[t].pc, th[t].pc \in {"set", "clear", "deactivate"}
             PROVE  UNCHANGED <<ep_events, mask>>
  BY DEF NoRaces
<1>1. th \in [Threads -> Thread] /\ th[t] \in Thread
  BY DEF IInv, Types
<1>2. ASSUME NEW s \in Socks, NEW ev \in Events, Arrive(t, s, ev) \/ ClearRead(t, s, ev)
      PROVE  UNCHANGED <<ep_events, mask>>
  BY <1>2 DEF Arrive, ClearRead, lists
<1>3. ASSUME NEW e \in Epolls, NEW s \in Socks,
             CtlDel(t, e, s) \/ \E m \in SUBSET Events : CtlAdd(t, e, s, m) \/ CtlMod(t, e, s, m)
      PROVE  FALSE
  BY <1>3 DEF CtlDel, CtlAdd, CtlMod
<1>4. ASSUME NEW e \in Epolls, NEW tmo \in Timeouts, WaitCall(t, e, tmo)
      PROVE  FALSE
  BY <1>4 DEF WaitCall
<1>5. CASE SetRead(t) \/ PollDone(t) \/ Wake(t) \/ Block(t) \/ WaitAgain(t) \/ WaitReturn(t) \/ Tick(t)
  BY <1>5 DEF SetRead, PollDone, Wake, Block, WaitAgain, WaitReturn, Tick, lists
<1>6. CASE Report(t) \/ NotReady(t) \/ Deactivate(t)
  BY <1>6 DEF Report, NotReady, Deactivate, lists
<1>7. CASE SetWrite(t)
  <2>1. th[t].pc = "set" /\ th'[t].pc = "poll"
    BY <1>1, <1>7 DEF SetWrite, Thread
  <2> QED BY <2>1
<1>8. CASE ClearWrite(t)
  <2>1. th[t].pc = "clear" /\ th'[t].pc = "app"
    BY <1>1, <1>8 DEF ClearWrite, Idle
  <2> QED BY <2>1
<1> QED BY <1>2, <1>3, <1>4, <1>5, <1>6, <1>7, <1>8 DEF Next, WaitSteps

\* An application with one thread needs no proviso: EventsKept holds whatever
\* it adds to its epolls, modifies, waits for and clears (sockets/epoll.c).
THEOREM OneThreadKeepsAll ==
  ASSUME EpollAssumption, NEW t \in Threads, Threads = {t}
  PROVE  Spec => []EventsKept
<1>1. Init => IInv
  BY InitInv
<1>2. IInv /\ [Next]_vars => IInv'
  BY OneThreadStep, NextInv, StutterInv
<1>3. IInv => EventsKept
  BY InvSound
<1> QED BY <1>1, <1>2, <1>3, PTL DEF Spec
=============================================================================
