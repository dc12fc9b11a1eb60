----------------------------- MODULE SockProofs -----------------------------
(***************************************************************************)
(* Proofs that a socket and its endpoints (module Sock) agree, and that    *)
(* the socket does what module Global assumes of it, for any number of     *)
(* threads and of endpoints.  Every order of nn_bind, nn_shutdown,         *)
(* nn_close and the events of the context is covered, an endpoint added to *)
(* a socket that nn_close is stopping included.                            *)
(***************************************************************************)
EXTENDS Sock, FiniteSetTheorems, WellFoundedInduction, NaturalsInduction, TLAPS

-----------------------------------------------------------------------------
(* The threads inside an API call.                                         *)
Callers == {t \in Threads : pc[t] \in {"call", "done"}}

(* holds counts the calls in progress and, until nn_close, the hold of the *)
(* application itself.                                                     *)
HoldInv ==
  /\ Callers # {} => state # "NULL"
  /\ holds = Cardinality(Callers) + (IF state = "ACTIVE" THEN 1 ELSE 0)

(* One thread closes, and it gets past a semaphore only after the post     *)
(* that belongs to its socket.                                             *)
CloseInv ==
  /\ \A t, u \in Threads : pc[t] \in Closing /\ pc[u] \in Closing => t = u
  /\ \A t \in Threads :
       /\ pc[t] \in Closing => state \in Stopping
       /\ pc[t] \in {"relesem", "remove"} => state = "FINI" /\ termsem = 0
       /\ pc[t] = "remove" => holds = 0 /\ relesem = 0
  /\ state # "FINI" => termsem = 0
  /\ relesem > 0 => holds = 0

(* The lists say which endpoints run and which stop, and the state of the  *)
(* socket says how far it is with them and with the protocol.              *)
ListInv ==
  /\ eps = {e \in Eids : ep[e] = "ACTIVE"}
  /\ sdeps = {e \in Eids : ep[e] \in {"STOPPING", "IDLE"}}
  /\ \A e \in Eids : ep[e] # "none" => e < eid
  /\ state # "ACTIVE" => eps \subseteq late
  /\ state \notin {"ACTIVE", "STOPPING_EPS"} => sdeps \subseteq late
  /\ state = "NULL" => eps = {} /\ sdeps = {}
  /\ state \in {"ACTIVE", "STOPPING_EPS"} => proto \in {"nostop", "run"}
  /\ state = "STOPPING" => proto \in {"stopping", "stopped"}
  /\ state \in {"FINI", "NULL"} => proto \in {"nostop", "stopped"}

(* What an event in the queue says of the machine that raised it.          *)
Expected(ev) ==
  \/ ev.type = "EP_ACTION_STOPPED" /\ ev.ep \in Eids /\ ep[ev.ep] = "STOPPING"
  \/ ev.type = "EP_STOPPED" /\ ev.ep \in Eids /\ ep[ev.ep] = "IDLE"
  \/ ev.type = "PIPE" /\ ev.ep \in Eids /\ ep[ev.ep] \in {"ACTIVE", "STOPPING"}
       /\ Len(events) = 1
  \/ ev.type = "SOCK_STOPPED" /\ ev.ep = None /\ state = "STOPPING" /\ proto = "stopped"

(* Every event of the queue still meets the state it was raised for, and   *)
(* no machine has two events in the queue.                                 *)
EventInv ==
  /\ \A i \in 1 .. Len(events) : Expected(events[i])
  /\ \A i, j \in 1 .. Len(events) : events[i].ep = events[j].ep => i = j

IInv == TypeOK /\ OnlyLateEndpointsAbort /\ HoldInv /\ CloseInv /\ ListInv /\ EventInv

-----------------------------------------------------------------------------
(* A bounded set of naturals that is not empty has a largest element.      *)
LEMMA LargestExists ==
  ASSUME NEW m \in Nat, NEW S \in SUBSET (1 .. m), S # {}
  PROVE  \E x \in S : \A y \in S : y <= x
<1> DEFINE B == {k \in Nat : \A y \in S : y <= k}
<1>1. m \in B /\ B \subseteq Nat
  OBVIOUS
<1>2. PICK k \in B : \A j \in B : ~ (<<j, k>> \in OpToRel(<, Nat))
  <2> HIDE DEF B
  <2>. QED BY <1>1, NatLessThanWellFounded, WFMin
<1>3. \A j \in B : ~ (j < k)
  BY <1>1, <1>2 DEF OpToRel
<1>4. k \in S
  <2>1. SUFFICES ASSUME k \notin S PROVE FALSE
    OBVIOUS
  <2>2. k # 0 /\ k \in Nat
    <3>1. PICK y \in S : TRUE
      OBVIOUS
    <3>2. y \in 1 .. m /\ y <= k /\ k \in Nat
      BY <1>1
    <3>. QED
      BY <3>2
  <2>3. k - 1 \in B
    BY <2>1, <2>2
  <2>. QED
    BY <1>3, <2>2, <2>3
<1>. QED
  BY <1>2, <1>4

LEMMA BoundedFinite ==
  ASSUME NEW m \in Nat, NEW S \in SUBSET (1 .. m)
  PROVE  IsFiniteSet(S) /\ Cardinality(S) \in Nat
<1>1. IsFiniteSet(1 .. m)
  BY FS_Interval
<1>2. IsFiniteSet(S)
  BY <1>1, FS_Subset
<1>. QED
  BY <1>2, FS_CardinalityType

(* The endpoints of a set can be enumerated in the order of their ids.     *)
Sorted(q, n) == \A i, j \in 1 .. n : i < j => q[i] < q[j]

LEMMA SortedExists ==
  ASSUME NEW m \in Nat
  PROVE  \A S \in SUBSET (1 .. m) :
           \E q \in [1 .. Cardinality(S) -> S] : Sorted(q, Cardinality(S))
<1> DEFINE P(n) == \A S \in SUBSET (1 .. m) :
                     Cardinality(S) = n => \E q \in [1 .. n -> S] : Sorted(q, n)
           Bad == {n \in Nat : ~ P(n)}
<1>1. \A S \in SUBSET (1 .. m) : IsFiniteSet(S) /\ Cardinality(S) \in Nat
  BY BoundedFinite
<1>2. Bad = {}
  <2>1. SUFFICES ASSUME Bad # {} PROVE FALSE
    OBVIOUS
  <2>2. PICK n \in Bad : \A k \in Bad : ~ (<<k, n>> \in OpToRel(<, Nat))
    <3>1. Bad \subseteq Nat
      OBVIOUS
    <3> HIDE DEF Bad
    <3>. QED BY <2>1, <3>1, NatLessThanWellFounded, WFMin
  <2>3. n \in Nat /\ ~ P(n) /\ \A k \in Nat : k < n => P(k)
    <3>1. n \in Nat /\ ~ P(n)
      OBVIOUS
    <3>2. ASSUME NEW k \in Nat, k < n PROVE P(k)
      <4>1. <<k, n>> \in OpToRel(<, Nat)
        BY <3>1, <3>2 DEF OpToRel
      <4>2. k \notin Bad
        <5> HIDE DEF Bad
        <5>. QED BY <2>2, <4>1
      <4>. QED
        BY <4>2
    <3>. QED
      BY <3>1, <3>2
  <2>4. PICK S \in SUBSET (1 .. m) :
          Cardinality(S) = n /\ ~ \E q \in [1 .. n -> S] : Sorted(q, n)
    BY <2>3
  <2>5. n # 0
    <3>1. SUFFICES ASSUME n = 0 PROVE FALSE
      OBVIOUS
    <3>2. [i \in 1 .. 0 |-> 0] \in [1 .. n -> S]
      BY <3>1
    <3>3. Sorted([i \in 1 .. 0 |-> 0], n)
      BY <3>1 DEF Sorted
    <3>. QED
      BY <2>4, <3>2, <3>3
  <2>6. S # {}
    BY <2>4, <2>5, FS_EmptySet
  <2>7. PICK x \in S : \A y \in S : y <= x
    BY <2>6, LargestExists
  <2> DEFINE T == S \ {x}
  <2>8. Cardinality(T) = n - 1 /\ n - 1 \in Nat /\ T \in SUBSET (1 .. m)
    <3>1. IsFiniteSet(S)
      BY <1>1
    <3>2. Cardinality(T) = Cardinality(S) - 1
      BY <3>1, <2>7, FS_RemoveElement
    <3>. QED
      BY <2>3, <2>4, <2>5, <3>2
  <2>9. P(n - 1)
    BY <2>3, <2>8
  <2>10. PICK q \in [1 .. n - 1 -> T] : Sorted(q, n - 1)
    <3> HIDE DEF T
    <3>. QED BY <2>8, <2>9
  <2> DEFINE r == [i \in 1 .. n |-> IF i = n THEN x ELSE q[i]]
  <2>11. r \in [1 .. n -> S]
    BY <2>3, <2>5, <2>7, <2>10
  <2>12. ASSUME NEW i \in 1 .. n, NEW j \in 1 .. n, i < j PROVE r[i] < r[j]
    <3>1. i \in 1 .. n - 1 /\ r[i] = q[i] /\ q[i] \in T
      BY <2>3, <2>10, <2>12
    <3>2. CASE j = n
      <4>1. q[i] \in S /\ q[i] # x /\ x \in Nat /\ q[i] \in Nat
        <5>1. S \subseteq Nat
          OBVIOUS
        <5>. QED
          BY <3>1, <5>1
      <4>. QED
        BY <2>7, <3>1, <3>2, <4>1
    <3>3. CASE j # n
      <4>1. j \in 1 .. n - 1 /\ r[j] = q[j]
        BY <2>3, <3>3
      <4>. QED
        BY <2>10, <2>12, <3>1, <4>1 DEF Sorted
    <3>. QED
      BY <3>2, <3>3
  <2>13. Sorted(r, n)
    BY <2>12 DEF Sorted
  <2>. QED
    BY <2>4, <2>11, <2>13
<1>3. ASSUME NEW S \in SUBSET (1 .. m)
      PROVE  \E q \in [1 .. Cardinality(S) -> S] : Sorted(q, Cardinality(S))
  <2>1. P(Cardinality(S))
    BY <1>1, <1>2
  <2>. QED
    BY <2>1
<1>. QED
  BY <1>3

(* nn_sock_stop queues one event for every transport that stops at once,   *)
(* of an endpoint it stops, and no two for one.                            *)
LEMMA InListOrderFacts ==
  ASSUME NEW S \in SUBSET Eids
  PROVE  LET n == Cardinality(S) IN
         /\ n \in Nat
         /\ InListOrder(S) \in [1 .. n -> S]
         /\ \A i, j \in 1 .. n : InListOrder(S)[i] = InListOrder(S)[j] => i = j
<1> DEFINE n == Cardinality(S)
<1>1. n \in Nat
  BY BoundedFinite, SockAssumption DEF Eids
<1>2. \E q \in [1 .. n -> S] : \A i, j \in 1 .. n : i < j => q[i] < q[j]
  BY SortedExists, SockAssumption DEF Eids, Sorted
<1>3. /\ InListOrder(S) \in [1 .. n -> S]
      /\ \A i, j \in 1 .. n : i < j => InListOrder(S)[i] < InListOrder(S)[j]
  BY <1>2 DEF InListOrder
<1>4. PICK q : q = InListOrder(S)
  BY Zenon
<1>5. \A i \in 1 .. n : q[i] \in Nat
  <2>1. S \subseteq Nat
    BY SockAssumption DEF Eids
  <2>. QED
    BY <1>3, <1>4, <2>1
<1>6. \A i, j \in 1 .. n : q[i] = q[j] => i = j
  <2>1. SUFFICES ASSUME NEW i \in 1 .. n, NEW j \in 1 .. n, i < j PROVE q[i] # q[j]
    BY <1>1
  <2>. QED
    BY <1>3, <1>4, <1>5, <2>1
<1>. QED
  BY <1>1, <1>3, <1>4, <1>6

-----------------------------------------------------------------------------
LEMMA CallersFinite ==
  /\ IsFiniteSet(Callers) /\ Cardinality(Callers) \in 0 .. Cardinality(Threads)
  /\ Cardinality(Threads) \in Nat
  /\ Callers = {} <=> Cardinality(Callers) = 0
<1>1. Callers \subseteq Threads
  BY DEF Callers
<1>2. IsFiniteSet(Threads)
  BY SockAssumption
<1>3. IsFiniteSet(Callers) /\ Cardinality(Callers) <= Cardinality(Threads)
  BY <1>1, <1>2, FS_Subset
<1>4. Cardinality(Callers) \in Nat /\ Cardinality(Threads) \in Nat
  BY <1>2, <1>3, FS_CardinalityType
<1>5. Callers = {} <=> Cardinality(Callers) = 0
  BY <1>3, FS_EmptySet
<1>. QED
  BY <1>3, <1>4, <1>5

LEMMA InitInv == Init => IInv
<1> SUFFICES ASSUME Init PROVE IInv
  OBVIOUS
<1>1. Callers = {} /\ Cardinality(Callers) = 0
  <2>1. Callers = {}
    BY DEF Init, Callers
  <2>. QED
    BY <2>1, FS_EmptySet
<1>2. TypeOK
  <2>1. holds \in 0 .. Cardinality(Threads) + 1 /\ eid \in 1 .. MaxEid + 1
    BY CallersFinite, SockAssumption DEF Init
  <2>2. aborted \in BOOLEAN /\ late \subseteq Eids /\ pc \in [Threads -> {"ready", "call", "done"} \cup Closing]
    BY DEF Init
  <2>. QED
    BY <2>1, <2>2 DEF Init, TypeOK
<1>3. OnlyLateEndpointsAbort
  BY DEF Init, OnlyLateEndpointsAbort
<1>4. HoldInv
  BY <1>1 DEF Init, HoldInv
<1>5. CloseInv
  BY DEF Init, CloseInv, Closing
<1>6. ListInv
  BY DEF Init, ListInv
<1>7. EventInv
  BY DEF Init, EventInv
<1>. QED
  BY <1>2, <1>3, <1>4, <1>5, <1>6, <1>7 DEF IInv

(* A step that moves no thread and leaves the semaphores alone, in a       *)
(* socket that neither opens nor ends by it.                               *)
LEMMA QuietStep ==
  ASSUME IInv, UNCHANGED <<holds, termsem, relesem>>,
         state' = state \/ (state = "STOPPING_EPS" /\ state' = "STOPPING"),
         \A u \in Threads : pc'[u] = pc[u] \/ (pc[u] = "call" /\ pc'[u] = "done")
  PROVE  HoldInv' /\ CloseInv'
<1>1. Callers' = Callers
  BY DEF Callers
<1>2. HoldInv'
  BY <1>1 DEF IInv, HoldInv
<1>3. CloseInv'
  BY DEF IInv, CloseInv, Closing, Stopping
<1>. QED
  BY <1>2, <1>3

(* A step that leaves the endpoints, the protocol and the queue alone.     *)
LEMMA QuietLists ==
  ASSUME IInv, UNCHANGED <<state, eps, sdeps, eid, ep, tran, proto, events, late>>
  PROVE  ListInv' /\ EventInv'
<1>1. ListInv'
  BY DEF IInv, ListInv
<1>2. EventInv'
  BY DEF IInv, EventInv, Expected
<1>. QED
  BY <1>1, <1>2

(* A step that aborts nothing in a socket that stays the same one.         *)
LEMMA StillRuns ==
  ASSUME IInv, UNCHANGED <<late, aborted>> PROVE OnlyLateEndpointsAbort'
BY DEF IInv, OnlyLateEndpointsAbort

(* An assertion fails in a socket that has got a late endpoint.            *)
LEMMA AbortInv == ASSUME IInv, Abort, late # {} PROVE IInv'
<1> USE DEF Abort, sems, lists, machines
<1>1. HoldInv' /\ CloseInv'
  BY QuietStep
<1>2. ListInv' /\ EventInv'
  BY QuietLists
<1>3. TypeOK' /\ OnlyLateEndpointsAbort'
  BY DEF IInv, TypeOK, OnlyLateEndpointsAbort
<1>. QED
  BY <1>1, <1>2, <1>3 DEF IInv

LEMMA EmptyQueue ==
  ASSUME events' = <<>> PROVE EventInv' /\ events' \in Seq(Event)
<1>1. Len(events') = 0 /\ events' \in Seq(Event)
  OBVIOUS
<1>2. \A i \in 1 .. Len(events') : FALSE
  BY <1>1
<1>. QED
  BY <1>1, <1>2 DEF EventInv

LEMMA SingleEvent ==
  ASSUME NEW x \in Event, events' = <<x>>, Expected(x)'
  PROVE  EventInv' /\ events' \in Seq(Event)
<1>1. Len(events') = 1 /\ events'[1] = x /\ events' \in Seq(Event)
  OBVIOUS
<1>2. \A i \in 1 .. Len(events') : i = 1
  BY <1>1
<1>3. \A i \in 1 .. Len(events') : Expected(events[i])'
  BY <1>1, <1>2
<1>. QED
  BY <1>1, <1>2, <1>3 DEF EventInv

LEMMA nn_sock_holdInv ==
  ASSUME IInv, NEW t \in Threads, nn_sock_hold(t) PROVE IInv'
<1> USE DEF nn_sock_hold, Goto, lists, machines
<1>1. t \notin Callers /\ Callers' = Callers \cup {t}
  BY DEF IInv, TypeOK, Callers
<1>2. Cardinality(Callers') = Cardinality(Callers) + 1
  BY <1>1, CallersFinite, FS_AddElement
<1>3. HoldInv'
  BY <1>2, CallersFinite DEF IInv, HoldInv
<1>4. Cardinality(Callers') <= Cardinality(Threads)
  <2>1. Callers' \subseteq Threads
    BY <1>1 DEF Callers
  <2>. QED
    BY <2>1, SockAssumption, FS_Subset
<1>5. TypeOK'
  <2>1. holds' \in 0 .. Cardinality(Threads) + 1
    BY <1>2, <1>3, <1>4, CallersFinite DEF HoldInv
  <2>. QED
    BY <2>1 DEF IInv, TypeOK
<1>6. relesem = 0
  BY CallersFinite DEF IInv, TypeOK, HoldInv, CloseInv
<1>7. CloseInv'
  BY <1>6 DEF IInv, TypeOK, CloseInv, Closing, Stopping
<1>. QED
  BY <1>3, <1>5, <1>7, QuietLists, StillRuns DEF IInv

LEMMA nn_sock_releInv ==
  ASSUME IInv, NEW t \in Threads, nn_sock_rele(t) PROVE IInv'
<1> USE DEF nn_sock_rele, Rele, Goto, lists, machines
<1>1. t \in Callers /\ Callers' = Callers \ {t}
  BY DEF IInv, TypeOK, Callers
<1>2. Cardinality(Callers') = Cardinality(Callers) - 1
  BY <1>1, CallersFinite, FS_RemoveElement
<1>3. holds > 0 /\ relesem = 0 /\ state # "NULL"
  <2>1. holds > 0 /\ holds \in Nat /\ state # "NULL"
    BY <1>1, CallersFinite DEF IInv, HoldInv
  <2>. QED
    BY <2>1 DEF IInv, TypeOK, CloseInv
<1>4. HoldInv'
  BY <1>2, <1>3, CallersFinite DEF IInv, HoldInv
<1>5. TypeOK'
  <2>1. holds' \in 0 .. Cardinality(Threads) + 1 /\ relesem' \in 0 .. 1
    BY <1>3, CallersFinite DEF IInv, TypeOK
  <2>. QED
    BY <2>1 DEF IInv, TypeOK
<1>6. CloseInv'
  BY <1>3 DEF IInv, TypeOK, CloseInv, Closing, Stopping
<1>. QED
  BY <1>4, <1>5, <1>6, QuietLists, StillRuns DEF IInv

LEMMA nn_sock_initInv ==
  ASSUME IInv, NEW t \in Threads, nn_sock_init(t) PROVE IInv'
<1> USE DEF nn_sock_init
<1>1. Callers' = Callers /\ Callers = {}
  BY DEF Callers, IInv, HoldInv
<1>2. HoldInv'
  BY <1>1, CallersFinite DEF HoldInv
<1>3. TypeOK'
  <2>1. holds' \in 0 .. Cardinality(Threads) + 1 /\ eid' \in 1 .. MaxEid + 1
    BY CallersFinite, SockAssumption
  <2>. QED
    BY <2>1 DEF IInv, TypeOK
<1>4. CloseInv'
  BY DEF IInv, CloseInv, Stopping
<1>5. \A e \in Eids : ep[e] = "none"
  BY DEF IInv, TypeOK, ListInv
<1>6. ListInv'
  BY <1>5 DEF ListInv
<1>7. EventInv'
  BY <1>5 DEF IInv, EventInv, Expected
<1>8. OnlyLateEndpointsAbort'
  BY DEF OnlyLateEndpointsAbort
<1>. QED
  BY <1>2, <1>3, <1>4, <1>6, <1>7, <1>8 DEF IInv

LEMMA WaitTermsemInv ==
  ASSUME IInv, NEW t \in Threads, WaitTermsem(t) PROVE IInv'
<1> USE DEF WaitTermsem, Goto, lists, machines
<1>1. Callers' = Callers
  BY DEF IInv, TypeOK, Callers
<1>2. HoldInv'
  BY <1>1 DEF IInv, HoldInv
<1>3. state = "FINI" /\ termsem' = 0
  BY DEF IInv, TypeOK, CloseInv
<1>4. TypeOK'
  BY <1>3 DEF IInv, TypeOK, Closing
<1>5. CloseInv'
  BY <1>3 DEF IInv, TypeOK, CloseInv, Closing, Stopping
<1>. QED
  BY <1>2, <1>4, <1>5, QuietLists, StillRuns DEF IInv

LEMMA WaitRelesemInv ==
  ASSUME IInv, NEW t \in Threads, WaitRelesem(t) PROVE IInv'
<1> USE DEF WaitRelesem, Goto, lists, machines
<1>1. Callers' = Callers
  BY DEF IInv, TypeOK, Callers
<1>2. HoldInv'
  BY <1>1 DEF IInv, HoldInv
<1>3. state = "FINI" /\ termsem = 0 /\ holds = 0 /\ relesem' = 0
  BY DEF IInv, TypeOK, CloseInv
<1>4. TypeOK'
  BY <1>3 DEF IInv, TypeOK, Closing
<1>5. CloseInv'
  BY <1>3 DEF IInv, TypeOK, CloseInv, Closing, Stopping
<1>. QED
  BY <1>2, <1>4, <1>5, QuietLists, StillRuns DEF IInv

LEMMA nn_sock_termInv ==
  ASSUME IInv, NEW t \in Threads, nn_sock_term(t) PROVE IInv'
<1> USE DEF nn_sock_term, EnterCtx, Goto, sems, lists, machines
<1>1. state = "FINI" /\ termsem = 0 /\ holds = 0 /\ relesem = 0
  BY DEF IInv, CloseInv
<1>2. CASE sdeps = {} /\ eps = {}
  <2>1. /\ state' = "NULL" /\ pc' = [pc EXCEPT ![t] = "ready"] /\ events' = <<>>
        /\ UNCHANGED <<holds, termsem, relesem, eps, sdeps, eid, ep, tran, proto, late,
                       aborted>>
    BY <1>2
  <2>2. Callers' = Callers
    BY <2>1 DEF IInv, TypeOK, Callers
  <2>8. Callers = {}
    BY <1>1, CallersFinite DEF IInv, HoldInv
  <2>3. HoldInv'
    BY <1>1, <2>1, <2>2, <2>8, CallersFinite DEF HoldInv
  <2>4. TypeOK'
    BY <2>1 DEF IInv, TypeOK
  <2>5. CloseInv'
    BY <1>1, <2>1 DEF IInv, TypeOK, CloseInv, Closing
  <2>6. ListInv'
    BY <1>1, <1>2, <2>1 DEF IInv, ListInv
  <2>7. EventInv'
    BY <2>1, EmptyQueue
  <2>. QED
    BY <2>1, <2>3, <2>4, <2>5, <2>6, <2>7, StillRuns DEF IInv
<1>3. CASE ~ (sdeps = {} /\ eps = {})
  <2>1. late # {}
    BY <1>1, <1>3 DEF IInv, ListInv
  <2>2. Abort
    BY <1>3
  <2>. QED
    BY <2>1, <2>2, AbortInv
<1>. QED
  BY <1>2, <1>3

-----------------------------------------------------------------------------
LEMMA nn_sock_add_epInv ==
  ASSUME IInv, NEW t \in Threads, nn_sock_add_ep(t) PROVE IInv'
<1> USE DEF nn_sock_add_ep, EnterCtx, Goto, sems
<1>1. state # "NULL" /\ eid \in Eids /\ eid \in Nat /\ ep[eid] = "none"
  <2>1. t \in Callers
    BY DEF Callers
  <2>. QED
    BY <2>1, SockAssumption DEF IInv, HoldInv, TypeOK, ListInv, Eids
<1>2. TypeOK'
  <2>1. eid' \in 1 .. MaxEid + 1
    BY <1>1, SockAssumption DEF Eids
  <2>2. /\ ep' \in [Eids -> {"none", "ACTIVE", "STOPPING", "IDLE"}]
        /\ tran' \in [Eids -> {"run", "stopping", "stopped"}]
        /\ eps' \subseteq Eids /\ late' \subseteq Eids
    BY <1>1 DEF IInv, TypeOK
  <2>. QED
    BY <2>1, <2>2 DEF IInv, TypeOK
<1>3. HoldInv' /\ CloseInv'
  BY QuietStep DEF IInv, TypeOK
<1>4. ListInv'
  <2>1. \A e \in Eids : ep'[e] = IF e = eid THEN "ACTIVE" ELSE ep[e]
    BY DEF IInv, TypeOK
  <2>2. \A e \in Eids : e \in Nat
    BY SockAssumption DEF Eids
  <2>. QED
    BY <1>1, <2>1, <2>2 DEF IInv, ListInv
<1>5. EventInv'
  BY EmptyQueue
<1>6. OnlyLateEndpointsAbort'
  BY DEF IInv, OnlyLateEndpointsAbort
<1>. QED
  BY <1>2, <1>3, <1>4, <1>5, <1>6 DEF IInv

(* The endpoints in S, which run, begin to stop.                           *)
LEMMA EpStopFacts ==
  ASSUME IInv, events = <<>>, NEW S \in SUBSET eps, NEW Sync \in SUBSET S, EpStop(S, Sync)
  PROVE  /\ ep' \in [Eids -> {"none", "ACTIVE", "STOPPING", "IDLE"}]
         /\ tran' \in [Eids -> {"run", "stopping", "stopped"}]
         /\ \A e \in Eids : ep'[e] = IF e \in S THEN "STOPPING" ELSE ep[e]
         /\ events' \in Seq(Event)
         /\ EventInv'
<1> USE DEF EpStop
<1>0. eps \subseteq Eids
  BY DEF IInv, TypeOK
<1>1. /\ ep' \in [Eids -> {"none", "ACTIVE", "STOPPING", "IDLE"}]
      /\ tran' \in [Eids -> {"run", "stopping", "stopped"}]
      /\ \A e \in Eids : ep'[e] = IF e \in S THEN "STOPPING" ELSE ep[e]
  BY DEF IInv, TypeOK
<1> DEFINE n == Cardinality(Sync)
<1>2. /\ n \in Nat /\ InListOrder(Sync) \in [1 .. n -> Sync]
      /\ \A i, j \in 1 .. n : InListOrder(Sync)[i] = InListOrder(Sync)[j] => i = j
  BY <1>0, InListOrderFacts
<1>3. PICK q : q = InListOrder(Sync)
  BY Zenon
<1>4. n \in Nat /\ q \in [1 .. n -> Sync] /\ \A i, j \in 1 .. n : q[i] = q[j] => i = j
  BY <1>2, <1>3
<1> DEFINE r == [i \in 1 .. n |-> Ev("EP_ACTION_STOPPED", q[i])]
<1> HIDE DEF n
<1>5. \A i \in 1 .. n : r[i].ep = q[i] /\ r[i].type = "EP_ACTION_STOPPED" /\ r[i] \in Event
  BY <1>0, <1>4 DEF Ev, Event
<1>6. r \in Seq(Event) /\ Len(r) = n
  <2>1. r \in [1 .. n -> Event] /\ DOMAIN r = 1 .. n
    BY <1>5
  <2> HIDE DEF r
  <2>2. r \in Seq(Event)
    BY <1>4, <2>1
  <2>. QED
    BY <1>4, <2>1, <2>2
<1>7. events' = r
  <2>1. events' = <<>> \o r
    BY <1>3 DEF n
  <2> HIDE DEF r
  <2>. QED
    BY <1>6, <2>1
<1>8. EventInv'
  <2>1. \A i \in 1 .. n : q[i] \in S /\ q[i] \in Eids
    BY <1>0, <1>4
  <2>2. \A i \in 1 .. n : ep'[q[i]] = "STOPPING"
    BY <1>1, <2>1
  <2> HIDE DEF r
  <2>3. Len(events') = n /\ events' = r
    BY <1>6, <1>7
  <2>4. \A i \in 1 .. n : Expected(r[i])'
    BY <1>5, <2>1, <2>2, <2>3 DEF Expected
  <2>5. \A i, j \in 1 .. n : r[i].ep = r[j].ep => i = j
    BY <1>4, <1>5
  <2>. QED
    BY <2>3, <2>4, <2>5 DEF EventInv
<1>. QED
  BY <1>1, <1>6, <1>7, <1>8

LEMMA nn_sock_rm_epInv ==
  ASSUME IInv, NEW t \in Threads, NEW e \in Eids, nn_sock_rm_ep(t, e) PROVE IInv'
<1> USE DEF nn_sock_rm_ep, EnterCtx, Goto, sems
<1>1. PICK Sync \in SUBSET {e} : EpStop({e}, Sync)
  OBVIOUS
<1>2. /\ ep' \in [Eids -> {"none", "ACTIVE", "STOPPING", "IDLE"}]
      /\ tran' \in [Eids -> {"run", "stopping", "stopped"}]
      /\ \A f \in Eids : ep'[f] = IF f \in {e} THEN "STOPPING" ELSE ep[f]
      /\ events' \in Seq(Event)
      /\ EventInv'
  BY <1>1, EpStopFacts
<1>3. TypeOK'
  BY <1>2 DEF IInv, TypeOK
<1>4. HoldInv' /\ CloseInv'
  BY QuietStep DEF IInv, TypeOK
<1>5. ListInv'
  <2>1. ep[e] = "ACTIVE" /\ state # "NULL"
    BY DEF IInv, ListInv
  <2>. QED
    BY <1>2, <2>1 DEF IInv, ListInv
<1>. QED
  BY <1>2, <1>3, <1>4, <1>5, StillRuns DEF IInv

LEMMA nn_ep_stoppedInv ==
  ASSUME IInv, NEW e \in Eids, nn_ep_stopped(e) PROVE IInv'
<1> USE DEF nn_ep_stopped, EnterCtx, sems, lists
<1>1. PICK x : x = Ev("EP_ACTION_STOPPED", e)
  BY Zenon
<1>5. EventInv' /\ events' \in Seq(Event)
  <2>1. x \in Event /\ x.type = "EP_ACTION_STOPPED" /\ x.ep = e
    BY <1>1 DEF Ev, Event
  <2>2. Expected(x)' /\ events' = <<x>>
    BY <1>1, <2>1 DEF Expected
  <2>. QED
    BY <2>1, <2>2, SingleEvent
<1>2. TypeOK'
  BY <1>5 DEF IInv, TypeOK
<1>3. HoldInv' /\ CloseInv'
  BY QuietStep
<1>4. ListInv'
  BY DEF IInv, ListInv
<1>. QED
  BY <1>2, <1>3, <1>4, <1>5, StillRuns DEF IInv

LEMMA nn_sock_stoppedInv ==
  ASSUME IInv, nn_sock_stopped PROVE IInv'
<1> USE DEF nn_sock_stopped, EnterCtx, sems, lists
<1>1. PICK x : x = Ev("SOCK_STOPPED", None)
  BY Zenon
<1>2. state = "STOPPING"
  BY DEF IInv, TypeOK, Stopping, ListInv
<1>3. EventInv' /\ events' \in Seq(Event)
  <2>1. x \in Event /\ x.type = "SOCK_STOPPED" /\ x.ep = None
    BY <1>1 DEF Ev, Event
  <2>2. Expected(x)' /\ events' = <<x>>
    BY <1>1, <1>2, <2>1 DEF Expected
  <2>. QED
    BY <2>1, <2>2, SingleEvent
<1>4. TypeOK'
  BY <1>3 DEF IInv, TypeOK
<1>5. HoldInv' /\ CloseInv'
  BY QuietStep
<1>6. ListInv'
  BY <1>2 DEF IInv, ListInv
<1>. QED
  BY <1>3, <1>4, <1>5, <1>6, StillRuns DEF IInv

LEMMA PipeEventInv ==
  ASSUME IInv, NEW e \in Eids, PipeEvent(e) PROVE IInv'
<1> USE DEF PipeEvent, EnterCtx, sems, lists, machines
<1>1. PICK x : x = Ev("PIPE", e)
  BY Zenon
<1>5. EventInv' /\ events' \in Seq(Event)
  <2>1. x \in Event /\ x.type = "PIPE" /\ x.ep = e
    BY <1>1 DEF Ev, Event
  <2>2. events' = <<x>> /\ Len(events') = 1
    BY <1>1
  <2>3. Expected(x)'
    BY <2>1, <2>2 DEF Expected
  <2>. QED
    BY <2>1, <2>2, <2>3, SingleEvent
<1>2. TypeOK'
  BY <1>5 DEF IInv, TypeOK
<1>3. HoldInv' /\ CloseInv'
  BY QuietStep
<1>4. ListInv'
  BY DEF IInv, ListInv
<1>. QED
  BY <1>2, <1>3, <1>4, <1>5, StillRuns DEF IInv

-----------------------------------------------------------------------------
(* nn_close stops the socket: the hold of the application is dropped and   *)
(* the thread becomes the only closer.                                     *)
LEMMA nn_sock_stopInv ==
  ASSUME IInv, NEW t \in Threads, nn_sock_stop(t) PROVE IInv'
<1> USE DEF nn_sock_stop, EnterCtx, Goto, Rele
<1>1. Callers' = Callers
  BY DEF IInv, TypeOK, Callers
<1>2. holds > 0 /\ holds \in Nat /\ relesem = 0 /\ termsem = 0
  BY CallersFinite DEF IInv, TypeOK, HoldInv, CloseInv
<1>3. \A u \in Threads : pc[u] \notin Closing
  BY DEF IInv, CloseInv, Stopping
<1>4. /\ holds' \in 0 .. Cardinality(Threads) + 1 /\ relesem' \in 0 .. 1
      /\ relesem' > 0 => holds' = 0
      /\ pc' \in [Threads -> {"ready", "call", "done"} \cup Closing]
  BY <1>2, CallersFinite DEF IInv, TypeOK, Closing
<1>5. ASSUME state' \in Stopping, termsem' = (IF state' = "FINI" THEN 1 ELSE 0)
      PROVE  HoldInv' /\ CloseInv'
  <2>1. HoldInv'
    BY <1>1, <1>2, <1>5, CallersFinite DEF IInv, HoldInv, Stopping
  <2>2. \A u \in Threads : pc'[u] \in Closing => u = t /\ pc'[u] = "termsem"
    BY <1>3 DEF IInv, TypeOK
  <2>3. CloseInv'
    BY <1>4, <1>5, <2>2 DEF CloseInv
  <2>. QED
    BY <2>1, <2>3
<1>6. CASE eps \cup sdeps = {}
  <2>1. eps = {} /\ sdeps = {} /\ eps' = {} /\ sdeps' = {}
    BY <1>6
  <2>2. Finish2({}, <<>>) /\ UNCHANGED <<ep, tran>>
    BY <2>1
  <2>3. UNCHANGED <<eid, late, aborted>>
    OBVIOUS
  <2>4. PICK x : x = Ev("SOCK_STOPPED", None)
    BY Zenon
  <2>5. Append(<<>>, x) = <<x>>
    OBVIOUS
  <2>6. \/ /\ state' = "FINI" /\ termsem' = 1 /\ proto = "nostop" /\ proto' = "nostop"
           /\ events' = <<>>
        \/ /\ state' = "STOPPING" /\ termsem' = 0 /\ proto' = "stopping" /\ events' = <<>>
        \/ /\ state' = "STOPPING" /\ termsem' = 0 /\ proto' = "stopped" /\ events' = <<x>>
    <3>1. \/ /\ proto = "nostop" /\ Finish1 /\ events' = <<>> /\ UNCHANGED proto
          \/ /\ state' = "STOPPING" /\ UNCHANGED termsem
             /\ \/ proto' = "stopping" /\ events' = <<>>
                \/ proto' = "stopped" /\ events' = <<x>>
      BY <2>2, <2>4, <2>5 DEF Finish2
    <3>. QED
      BY <1>2, <3>1 DEF Finish1
  <2>7. HoldInv' /\ CloseInv'
    BY <1>5, <2>6 DEF Stopping
  <2>8. EventInv' /\ events' \in Seq(Event)
    <3>1. CASE events' = <<>>
      BY <3>1, EmptyQueue
    <3>2. CASE events' = <<x>> /\ state' = "STOPPING" /\ proto' = "stopped"
      <4>1. x \in Event /\ x.type = "SOCK_STOPPED" /\ x.ep = None
        BY <2>4 DEF Ev, Event
      <4>2. Expected(x)'
        BY <3>2, <4>1 DEF Expected
      <4>. QED
        BY <3>2, <4>1, <4>2, SingleEvent
    <3>. QED
      BY <2>6, <3>1, <3>2
  <2>9. TypeOK'
    <3>1. /\ state' \in Stopping /\ termsem' \in 0 .. 1
          /\ proto' \in {"nostop", "run", "stopping", "stopped"}
      BY <2>6 DEF Stopping
    <3>. QED
      BY <1>4, <2>1, <2>2, <2>3, <2>8, <3>1 DEF IInv, TypeOK, Stopping
  <2>10. ListInv'
    BY <2>1, <2>2, <2>3, <2>6 DEF IInv, ListInv
  <2>. QED
    BY <2>3, <2>7, <2>8, <2>9, <2>10, StillRuns DEF IInv
<1>7. CASE eps \cup sdeps # {}
  <2>1. /\ state' = "STOPPING_EPS" /\ UNCHANGED <<termsem, proto, late, aborted>>
        /\ eps' = {} /\ sdeps' = sdeps \cup eps /\ eid' = eid
    BY <1>7
  <2>2. PICK Sync \in SUBSET eps : EpStop(eps, Sync)
    BY <1>7
  <2>3. /\ ep' \in [Eids -> {"none", "ACTIVE", "STOPPING", "IDLE"}]
        /\ tran' \in [Eids -> {"run", "stopping", "stopped"}]
        /\ \A e \in Eids : ep'[e] = IF e \in eps THEN "STOPPING" ELSE ep[e]
        /\ events' \in Seq(Event)
        /\ EventInv'
    BY <2>2, EpStopFacts
  <2>4. HoldInv' /\ CloseInv'
    BY <1>2, <1>5, <2>1 DEF Stopping
  <2>5. TypeOK'
    BY <1>4, <2>1, <2>3 DEF IInv, TypeOK, Stopping
  <2>6. ListInv'
    <3>1. /\ eps = {e \in Eids : ep[e] = "ACTIVE"}
          /\ sdeps = {e \in Eids : ep[e] \in {"STOPPING", "IDLE"}}
          /\ \A e \in Eids : ep[e] # "none" => e < eid
          /\ proto \in {"nostop", "run"}
      BY DEF IInv, ListInv
    <3>2. {e \in Eids : ep'[e] = "ACTIVE"} = {}
      BY <2>3, <3>1
    <3>3. {e \in Eids : ep'[e] \in {"STOPPING", "IDLE"}} = sdeps \cup eps
      BY <2>3, <3>1
    <3>4. \A e \in Eids : ep'[e] # "none" => e < eid
      BY <2>3, <3>1
    <3>. QED
      BY <2>1, <3>1, <3>2, <3>3, <3>4 DEF ListInv
  <2>. QED
    BY <2>1, <2>3, <2>4, <2>5, <2>6, StillRuns DEF IInv
<1>. QED
  BY <1>6, <1>7

-----------------------------------------------------------------------------
(* The first event of the queue and what is left once it is fed.           *)
LEMMA QueueFacts ==
  ASSUME IInv, events # <<>>
  PROVE  LET ev == Head(events) queue == Tail(events) IN
         /\ ev \in Event /\ Expected(ev)
         /\ queue \in Seq(Event)
         /\ ev.type = "PIPE" => queue = <<>>
         /\ \A i \in 1 .. Len(queue) : /\ Expected(queue[i]) /\ queue[i].type # "PIPE"
                                       /\ queue[i].ep # ev.ep
         /\ \A i, j \in 1 .. Len(queue) : queue[i].ep = queue[j].ep => i = j
<1> DEFINE ev == Head(events)
           queue == Tail(events)
<1>1. events \in Seq(Event)
  BY DEF IInv, TypeOK
<1>2. /\ Len(events) \in Nat \ {0} /\ 1 \in 1 .. Len(events)
      /\ ev = events[1] /\ ev \in Event
      /\ queue \in Seq(Event) /\ Len(queue) = Len(events) - 1
  BY <1>1
<1>3. \A i \in 1 .. Len(queue) : i + 1 \in 1 .. Len(events) /\ queue[i] = events[i + 1]
  BY <1>1, <1>2
<1>4. Expected(ev) /\ \A i \in 1 .. Len(queue) : Expected(queue[i])
  BY <1>2, <1>3 DEF IInv, EventInv
<1>5. ev.type = "PIPE" => queue = <<>>
  BY <1>1, <1>2, <1>4 DEF Expected
<1>6. \A i \in 1 .. Len(queue) : queue[i].type # "PIPE"
  <2>1. SUFFICES ASSUME NEW i \in 1 .. Len(queue), queue[i].type = "PIPE" PROVE FALSE
    OBVIOUS
  <2>2. Len(events) = 1
    BY <1>4, <2>1 DEF Expected
  <2>3. Len(queue) = 0
    BY <1>2, <2>2
  <2>4. i \in 1 .. 0
    BY <2>3
  <2>. QED
    BY <2>4
<1>7. \A i \in 1 .. Len(queue) : queue[i].ep # ev.ep
  <2>1. TAKE i \in 1 .. Len(queue)
  <2>2. i + 1 # 1 /\ i + 1 \in 1 .. Len(events)
    BY <1>2, <1>3
  <2>. QED
    BY <1>2, <1>3, <2>2 DEF IInv, EventInv
<1>8. \A i, j \in 1 .. Len(queue) : queue[i].ep = queue[j].ep => i = j
  <2>1. TAKE i, j \in 1 .. Len(queue)
  <2>2. events[i + 1].ep = events[j + 1].ep => i + 1 = j + 1
    BY <1>3 DEF IInv, EventInv
  <2>. QED
    BY <1>2, <1>3, <2>2
<1>. QED
  BY <1>2, <1>4, <1>5, <1>6, <1>7, <1>8

(* The shutdown of the socket gets to its end.                             *)
LEMMA FiniStep ==
  ASSUME IInv, state \in {"STOPPING_EPS", "STOPPING"},
         state' = "FINI", termsem' = termsem + 1, UNCHANGED <<holds, relesem, pc>>
  PROVE  HoldInv' /\ CloseInv' /\ termsem' = 1
<1>1. Callers' = Callers
  BY DEF Callers
<1>2. termsem = 0
  BY DEF IInv, CloseInv
<1>3. HoldInv'
  BY <1>1 DEF IInv, HoldInv
<1>4. CloseInv'
  BY <1>2 DEF IInv, CloseInv, Stopping
<1>. QED
  BY <1>2, <1>3, <1>4

(* nn_ep_shutdown: the transport of an endpoint has stopped.               *)
LEMMA FeedEpActionStoppedInv ==
  ASSUME IInv, events # <<>>, Head(events).type = "EP_ACTION_STOPPED",
         FeedEpActionStopped(Head(events).ep, Tail(events))
  PROVE  IInv'
<1>1. PICK ev, queue : ev = Head(events) /\ queue = Tail(events)
  BY Zenon
<1>2. /\ ev \in Event /\ Expected(ev) /\ queue \in Seq(Event)
      /\ ev.type = "PIPE" => queue = <<>>
      /\ \A i \in 1 .. Len(queue) : /\ Expected(queue[i]) /\ queue[i].type # "PIPE"
                                    /\ queue[i].ep # ev.ep
      /\ \A i, j \in 1 .. Len(queue) : queue[i].ep = queue[j].ep => i = j
  BY <1>1, QueueFacts
<1> DEFINE e == ev.ep
           new == Ev("EP_STOPPED", e)
<1>3. e \in Eids /\ ep[e] = "STOPPING"
  BY <1>1, <1>2 DEF Expected
<1>4. /\ ep' = [ep EXCEPT ![e] = "IDLE"]
      /\ events' = Append(queue, new)
      /\ UNCHANGED <<state, holds, termsem, relesem, eps, sdeps, eid, tran, proto, pc, late,
                     aborted>>
  BY <1>1, <1>3 DEF FeedEpActionStopped, sems, lists
<1>5. new \in Event /\ new.type = "EP_STOPPED" /\ new.ep = e
  BY <1>3 DEF Ev, Event
<1> HIDE DEF new
<1>6. /\ Len(queue) \in Nat /\ events' \in Seq(Event) /\ Len(events') = Len(queue) + 1
      /\ events'[Len(queue) + 1] = new
      /\ \A i \in 1 .. Len(queue) : events'[i] = queue[i]
      /\ \A i \in 1 .. Len(events') : i \in 1 .. Len(queue) \/ i = Len(queue) + 1
  BY <1>2, <1>4, <1>5
<1>7. TypeOK'
  BY <1>3, <1>4, <1>6 DEF IInv, TypeOK
<1>8. HoldInv' /\ CloseInv'
  BY <1>4, QuietStep
<1>9. \A f \in Eids : ep'[f] = IF f = e THEN "IDLE" ELSE ep[f]
  BY <1>4 DEF IInv, TypeOK
<1>10. ListInv'
  BY <1>3, <1>4, <1>9 DEF IInv, ListInv
<1>11. EventInv'
  <2>1. ASSUME NEW i \in 1 .. Len(queue) PROVE Expected(queue[i])'
    <3>1. Expected(queue[i]) /\ queue[i].type # "PIPE" /\ queue[i].ep # e
      BY <1>2
    <3>. QED
      BY <1>4, <1>9, <3>1 DEF Expected
  <2>2. Expected(new)'
    BY <1>3, <1>5, <1>9 DEF Expected
  <2>3. \A i \in 1 .. Len(events') : Expected(events[i])'
    BY <1>6, <2>1, <2>2
  <2>4. \A i, j \in 1 .. Len(events') : events'[i].ep = events'[j].ep => i = j
    BY <1>2, <1>5, <1>6
  <2>. QED
    BY <2>3, <2>4 DEF EventInv
<1>. QED
  BY <1>4, <1>7, <1>8, <1>10, <1>11, StillRuns DEF IInv

(* nn_sock_shutdown: a stopped endpoint is freed; the last one of a socket *)
(* being closed lets the shutdown go on to the protocol or to its end.     *)
LEMMA FeedEpStoppedInv ==
  ASSUME IInv, events # <<>>, Head(events).type = "EP_STOPPED",
         ~ UnexpectedEpStopped(Head(events).ep),
         FeedEpStopped(Head(events).ep, Tail(events))
  PROVE  IInv'
<1>1. PICK ev, queue : ev = Head(events) /\ queue = Tail(events)
  BY Zenon
<1>2. /\ ev \in Event /\ Expected(ev) /\ queue \in Seq(Event)
      /\ ev.type = "PIPE" => queue = <<>>
      /\ \A i \in 1 .. Len(queue) : /\ Expected(queue[i]) /\ queue[i].type # "PIPE"
                                    /\ queue[i].ep # ev.ep
      /\ \A i, j \in 1 .. Len(queue) : queue[i].ep = queue[j].ep => i = j
  BY <1>1, QueueFacts
<1> DEFINE e == ev.ep
           new == Ev("SOCK_STOPPED", None)
<1>3. /\ e \in Eids /\ ep[e] = "IDLE" /\ e \in sdeps
      /\ state \in {"ACTIVE", "STOPPING_EPS"}
  <2>1. e \in Eids /\ ep[e] = "IDLE"
    BY <1>1, <1>2 DEF Expected
  <2>2. e \in sdeps /\ state # "NULL"
    BY <2>1 DEF IInv, ListInv
  <2>. QED
    BY <1>1, <2>1, <2>2 DEF IInv, TypeOK, Stopping, UnexpectedEpStopped
<1>4. /\ sdeps' = sdeps \ {e}
      /\ ep' = [ep EXCEPT ![e] = "none"]
      /\ UNCHANGED <<holds, relesem, eps, eid, tran, pc, late, aborted>>
  BY <1>1 DEF FeedEpStopped
<1>5. \A f \in Eids : ep'[f] = IF f = e THEN "none" ELSE ep[f]
  BY <1>4 DEF IInv, TypeOK
<1>6. /\ ep' \in [Eids -> {"none", "ACTIVE", "STOPPING", "IDLE"}]
      /\ eps' = {f \in Eids : ep'[f] = "ACTIVE"}
      /\ sdeps' = {f \in Eids : ep'[f] \in {"STOPPING", "IDLE"}}
      /\ \A f \in Eids : ep'[f] # "none" => f < eid'
  BY <1>3, <1>4, <1>5 DEF IInv, TypeOK, ListInv
<1>7. ASSUME NEW i \in 1 .. Len(queue)
      PROVE  Expected(queue[i])' /\ queue[i].ep \in Eids
  <2>1. Expected(queue[i]) /\ queue[i].type # "PIPE" /\ queue[i].ep # e
    BY <1>2
  <2>. QED
    BY <1>3, <1>5, <2>1 DEF Expected
<1>8. ASSUME events' = queue PROVE events' \in Seq(Event) /\ EventInv'
  BY <1>2, <1>7, <1>8 DEF EventInv
<1>9. CASE state = "ACTIVE"
  <2>1. events' = queue /\ UNCHANGED <<state, termsem, proto>>
    BY <1>1, <1>9 DEF FeedEpStopped
  <2>2. HoldInv' /\ CloseInv'
    BY <1>4, <2>1, QuietStep
  <2>3. TypeOK'
    BY <1>4, <1>6, <1>8, <2>1 DEF IInv, TypeOK
  <2>4. ListInv'
    BY <1>6, <1>9, <2>1 DEF IInv, ListInv
  <2>. QED
    BY <1>4, <1>8, <2>1, <2>2, <2>3, <2>4, StillRuns DEF IInv
<1>10. CASE state = "STOPPING_EPS"
  <2>1. Finish2(sdeps', queue)
    BY <1>1, <1>10 DEF FeedEpStopped
  <2>2. eps \subseteq late /\ proto \in {"nostop", "run"}
    BY <1>10 DEF IInv, ListInv
  <2>3. OnlyLateEndpointsAbort'
    BY <1>4, StillRuns
  <2>4. CASE /\ state' = "STOPPING_EPS" /\ events' = queue
             /\ UNCHANGED <<termsem, proto>>
    <3>1. HoldInv' /\ CloseInv'
      BY <1>4, <1>10, <2>4, QuietStep
    <3>2. TypeOK'
      BY <1>4, <1>6, <1>8, <2>4 DEF IInv, TypeOK, Stopping
    <3>3. ListInv'
      BY <1>4, <1>6, <2>2, <2>4 DEF ListInv
    <3>. QED
      BY <1>8, <2>3, <2>4, <3>1, <3>2, <3>3 DEF IInv
  <2>5. CASE /\ sdeps' = {} /\ proto = "nostop" /\ Finish1
             /\ events' = queue /\ UNCHANGED proto
    <3>1. HoldInv' /\ CloseInv' /\ termsem' = 1
      BY <1>4, <1>10, <2>5, FiniStep DEF Finish1
    <3>2. TypeOK'
      <4>1. events' \in Seq(Event) /\ termsem' \in 0 .. 1
        BY <1>8, <2>5, <3>1
      <4>2. state' = "FINI" /\ UNCHANGED proto
        BY <2>5 DEF Finish1
      <4>. QED
        BY <1>4, <1>6, <4>1, <4>2 DEF IInv, TypeOK, Stopping
    <3>3. ListInv'
      BY <1>4, <1>6, <2>2, <2>5 DEF ListInv, Finish1
    <3>. QED
      BY <1>8, <2>3, <2>5, <3>1, <3>2, <3>3 DEF IInv
  <2>6. CASE /\ sdeps' = {} /\ state' = "STOPPING" /\ UNCHANGED termsem
             /\ \/ proto' = "stopping" /\ events' = queue
                \/ proto' = "stopped" /\ events' = Append(queue, new)
    <3>1. HoldInv' /\ CloseInv'
      BY <1>4, <1>10, <2>6, QuietStep
    <3>2. ListInv'
      BY <1>4, <1>6, <2>2, <2>6 DEF ListInv
    <3>3. events' \in Seq(Event) /\ EventInv'
      <4>1. CASE events' = queue
        BY <1>8, <4>1
      <4>2. CASE proto' = "stopped" /\ events' = Append(queue, new)
        <5>1. new \in Event /\ new.type = "SOCK_STOPPED" /\ new.ep = None
          BY DEF Ev, Event
        <5> HIDE DEF new
        <5>2. /\ Len(queue) \in Nat /\ events' \in Seq(Event)
              /\ Len(events') = Len(queue) + 1
              /\ events'[Len(queue) + 1] = new
              /\ \A i \in 1 .. Len(queue) : events'[i] = queue[i]
              /\ \A i \in 1 .. Len(events') : i \in 1 .. Len(queue) \/ i = Len(queue) + 1
          BY <1>2, <4>2, <5>1
        <5>3. Expected(new)'
          BY <2>6, <4>2, <5>1 DEF Expected
        <5>4. \A i \in 1 .. Len(events') : Expected(events[i])'
          BY <1>7, <5>2, <5>3
        <5>5. None \notin Eids
          BY DEF None, Eids
        <5>6. \A i, j \in 1 .. Len(events') : events'[i].ep = events'[j].ep => i = j
          <6>1. TAKE i, j \in 1 .. Len(events')
          <6>2. CASE i \in 1 .. Len(queue) /\ j \in 1 .. Len(queue)
            BY <1>2, <5>2, <6>2
          <6>3. CASE i = Len(queue) + 1 /\ j \in 1 .. Len(queue)
            BY <1>7, <5>1, <5>2, <5>5, <6>3
          <6>4. CASE j = Len(queue) + 1 /\ i \in 1 .. Len(queue)
            BY <1>7, <5>1, <5>2, <5>5, <6>4
          <6>. QED
            BY <5>2, <6>2, <6>3, <6>4
        <5>. QED
          BY <5>2, <5>4, <5>6 DEF EventInv
      <4>. QED
        BY <2>6, <4>1, <4>2
    <3>4. TypeOK'
      BY <1>4, <1>6, <2>6, <3>3 DEF IInv, TypeOK, Stopping
    <3>. QED
      BY <2>3, <3>1, <3>2, <3>3, <3>4 DEF IInv
  <2>. QED
    BY <2>1, <2>4, <2>5, <2>6 DEF Finish2
<1>. QED
  BY <1>3, <1>9, <1>10

LEMMA FeedSockStoppedInv ==
  ASSUME IInv, events # <<>>, Head(events).type = "SOCK_STOPPED",
         FeedSockStopped(Tail(events))
  PROVE  IInv'
<1>1. PICK ev, queue : ev = Head(events) /\ queue = Tail(events)
  BY Zenon
<1>2. /\ ev \in Event /\ Expected(ev) /\ queue \in Seq(Event)
      /\ ev.type = "PIPE" => queue = <<>>
      /\ \A i \in 1 .. Len(queue) : /\ Expected(queue[i]) /\ queue[i].type # "PIPE"
                                    /\ queue[i].ep # ev.ep
      /\ \A i, j \in 1 .. Len(queue) : queue[i].ep = queue[j].ep => i = j
  BY <1>1, QueueFacts
<1>3. ev.ep = None /\ state = "STOPPING" /\ proto = "stopped"
  BY <1>1, <1>2 DEF Expected
<1>7. /\ state' = "FINI" /\ termsem' = termsem + 1 /\ events' = queue
      /\ UNCHANGED <<holds, relesem, eps, sdeps, eid, ep, tran, proto, pc, late, aborted>>
  BY <1>1, <1>3 DEF FeedSockStopped, Finish1, lists, machines
<1>8. HoldInv' /\ CloseInv' /\ termsem' = 1
  BY <1>3, <1>7, FiniStep
<1>9. TypeOK'
  <2>1. events' \in Seq(Event) /\ termsem' \in 0 .. 1
    BY <1>2, <1>7, <1>8
  <2>. QED
    BY <1>7, <2>1 DEF IInv, TypeOK, Stopping
<1>10. ListInv'
  BY <1>3, <1>7 DEF IInv, ListInv
<1>11. EventInv'
  <2>1. ASSUME NEW i \in 1 .. Len(queue) PROVE Expected(queue[i])'
    <3>1. Expected(queue[i]) /\ queue[i].type # "PIPE" /\ queue[i].ep # None
      BY <1>2, <1>3
    <3>. QED
      BY <1>7, <3>1 DEF Expected
  <2>. QED
    BY <1>2, <1>7, <2>1 DEF EventInv
<1>. QED
  BY <1>7, <1>8, <1>9, <1>10, <1>11, StillRuns DEF IInv

LEMMA FeedPipeInv ==
  ASSUME IInv, events # <<>>, Head(events).type = "PIPE",
         FeedPipe(Tail(events))
  PROVE  IInv'
<1>1. PICK ev, queue : ev = Head(events) /\ queue = Tail(events)
  BY Zenon
<1>2. ev \in Event /\ Expected(ev) /\ queue = <<>>
  BY <1>1, QueueFacts
<1>3. late # {} \/ state \in {"ACTIVE", "STOPPING_EPS"}
  <2>1. ev.ep \in Eids /\ ep[ev.ep] \in {"ACTIVE", "STOPPING"}
    BY <1>1, <1>2 DEF Expected
  <2>2. ev.ep \in eps \cup sdeps
    BY <2>1 DEF IInv, ListInv
  <2>. QED
    BY <2>2 DEF IInv, ListInv
<1>4. CASE state \in {"ACTIVE", "STOPPING_EPS"}
  <2>1. /\ events' = <<>>
        /\ UNCHANGED <<state, holds, termsem, relesem, eps, sdeps, eid, ep, tran, proto, pc,
                       late, aborted>>
    BY <1>1, <1>2, <1>4 DEF FeedPipe, sems, lists, machines
  <2>2. HoldInv' /\ CloseInv'
    BY <2>1, QuietStep
  <2>3. TypeOK'
    <3>1. events' \in Seq(Event)
      BY <2>1
    <3>. QED
      BY <2>1, <3>1 DEF IInv, TypeOK
  <2>4. ListInv'
    BY <2>1 DEF IInv, ListInv
  <2>5. EventInv'
    BY <2>1 DEF EventInv
  <2>. QED
    BY <2>1, <2>2, <2>3, <2>4, <2>5, StillRuns DEF IInv
<1>5. CASE state \notin {"ACTIVE", "STOPPING_EPS"}
  <2>1. Abort
    BY <1>5 DEF FeedPipe
  <2>. QED
    BY <1>3, <1>5, <2>1, AbortInv
<1>. QED
  BY <1>4, <1>5

(* An endpoint stops in a socket that does not expect it: it is a late     *)
(* one, or a late one is left in eps.                                      *)
LEMMA UnexpectedEpStoppedInv ==
  ASSUME IInv, events # <<>>, Head(events).type = "EP_STOPPED",
         UnexpectedEpStopped(Head(events).ep),
         FeedEpStopped(Head(events).ep, Tail(events))
  PROVE  IInv'
<1>1. PICK ev : ev = Head(events)
  BY Zenon
<1>2. ev.ep \in Eids /\ ep[ev.ep] = "IDLE"
  BY <1>1, QueueFacts DEF Expected
<1>3. ev.ep \in sdeps
  BY <1>2 DEF IInv, ListInv
<1>4. late # {}
  BY <1>1, <1>3 DEF IInv, ListInv, UnexpectedEpStopped
<1>. QED
  BY <1>4, AbortInv DEF FeedEpStopped

LEMMA nn_ctx_leaveInv ==
  ASSUME IInv, nn_ctx_leave PROVE IInv'
BY FeedEpActionStoppedInv, FeedEpStoppedInv, UnexpectedEpStoppedInv, FeedSockStoppedInv,
   FeedPipeInv
DEF nn_ctx_leave

LEMMA NextInv == IInv /\ [Next]_vars => IInv'
<1> SUFFICES ASSUME IInv, [Next]_vars PROVE IInv'
  OBVIOUS
<1>1. ASSUME NEW t \in Threads,
             \/ nn_sock_init(t) \/ nn_sock_hold(t) \/ nn_sock_rele(t)
             \/ nn_sock_add_ep(t) \/ \E e \in Eids : nn_sock_rm_ep(t, e)
             \/ nn_sock_stop(t) \/ WaitTermsem(t) \/ WaitRelesem(t)
             \/ nn_sock_term(t)
      PROVE  IInv'
  BY <1>1, nn_sock_initInv, nn_sock_holdInv, nn_sock_releInv, nn_sock_add_epInv,
     nn_sock_rm_epInv, nn_sock_stopInv, WaitTermsemInv, WaitRelesemInv, nn_sock_termInv
<1>2. ASSUME NEW e \in Eids, nn_ep_stopped(e) \/ PipeEvent(e) PROVE IInv'
  BY <1>2, nn_ep_stoppedInv, PipeEventInv
<1>3. CASE nn_sock_stopped
  BY <1>3, nn_sock_stoppedInv
<1>4. CASE nn_ctx_leave
  BY <1>4, nn_ctx_leaveInv
<1>5. CASE Dead \/ UNCHANGED vars
  <2>1. HoldInv' /\ CloseInv'
    BY <1>5, QuietStep DEF vars, Dead
  <2>2. ListInv' /\ EventInv'
    BY <1>5, QuietLists DEF vars, Dead
  <2>3. TypeOK' /\ OnlyLateEndpointsAbort'
    BY <1>5 DEF vars, Dead, IInv, TypeOK, OnlyLateEndpointsAbort
  <2>. QED
    BY <2>1, <2>2, <2>3 DEF IInv
<1>. QED
  BY <1>1, <1>2, <1>3, <1>4, <1>5 DEF Next

-----------------------------------------------------------------------------
LEMMA InvHolds == Spec => []IInv
<1>1. Init => IInv
  BY InitInv
<1>2. IInv /\ [Next]_vars => IInv'
  BY NextInv
<1>. QED
  BY <1>1, <1>2, PTL DEF Spec

(* nn_bind, nn_shutdown and nn_close on one socket, by any number of       *)
(* threads, with any number of endpoints, in any order: every endpoint is  *)
(* in the list its state says, no event outlives its endpoint, nn_close is *)
(* not woken before the protocol and all the endpoints created before it   *)
(* are done, and no assertion fails unless an endpoint was created after   *)
(* it.                                                                     *)
THEOREM SockSound == Spec => []Sound
<1>1. IInv => Sound
  <2> SUFFICES ASSUME IInv PROVE Sound
    OBVIOUS
  <2>1. TypeOK /\ OnlyLateEndpointsAbort
    BY DEF IInv
  <2>2. EndpointsOwned
    BY DEF IInv, EventInv, Expected, ListInv, EndpointsOwned
  <2>3. FiniMeansStopped
    BY DEF IInv, TypeOK, ListInv, FiniMeansStopped
  <2>. QED
    BY <2>1, <2>2, <2>3 DEF Sound
<1>. QED
  BY <1>1, InvHolds, PTL

-----------------------------------------------------------------------------
(* "The socket itself will not be freed while the hold is active": while a *)
(* call runs its socket is there and nn_close has not begun to take it     *)
(* apart.                                                                  *)
CallKeepsSocket ==
  \A t \in Threads : pc[t] \in {"call", "done"} =>
    state # "NULL" /\ \A u \in Threads : pc[u] # "remove"

THEOREM HoldKeepsSocket == Spec => []CallKeepsSocket
<1>1. IInv => CallKeepsSocket
  <2> SUFFICES ASSUME IInv, NEW t \in Threads, pc[t] \in {"call", "done"}
               PROVE  state # "NULL" /\ \A u \in Threads : pc[u] # "remove"
    BY DEF CallKeepsSocket
  <2>1. t \in Callers
    BY DEF Callers
  <2>2. state # "NULL" /\ holds # 0
    BY <2>1, CallersFinite DEF IInv, HoldInv
  <2>. QED
    BY <2>2 DEF IInv, CloseInv
<1>. QED
  BY <1>1, InvHolds, PTL

(* An endpoint goes through its states in order and skips none: created,   *)
(* stopped, idle, freed; it is created under a new id and freed only while *)
(* the socket still serves its endpoints, so that a freed one is never     *)
(* touched again in the life of its socket.                                *)
EndpointStep ==
  \A e \in Eids : ep'[e] # ep[e] =>
    \/ ep[e] = "none" /\ ep'[e] = "ACTIVE" /\ state # "NULL" /\ e = eid /\ eid' > e
    \/ ep[e] = "ACTIVE" /\ ep'[e] = "STOPPING" /\ (state = "ACTIVE" \/ e \in late)
    \/ ep[e] = "STOPPING" /\ ep'[e] = "IDLE"
    \/ ep[e] = "IDLE" /\ ep'[e] = "none" /\ state \in {"ACTIVE", "STOPPING_EPS"}

THEOREM EndpointLife == Spec => [][EndpointStep]_vars
<1>1. IInv /\ [Next]_vars => [EndpointStep]_vars
  <2> SUFFICES ASSUME IInv, Next, NEW e \in Eids, ep'[e] # ep[e]
               PROVE  EndpointStep!(e)!2
    BY DEF EndpointStep
  <2>1. CASE \E t \in Threads : nn_sock_add_ep(t)
    <3>1. eid \in Nat /\ eid \in Eids /\ eid' = eid + 1 /\ state # "NULL"
      <4>1. Callers # {}
        BY <2>1 DEF nn_sock_add_ep, Callers
      <4>. QED
        BY <2>1, <4>1 DEF nn_sock_add_ep, IInv, HoldInv, TypeOK
    <3>2. ep' = [ep EXCEPT ![eid] = "ACTIVE"]
      BY <2>1 DEF nn_sock_add_ep
    <3>3. e = eid /\ ep'[e] = "ACTIVE"
      BY <3>1, <3>2 DEF IInv, TypeOK
    <3>4. ep[e] = "none"
      BY <3>1, <3>3 DEF IInv, ListInv
    <3>. QED
      BY <3>1, <3>3, <3>4
  <2>2. CASE \E t \in Threads, f \in Eids : nn_sock_rm_ep(t, f)
    <3>1. PICK f \in Eids : f \in eps /\ \E Sync \in SUBSET {f} : EpStop({f}, Sync)
      BY <2>2 DEF nn_sock_rm_ep
    <3>2. e = f /\ ep'[e] = "STOPPING"
      BY <3>1 DEF EpStop
    <3>. QED
      BY <3>1, <3>2 DEF IInv, ListInv
  <2>3. CASE \E t \in Threads : nn_sock_stop(t)
    <3>1. state = "ACTIVE" /\ \E Sync \in SUBSET eps : EpStop(eps, Sync)
      BY <2>3 DEF nn_sock_stop
    <3>2. e \in eps /\ ep'[e] = "STOPPING"
      BY <3>1 DEF EpStop
    <3>. QED
      BY <3>1, <3>2 DEF IInv, ListInv
  <2>4. CASE nn_ctx_leave
    <3>1. events # <<>>
      BY <2>4 DEF nn_ctx_leave
    <3>2. PICK ev, queue : ev = Head(events) /\ queue = Tail(events)
      BY Zenon
    <3>3. Expected(ev)
      BY <3>1, <3>2, QueueFacts
    <3>4. \/ ev.type = "EP_ACTION_STOPPED" /\ ep' = [ep EXCEPT ![ev.ep] = "IDLE"]
          \/ /\ ev.type = "EP_STOPPED" /\ ep' = [ep EXCEPT ![ev.ep] = "none"]
             /\ state \in {"ACTIVE", "STOPPING_EPS"}
          \/ ep' = ep
      BY <2>4, <3>2 DEF nn_ctx_leave, FeedEpActionStopped, FeedEpStopped, FeedSockStopped,
                        FeedPipe, Abort, machines
    <3>5. CASE ev.type = "EP_ACTION_STOPPED" /\ ep' = [ep EXCEPT ![ev.ep] = "IDLE"]
      BY <3>3, <3>5 DEF Expected, IInv, TypeOK
    <3>6. CASE /\ ev.type = "EP_STOPPED" /\ ep' = [ep EXCEPT ![ev.ep] = "none"]
               /\ state \in {"ACTIVE", "STOPPING_EPS"}
      <4>1. e = ev.ep /\ ep[e] = "IDLE" /\ ep'[e] = "none"
        BY <3>3, <3>6 DEF Expected, IInv, TypeOK
      <4>. QED
        BY <3>6, <4>1
    <3>. QED
      BY <3>4, <3>5, <3>6
  <2>5. CASE \/ \E t \in Threads : \/ nn_sock_init(t) \/ nn_sock_hold(t) \/ nn_sock_rele(t)
                                  \/ WaitTermsem(t) \/ WaitRelesem(t) \/ nn_sock_term(t)
             \/ nn_sock_stopped \/ Dead \/ \E f \in Eids : nn_ep_stopped(f) \/ PipeEvent(f)
    BY <2>5 DEF nn_sock_init, nn_sock_hold, nn_sock_rele, WaitTermsem, WaitRelesem,
                nn_sock_term, nn_sock_stopped, nn_ep_stopped, PipeEvent, Dead, Abort,
                machines, vars
  <2>. QED
    BY <2>1, <2>2, <2>3, <2>4, <2>5 DEF Next
<1>. QED
  BY <1>1, InvHolds, PTL DEF Spec

-----------------------------------------------------------------------------
(* The socket as module Global sees it, step by step.                      *)
LEMMA OneSlot == G!Slots = {0} /\ G!Outside = 2 /\ G!FreshUnused = [s \in {0} |-> 0]
<1>1. G!Slots = {0} /\ G!Outside = 2
  BY DEF G!Slots, G!Outside
<1>2. 1 - 0 - 1 = 0
  OBVIOUS
<1>3. [s \in {0} |-> 1 - s - 1] = [s \in {0} |-> 0]
  BY <1>2
<1>. QED
  BY <1>1, <1>3 DEF G!FreshUnused

LEMMA MapInit == Init => G!Init
<1> SUFFICES ASSUME Init PROVE G!Init
  OBVIOUS
<1>1. (state # "NULL") = FALSE /\ GlobalSock = "NULL"
  BY DEF Init, GlobalSock
<1>2. [t \in Threads |-> IF pc[t] = "done" THEN "call" ELSE pc[t]] = [t \in Threads |-> "ready"]
  BY DEF Init
<1>. QED
  BY <1>1, <1>2, OneSlot DEF Init, G!Init

(* What a step changes of the socket as Global sees it.                    *)
LEMMA MapQuiet ==
  ASSUME UNCHANGED <<holds, termsem, relesem>>, GlobalSock' = GlobalSock,
         state' = "NULL" <=> state = "NULL",
         \A u \in Threads : pc'[u] = pc[u] \/ (pc[u] = "call" /\ pc'[u] = "done")
  PROVE  UNCHANGED G!vars
<1>1. (state' # "NULL") = (state # "NULL")
  OBVIOUS
<1>2. [t \in Threads |-> IF pc'[t] = "done" THEN "call" ELSE pc'[t]]
        = [t \in Threads |-> IF pc[t] = "done" THEN "call" ELSE pc[t]]
  OBVIOUS
<1>. QED
  BY <1>1, <1>2 DEF G!vars

LEMMA Map_init ==
  ASSUME IInv, NEW t \in Threads, nn_sock_init(t) PROVE G!nn_socket(t)
<1> USE DEF nn_sock_init
<1>1. GlobalSock = "NULL" /\ GlobalSock' = "ACTIVE"
  BY DEF GlobalSock, Stopping
<1>2. (state # "NULL") = FALSE /\ (state' # "NULL") = TRUE
  OBVIOUS
<1>3. G!NsocksAfterInit = 0 /\ G!UnusedAfterInit = [s \in {0} |-> 0]
  BY OneSlot DEF G!NsocksAfterInit, G!UnusedAfterInit
<1>4. G!UnusedAfterInit[1 - G!NsocksAfterInit - 1] = 0
  <2>1. 1 - 0 - 1 = 0
    OBVIOUS
  <2>. QED
    BY <1>3, <2>1
<1>5. LET s == G!UnusedAfterInit[1 - G!NsocksAfterInit - 1] IN
        /\ [r \in {0} |-> GlobalSock'] = [[r \in {0} |-> GlobalSock] EXCEPT ![s] = "ACTIVE"]
        /\ [r \in {0} |-> holds'] = [[r \in {0} |-> holds] EXCEPT ![s] = 1]
        /\ [r \in {0} |-> termsem'] = [[r \in {0} |-> termsem] EXCEPT ![s] = 0]
        /\ [r \in {0} |-> relesem'] = [[r \in {0} |-> relesem] EXCEPT ![s] = 0]
  BY <1>1, <1>4
<1>6. 0 < 1 /\ 0 + 1 = 1 /\ {} \cap G!TERM = {}
  OBVIOUS
<1>7. /\ (IF pc[t] = "done" THEN "call" ELSE pc[t]) = "ready"
      /\ (IF state' = "NULL" THEN 0 ELSE 1) = 1
      /\ UNCHANGED pc
  BY <1>2
<1>. QED
  BY <1>2, <1>3, <1>5, <1>6, <1>7, SMTT(20) DEF G!nn_socket

LEMMA Map_hold ==
  ASSUME IInv, NEW t \in Threads, nn_sock_hold(t) PROVE G!nn_global_hold_socket(t, 0)
<1> USE DEF nn_sock_hold, Goto
<1>1. GlobalSock = "ACTIVE" /\ GlobalSock' = GlobalSock
  BY DEF GlobalSock
<1>. QED
  BY <1>1 DEF IInv, TypeOK, G!nn_global_hold_socket, G!CanHold

LEMMA Map_rele ==
  ASSUME IInv, NEW t \in Threads, nn_sock_rele(t) PROVE G!nn_global_rele_socket(t)
<1> USE DEF nn_sock_rele, Rele, Goto
<1>1. GlobalSock' = GlobalSock
  BY DEF GlobalSock
<1>. QED
  BY <1>1 DEF IInv, TypeOK, G!nn_global_rele_socket, G!Rele

LEMMA Map_stop ==
  ASSUME IInv, NEW t \in Threads, nn_sock_stop(t) PROVE G!nn_close(t, 0)
<1> USE DEF nn_sock_stop, Rele, Goto
<1>1. \/ state' = "FINI" /\ termsem' = termsem + 1
      \/ state' \in {"STOPPING_EPS", "STOPPING"} /\ termsem' = termsem
  BY DEF Finish2, Finish1
<1>2. /\ GlobalSock = "ACTIVE"
      /\ GlobalSock' = IF state' = "FINI" THEN "FINI" ELSE "STOPPING"
  BY <1>1 DEF GlobalSock
<1>3. (state # "NULL") = TRUE /\ (state' # "NULL") = TRUE
  BY <1>1
<1>4. G!CanHold(0)
  BY <1>2 DEF G!CanHold
<1>5. \E st \in {"STOPPING", "FINI"} :
        /\ [s \in {0} |-> GlobalSock'] = [[s \in {0} |-> GlobalSock] EXCEPT ![0] = st]
        /\ [s \in {0} |-> termsem']
             = [[s \in {0} |-> termsem] EXCEPT ![0] = IF st = "FINI" THEN @ + 1 ELSE @]
  BY <1>1, <1>2
<1>6. G!Rele(0, 1)
  BY DEF G!Rele
<1>7. [u \in Threads |-> IF pc'[u] = "done" THEN "call" ELSE pc'[u]]
        = [[u \in Threads |-> IF pc[u] = "done" THEN "call" ELSE pc[u]] EXCEPT ![t] = "termsem"]
  BY DEF IInv, TypeOK
<1>8. (IF state' = "NULL" THEN 0 ELSE 1) = (IF state = "NULL" THEN 0 ELSE 1)
  BY <1>3
<1>9. [[u \in Threads |-> 0] EXCEPT ![t] = 0] = [u \in Threads |-> 0]
  OBVIOUS
<1>10. G!CloseStop(t, 0)
  BY <1>3, <1>4, <1>5, <1>6, <1>7, <1>8, <1>9 DEF G!CloseStop
<1>. QED
  BY <1>10 DEF G!nn_close

LEMMA Map_ended ==
  ASSUME IInv, NEW t \in Threads, WaitTermsem(t) PROVE G!nn_sock_term_ended(t)
<1> USE DEF WaitTermsem, Goto
<1>1. GlobalSock' = GlobalSock
  BY DEF GlobalSock
<1>. QED
  BY <1>1 DEF IInv, TypeOK, G!nn_sock_term_ended

LEMMA Map_released ==
  ASSUME IInv, NEW t \in Threads, WaitRelesem(t) PROVE G!nn_sock_term_released(t)
<1> USE DEF WaitRelesem, Goto
<1>1. GlobalSock' = GlobalSock
  BY DEF GlobalSock
<1>. QED
  BY <1>1 DEF IInv, TypeOK, G!nn_sock_term_released

LEMMA Map_term ==
  ASSUME IInv, NEW t \in Threads, nn_sock_term(t), sdeps = {} /\ eps = {}
  PROVE  G!CloseRemove(t)
<1> USE DEF nn_sock_term, Goto, sems
<1>1. state = "FINI" /\ GlobalSock = "FINI" /\ GlobalSock' = "NULL"
  BY DEF IInv, CloseInv, GlobalSock, Stopping
<1>2. (state # "NULL") = TRUE /\ (state' # "NULL") = FALSE
  BY <1>1
<1>3. 1 - 1 = 0 /\ (1 - 1 > 0) = FALSE
  OBVIOUS
<1>4. G!CloseReturn(t)
  BY OneSlot DEF IInv, TypeOK, G!CloseReturn, G!InTerm
<1>. QED
  BY <1>1, <1>2, <1>3, <1>4 DEF G!CloseRemove

(* The end of the shutdown is nn_sock_fini of Global; everything else the  *)
(* socket does with the events of its context is invisible there.          *)
LEMMA Map_leave ==
  ASSUME IInv, nn_ctx_leave PROVE G!nn_sock_fini(0) \/ UNCHANGED G!vars
<1>1. UNCHANGED <<holds, relesem, pc>>
  BY DEF nn_ctx_leave, FeedEpActionStopped, FeedEpStopped, FeedSockStopped, FeedPipe, Abort,
         Finish1, sems
<1>2. \/ state' = state /\ termsem' = termsem
      \/ state = "STOPPING_EPS" /\ state' = "STOPPING" /\ termsem' = termsem
      \/ /\ state \in {"STOPPING_EPS", "STOPPING"}
         /\ state' = "FINI" /\ termsem' = termsem + 1
  <2>1. ASSUME NEW e, NEW queue, FeedEpStopped(e, queue) 
        PROVE  \/ state' = state /\ termsem' = termsem
               \/ state = "STOPPING_EPS" /\ state' = "STOPPING" /\ termsem' = termsem
               \/ state = "STOPPING_EPS" /\ state' = "FINI" /\ termsem' = termsem + 1
    BY <2>1 DEF FeedEpStopped, Finish1, Finish2, Abort, sems
  <2>. QED
    BY <2>1
    DEF nn_ctx_leave, FeedEpActionStopped, FeedSockStopped, FeedPipe, sems, Finish1, Abort
<1>3. CASE state' = "FINI" /\ termsem' = termsem + 1 /\ state \in {"STOPPING_EPS", "STOPPING"}
  <2>1. GlobalSock = "STOPPING" /\ GlobalSock' = "FINI"
    BY <1>3 DEF GlobalSock
  <2>2. (state # "NULL") = TRUE /\ (state' # "NULL") = TRUE
    BY <1>3
  <2>. QED
    BY <1>1, <1>3, <2>1, <2>2 DEF G!nn_sock_fini
<1>4. CASE /\ termsem' = termsem
           /\ state' = state \/ (state = "STOPPING_EPS" /\ state' = "STOPPING")
  <2>1. GlobalSock' = GlobalSock
    BY <1>4 DEF GlobalSock
  <2>. QED
    BY <1>1, <1>4, <2>1, MapQuiet
<1>. QED
  BY <1>2, <1>3, <1>4

LEMMA MapNext == IInv /\ [Next]_vars => [G!Next]_(G!vars)
<1> SUFFICES ASSUME IInv, [Next]_vars PROVE G!Next \/ UNCHANGED G!vars
  OBVIOUS
<1>1. ASSUME NEW t \in Threads,
             \/ nn_sock_init(t) \/ nn_sock_hold(t) \/ nn_sock_rele(t)
             \/ nn_sock_stop(t) \/ WaitTermsem(t) \/ WaitRelesem(t)
             \/ nn_sock_term(t) /\ sdeps = {} /\ eps = {}
      PROVE  G!Next
  BY <1>1, Map_init, Map_hold, Map_rele, Map_stop, Map_ended, Map_released, Map_term, OneSlot
  DEF G!Next
<1>2. ASSUME NEW t \in Threads,
             nn_sock_add_ep(t) \/ \E e \in Eids : nn_sock_rm_ep(t, e)
      PROVE  UNCHANGED G!vars
  <2>1. UNCHANGED <<state, holds, termsem, relesem>>
    BY <1>2 DEF nn_sock_add_ep, nn_sock_rm_ep, sems
  <2>2. \A u \in Threads : pc'[u] = pc[u] \/ (pc[u] = "call" /\ pc'[u] = "done")
    BY <1>2 DEF nn_sock_add_ep, nn_sock_rm_ep, Goto, IInv, TypeOK
  <2>. QED
    BY <2>1, <2>2, MapQuiet DEF GlobalSock
<1>3. CASE \/ nn_sock_stopped \/ UNCHANGED vars \/ Dead \/ Abort
           \/ \E e \in Eids : nn_ep_stopped(e) \/ PipeEvent(e)
  <2>1. UNCHANGED <<state, holds, termsem, relesem, pc>>
    BY <1>3 DEF nn_sock_stopped, nn_ep_stopped, PipeEvent, Dead, Abort, sems, vars
  <2>. QED
    BY <2>1, MapQuiet DEF GlobalSock
<1>4. CASE nn_ctx_leave
  BY <1>4, Map_leave, OneSlot DEF G!Next
<1>5. ASSUME NEW t \in Threads, nn_sock_term(t), ~ (sdeps = {} /\ eps = {}) PROVE Abort
  BY <1>5 DEF nn_sock_term
<1>. QED
  BY <1>1, <1>2, <1>3, <1>4, <1>5 DEF Next

(* A socket with its endpoints and its protocol does what the socket table *)
(* relies on: seen through the refinement mapping, every step of it is a   *)
(* step of module Global or invisible to it.                               *)
THEOREM SockImplementsGlobal == Spec => ImplementsGlobal
<1>1. Init => G!Init
  BY MapInit
<1>2. IInv /\ [Next]_vars => [G!Next]_(G!vars)
  BY MapNext
<1>. QED
  BY <1>1, <1>2, InvHolds, PTL DEF Spec, ImplementsGlobal, G!Spec
=============================================================================
