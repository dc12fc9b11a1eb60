---------------------------- MODULE GlobalProofs ----------------------------
(***************************************************************************)
(* Proofs that the socket table of module Global keeps its promises for    *)
(* any number of descriptors and threads.                                  *)
(***************************************************************************)
EXTENDS Global, FiniteSetTheorems, TLAPS

(* The stack of free descriptors has no duplicates.                        *)
StackInjective ==
  \A j, k \in 0 .. MaxSockets - nsocks - 1 : unused[j] = unused[k] => j = k

TableInv ==
  /\ nsocks = Cardinality(Live)
  /\ up <=> nsocks > 0
  /\ up => StackInjective /\ FreeStack = Slots \ Live

(* holds counts the calls in progress and, until nn_close, the hold of the *)
(* application itself.                                                     *)
HoldInv ==
  /\ \A t \in Threads : pc[t] = "call" => socks[fd[t]] # "NULL"
  /\ \A s \in Slots :
       socks[s] # "NULL" =>
         holds[s] = Cardinality(Callers(s))
                      + (IF socks[s] = "ACTIVE" THEN 1 ELSE 0)

CloseInv ==
  /\ \A t \in Threads :
       /\ pc[t] \in Closing => socks[fd[t]] \in {"STOPPING", "FINI"}
       /\ pc[t] \in {"relesem", "remove"} =>
            socks[fd[t]] = "FINI" /\ termsem[fd[t]] = 0
       /\ pc[t] = "remove" => holds[fd[t]] = 0 /\ relesem[fd[t]] = 0
  /\ OneCloser

SemInv ==
  \A s \in Slots : socks[s] # "NULL" =>
    /\ termsem[s] <= 1
    /\ socks[s] # "FINI" => termsem[s] = 0
    /\ relesem[s] <= 1
    /\ relesem[s] > 0 => holds[s] = 0

IInv == TypeOK /\ TableInv /\ HoldInv /\ CloseInv /\ SemInv

-----------------------------------------------------------------------------
LEMMA SlotsFinite == IsFiniteSet(Slots) /\ Cardinality(Slots) = MaxSockets
BY FS_Interval, MaxSocketsAssumption DEF Slots

LEMMA LiveFinite == IsFiniteSet(Live)
BY SlotsFinite, FS_Subset DEF Live

(* A step that neither begins nor ends a call leaves the callers alone.    *)
LEMMA SameCallers ==
  ASSUME \A u \in Threads : pc'[u] = "call" <=> pc[u] = "call",
         \A u \in Threads : pc[u] = "call" => fd'[u] = fd[u]
  PROVE  \A s : Callers(s)' = Callers(s)
BY DEF Callers

LEMMA CallersFinite == \A s : IsFiniteSet(Callers(s)) /\ Cardinality(Callers(s)) \in Nat
<1>1. TAKE s
<1>2. Callers(s) \subseteq Threads
  BY DEF Callers
<1>3. IsFiniteSet(Callers(s))
  BY <1>2, ThreadsAssumption, FS_Subset
<1>. QED
  BY <1>3, FS_CardinalityType

LEMMA CallersFinitePrime ==
  \A s : IsFiniteSet(Callers(s)') /\ Cardinality(Callers(s)') \in Nat
<1>1. TAKE s
<1>2. Callers(s)' \subseteq Threads
  BY DEF Callers
<1>3. IsFiniteSet(Callers(s)')
  BY <1>2, ThreadsAssumption, FS_Subset
<1>. QED
  BY <1>3, FS_CardinalityType

-----------------------------------------------------------------------------
LEMMA InitInv == Init => IInv
<1>. SUFFICES ASSUME Init PROVE IInv
  OBVIOUS
<1>1. TypeOK
  <2>1. up \in BOOLEAN
    BY DEF Init
  <2>2. unused \in [Slots -> Slots] /\ 0 \in Slots
    BY MaxSocketsAssumption DEF Init, FreshUnused, Slots
  <2>3. idx \in [Threads -> 0 .. Outside]
    BY MaxSocketsAssumption DEF Init, Outside
  <2>. QED
    BY <2>1, <2>2, <2>3, MaxSocketsAssumption
    DEF Init, TypeOK, SockStates, Locations
<1>2. TableInv
  <2>1. Live = {}
    BY DEF Init, Live
  <2>. QED
    BY <2>1, FS_EmptySet DEF Init, TableInv
<1>3. HoldInv
  BY DEF Init, HoldInv
<1>4. CloseInv
  BY DEF Init, CloseInv, Closing, OneCloser
<1>5. SemInv
  BY DEF Init, SemInv
<1>. QED
  BY <1>1, <1>2, <1>3, <1>4, <1>5 DEF IInv

-----------------------------------------------------------------------------
(* Steps of a thread that touch no socket: nn_term and nn_init move only   *)
(* flags, pc and idx, and no thread enters or leaves a call or a nn_close. *)
LEMMA IdleStepInv ==
  ASSUME IInv, TypeOK', UNCHANGED <<table, fd>>,
         \A u \in Threads : pc'[u] = pc[u]
                             \/ (pc[u] \notin Closing \cup {"call"}
                                 /\ pc'[u] \notin Closing \cup {"call"})
  PROVE  IInv'
<1>1. \A s : Callers(s)' = Callers(s)
  BY SameCallers DEF table
<1>2. Live' = Live /\ FreeStack' = FreeStack
  BY DEF Live, FreeStack, table
<1>3. TableInv'
  BY <1>2 DEF IInv, TableInv, StackInjective, table
<1>4. HoldInv'
  BY <1>1 DEF IInv, HoldInv, table
<1>5. CloseInv'
  BY DEF IInv, CloseInv, OneCloser, Closing, table
<1>6. SemInv'
  BY DEF IInv, SemInv, table
<1>. QED
  BY <1>3, <1>4, <1>5, <1>6 DEF IInv

LEMMA TermBeginInv ==
  ASSUME IInv, NEW t \in Threads, TermBegin(t) PROVE IInv'
<1>1. TypeOK'
  BY MaxSocketsAssumption
  DEF IInv, TypeOK, TermBegin, table, TERM, Locations, Outside
<1>. QED
  BY <1>1, IdleStepInv DEF TermBegin, IInv, TypeOK, Locations, Closing

LEMMA TermEndInv ==
  ASSUME IInv, NEW t \in Threads, TermEnd(t) PROVE IInv'
<1>1. TypeOK'
  BY MaxSocketsAssumption
  DEF IInv, TypeOK, TermEnd, table, TERM, Locations, Outside
<1>. QED
  BY <1>1, IdleStepInv DEF TermEnd, IInv, TypeOK, Locations, Closing

LEMMA nn_initInv ==
  ASSUME IInv, NEW t \in Threads, nn_init(t) PROVE IInv'
<1>1. TypeOK'
  BY DEF IInv, TypeOK, nn_init, table, TERM, Locations
<1>. QED
  BY <1>1, IdleStepInv DEF nn_init, IInv, TypeOK, Locations, Closing

LEMMA TermSkipInv ==
  ASSUME IInv, NEW t \in Threads, pc[t] = "loop", CloseReturn(t),
         UNCHANGED <<table, flags, fd>>
  PROVE  IInv'
<1>1. TypeOK'
  BY MaxSocketsAssumption
  DEF IInv, TypeOK, CloseReturn, InTerm, table, Locations, Outside
<1>. QED
  BY <1>1, IdleStepInv DEF CloseReturn, IInv, TypeOK, Locations, Closing

-----------------------------------------------------------------------------
(* A call begins: one more hold, one more caller.                          *)
LEMMA HoldStepInv ==
  ASSUME IInv, NEW t \in Threads, NEW s \in Slots, nn_global_hold_socket(t, s)
  PROVE  IInv'
<1>. USE DEF nn_global_hold_socket, CanHold
<1>1. TypeOK'
  BY DEF IInv, TypeOK, Locations
<1>2. TableInv'
  BY DEF IInv, TableInv, StackInjective, Live, FreeStack
<1>3. HoldInv'
  <2>1. t \notin Callers(s) /\ Callers(s)' = Callers(s) \cup {t}
    BY DEF IInv, TypeOK, Callers
  <2>2. Cardinality(Callers(s)') = Cardinality(Callers(s)) + 1
    BY <2>1, CallersFinite, FS_AddElement
  <2>3. \A r \in Slots \ {s} : Callers(r)' = Callers(r)
    BY DEF IInv, TypeOK, Callers
  <2>4. \A r \in Slots : Cardinality(Callers(r)) \in Nat
    BY CallersFinite
  <2>5. ASSUME NEW r \in Slots, socks'[r] # "NULL"
        PROVE  holds'[r] = Cardinality(Callers(r)')
                             + (IF socks'[r] = "ACTIVE" THEN 1 ELSE 0)
    BY <2>2, <2>3, <2>4, <2>5 DEF IInv, TypeOK, HoldInv
  <2>. QED
    BY <2>5 DEF IInv, TypeOK, HoldInv
<1>4. CloseInv'
  BY DEF IInv, TypeOK, CloseInv, OneCloser, Closing
<1>5. SemInv'
  <2>1. relesem[s] = 0
    <3>1. holds[s] > 0
      BY CallersFinite DEF IInv, HoldInv
    <3>. QED
      BY <3>1 DEF IInv, TypeOK, SemInv
  <2>. QED
    BY <2>1 DEF IInv, TypeOK, SemInv
<1>. QED
  BY <1>1, <1>2, <1>3, <1>4, <1>5 DEF IInv

(* A call ends: one hold less, one caller less.                            *)
LEMMA ReleStepInv ==
  ASSUME IInv, NEW t \in Threads, nn_global_rele_socket(t)
  PROVE  IInv'
<1>. DEFINE s == fd[t]
<1>. USE DEF nn_global_rele_socket, Rele
<1>0. s \in Slots /\ socks[s] # "NULL" /\ t \in Callers(s)
  BY DEF IInv, TypeOK, HoldInv, Callers
<1>1. Cardinality(Callers(s)) \in Nat /\ Cardinality(Callers(s)) > 0
  BY <1>0, CallersFinite, FS_EmptySet
<1>2. holds[s] \in Nat /\ holds[s] > 0
  BY <1>0, <1>1 DEF IInv, TypeOK, HoldInv
<1>3. relesem[s] = 0
  BY <1>0, <1>2 DEF IInv, TypeOK, SemInv
<1>4. TypeOK'
  <2>1. holds' \in [Slots -> Nat]
    BY <1>0, <1>2 DEF IInv, TypeOK
  <2>. QED
    BY <2>1 DEF IInv, TypeOK, Locations
<1>5. TableInv'
  BY DEF IInv, TableInv, StackInjective, Live, FreeStack
<1>6. HoldInv'
  <2>1. Callers(s)' = Callers(s) \ {t}
    BY DEF IInv, TypeOK, Callers
  <2>2. Cardinality(Callers(s)') = Cardinality(Callers(s)) - 1
    BY <1>0, <2>1, CallersFinite, FS_RemoveElement
  <2>3. \A r \in Slots \ {s} : Callers(r)' = Callers(r)
    BY DEF IInv, TypeOK, Callers
  <2>4. \A r \in Slots : Cardinality(Callers(r)) \in Nat
    BY CallersFinite
  <2>5. ASSUME NEW r \in Slots, socks'[r] # "NULL"
        PROVE  holds'[r] = Cardinality(Callers(r)')
                             + (IF socks'[r] = "ACTIVE" THEN 1 ELSE 0)
    BY <1>0, <1>1, <2>2, <2>3, <2>4, <2>5 DEF IInv, TypeOK, HoldInv
  <2>. QED
    BY <2>5 DEF IInv, TypeOK, HoldInv
<1>7. CloseInv'
  <2>1. \A u \in Threads : pc[u] = "remove" => fd[u] # s
    BY <1>2 DEF IInv, CloseInv
  <2>. QED
    BY <2>1 DEF IInv, TypeOK, CloseInv, OneCloser, Closing
<1>8. SemInv'
  BY <1>0, <1>2, <1>3 DEF IInv, TypeOK, SemInv
<1>. QED
  BY <1>4, <1>5, <1>6, <1>7, <1>8 DEF IInv

(* nn_close stops the socket: the hold of the application is dropped, and  *)
(* the thread becomes the only closer of the socket.                       *)
LEMMA CloseStopInv ==
  ASSUME IInv, NEW t \in Threads, NEW s \in Slots,
         pc[t] \in {"ready", "loop"}, CloseStop(t, s)
  PROVE  IInv'
<1>. USE DEF CloseStop, Rele, CanHold
<1>1. holds[s] \in Nat /\ holds[s] > 0 /\ termsem[s] = 0 /\ relesem[s] = 0
  <2>1. holds[s] > 0 /\ holds[s] \in Nat
    BY CallersFinite DEF IInv, TypeOK, HoldInv
  <2>. QED
    BY <2>1 DEF IInv, TypeOK, SemInv
<1>2. \A u \in Threads : pc[u] \in Closing => fd[u] # s
  BY DEF IInv, CloseInv
<1>3. TypeOK'
  <2>1. holds' \in [Slots -> Nat]
    BY <1>1 DEF IInv, TypeOK
  <2>. QED
    BY <2>1 DEF IInv, TypeOK, SockStates, Locations, Closing
<1>4. TableInv'
  <2>1. Live' = Live
    BY DEF IInv, TypeOK, Live
  <2>. QED
    BY <2>1 DEF IInv, TableInv, StackInjective, FreeStack
<1>5. HoldInv'
  <2>1. \A r : Callers(r)' = Callers(r)
    BY SameCallers DEF IInv, TypeOK
  <2>2. \A r \in Slots : Cardinality(Callers(r)) \in Nat
    BY CallersFinite
  <2>. QED
    BY <2>1, <2>2 DEF IInv, TypeOK, HoldInv
<1>6. CloseInv'
  <2>1. OneCloser'
    BY <1>2 DEF IInv, TypeOK, CloseInv, OneCloser, Closing
  <2>. QED
    BY <1>2, <2>1 DEF IInv, TypeOK, CloseInv, Closing
<1>7. SemInv'
  BY <1>1 DEF IInv, TypeOK, SemInv
<1>. QED
  BY <1>3, <1>4, <1>5, <1>6, <1>7 DEF IInv

LEMMA FiniStepInv ==
  ASSUME IInv, NEW s \in Slots, nn_sock_fini(s)
  PROVE  IInv'
<1>. USE DEF nn_sock_fini
<1>1. TypeOK'
  BY DEF IInv, TypeOK, SockStates
<1>2. TableInv'
  <2>1. Live' = Live
    BY DEF IInv, TypeOK, Live
  <2>. QED
    BY <2>1 DEF IInv, TableInv, StackInjective, FreeStack
<1>3. HoldInv'
  <2>1. \A r : Callers(r)' = Callers(r)
    BY SameCallers
  <2>. QED
    BY <2>1 DEF IInv, TypeOK, HoldInv
<1>4. CloseInv'
  BY DEF IInv, TypeOK, CloseInv, OneCloser
<1>5. SemInv'
  BY DEF IInv, TypeOK, SemInv
<1>. QED
  BY <1>1, <1>2, <1>3, <1>4, <1>5 DEF IInv

LEMMA TermsemStepInv ==
  ASSUME IInv, NEW t \in Threads, nn_sock_term_ended(t)
  PROVE  IInv'
<1>. USE DEF nn_sock_term_ended
<1>1. fd[t] \in Slots /\ socks[fd[t]] = "FINI" /\ termsem[fd[t]] = 1
  BY DEF IInv, TypeOK, CloseInv, SemInv, Closing
<1>2. TypeOK'
  BY <1>1 DEF IInv, TypeOK, Locations, Closing
<1>3. TableInv'
  BY DEF IInv, TableInv, StackInjective, Live, FreeStack
<1>4. HoldInv'
  <2>1. \A r : Callers(r)' = Callers(r)
    BY SameCallers DEF IInv, TypeOK
  <2>. QED
    BY <2>1 DEF IInv, TypeOK, HoldInv
<1>5. CloseInv'
  BY <1>1 DEF IInv, TypeOK, CloseInv, OneCloser, Closing
<1>6. SemInv'
  BY <1>1 DEF IInv, TypeOK, SemInv
<1>. QED
  BY <1>2, <1>3, <1>4, <1>5, <1>6 DEF IInv

LEMMA RelesemStepInv ==
  ASSUME IInv, NEW t \in Threads, nn_sock_term_released(t)
  PROVE  IInv'
<1>. USE DEF nn_sock_term_released
<1>1. /\ fd[t] \in Slots /\ socks[fd[t]] = "FINI"
      /\ relesem[fd[t]] = 1 /\ holds[fd[t]] = 0
  BY DEF IInv, TypeOK, CloseInv, SemInv, Closing
<1>2. TypeOK'
  BY <1>1 DEF IInv, TypeOK, Locations, Closing
<1>3. TableInv'
  BY DEF IInv, TableInv, StackInjective, Live, FreeStack
<1>4. HoldInv'
  <2>1. \A r : Callers(r)' = Callers(r)
    BY SameCallers DEF IInv, TypeOK
  <2>. QED
    BY <2>1 DEF IInv, TypeOK, HoldInv
<1>5. CloseInv'
  BY <1>1 DEF IInv, TypeOK, CloseInv, OneCloser, Closing
<1>6. SemInv'
  BY <1>1 DEF IInv, TypeOK, SemInv
<1>. QED
  BY <1>2, <1>3, <1>4, <1>5, <1>6 DEF IInv

-----------------------------------------------------------------------------
(* nn_close gives the descriptor back.  The caller count of the socket is  *)
(* zero, so no call is left with a freed socket.                           *)
LEMMA RemoveStepInv ==
  ASSUME IInv, NEW t \in Threads, CloseRemove(t)
  PROVE  IInv'
<1>. DEFINE s == fd[t]
<1>. USE DEF CloseRemove, CloseReturn
<1>1. /\ s \in Slots /\ socks[s] = "FINI" /\ holds[s] = 0
      /\ termsem[s] = 0 /\ relesem[s] = 0
  BY DEF IInv, TypeOK, CloseInv, Closing
<1>2. Callers(s) = {}
  <2>1. Cardinality(Callers(s)) = 0
    BY <1>1, CallersFinite DEF IInv, HoldInv
  <2>. QED
    BY <2>1, CallersFinite, FS_EmptySet
<1>3. \A u \in Threads \ {t} : pc[u] \in Closing => fd[u] # s
  BY DEF IInv, CloseInv, OneCloser, Closing
<1>4. s \in Live /\ nsocks \in 1 .. MaxSockets /\ up
  <2>1. s \in Live
    BY <1>1 DEF Live
  <2>2. nsocks # 0
    BY <2>1, LiveFinite, FS_EmptySet DEF IInv, TableInv
  <2>. QED
    BY <2>1, <2>2, MaxSocketsAssumption DEF IInv, TypeOK, TableInv
<1>5. TypeOK'
  <2>1. nsocks' \in 0 .. MaxSockets
    BY <1>4, MaxSocketsAssumption
  <2>2. up' \in BOOLEAN
    OBVIOUS
  <2>3. idx' \in [Threads -> 0 .. Outside]
    BY MaxSocketsAssumption DEF IInv, TypeOK, InTerm, Outside
  <2>. QED
    BY <2>1, <2>2, <2>3, <1>1 DEF IInv, TypeOK, SockStates, Locations, Closing
<1>6. TableInv'
  <2>1. Live' = Live \ {s}
    BY <1>1 DEF IInv, TypeOK, Live
  <2>2. nsocks' = Cardinality(Live')
    BY <1>4, <2>1, LiveFinite, FS_RemoveElement DEF IInv, TableInv
  <2>3. StackInjective /\ FreeStack = Slots \ Live
    BY <1>4 DEF IInv, TableInv
  <2>4. /\ MaxSockets - nsocks \in Slots
        /\ MaxSockets - nsocks' - 1 = MaxSockets - nsocks
        /\ 0 .. MaxSockets - nsocks - 1 \subseteq Slots \ {MaxSockets - nsocks}
        /\ 0 .. MaxSockets - nsocks' - 1
              = (0 .. MaxSockets - nsocks - 1) \cup {MaxSockets - nsocks}
    BY <1>4, MaxSocketsAssumption DEF Slots
  <2>5. /\ unused'[MaxSockets - nsocks] = s
        /\ \A k \in 0 .. MaxSockets - nsocks - 1 : unused'[k] = unused[k]
    BY <2>4 DEF IInv, TypeOK
  <2>6. StackInjective'
    <3>1. s \notin FreeStack
      BY <1>4, <2>3
    <3>2. \A k \in 0 .. MaxSockets - nsocks - 1 : unused[k] # s
      BY <3>1 DEF FreeStack
    <3>. QED
      BY <2>3, <2>4, <2>5, <3>2 DEF StackInjective
  <2>7. FreeStack' = FreeStack \cup {s}
    BY <2>4, <2>5 DEF FreeStack
  <2>. QED
    BY <1>1, <1>4, <2>1, <2>2, <2>3, <2>6, <2>7 DEF TableInv, Live
<1>7. HoldInv'
  <2>1. \A r : Callers(r)' = Callers(r)
    BY SameCallers DEF IInv, TypeOK
  <2>2. \A u \in Threads : pc[u] = "call" => fd[u] # s
    BY <1>2 DEF Callers
  <2>. QED
    BY <1>1, <2>1, <2>2 DEF IInv, TypeOK, HoldInv
<1>8. CloseInv'
  BY <1>1, <1>3 DEF IInv, TypeOK, CloseInv, OneCloser, Closing
<1>9. SemInv'
  BY <1>1 DEF IInv, TypeOK, SemInv
<1>. QED
  BY <1>5, <1>6, <1>7, <1>8, <1>9 DEF IInv

(* The stack nn_global_init leaves: the old one, or the fresh one, which   *)
(* lists every descriptor.                                                 *)
LEMMA StackAfterInit ==
  ASSUME IInv
  PROVE  /\ NsocksAfterInit = nsocks
         /\ UnusedAfterInit \in [Slots -> Slots]
         /\ \A j, k \in 0 .. MaxSockets - nsocks - 1 :
              UnusedAfterInit[j] = UnusedAfterInit[k] => j = k
         /\ {UnusedAfterInit[k] : k \in 0 .. MaxSockets - nsocks - 1} = Slots \ Live
<1>1. CASE up
  BY <1>1
  DEF IInv, TypeOK, TableInv, StackInjective, FreeStack, NsocksAfterInit, UnusedAfterInit
<1>2. CASE ~ up
  <2>1. nsocks = 0 /\ Live = {}
    <3>1. nsocks = 0
      BY <1>2 DEF IInv, TypeOK, TableInv
    <3>. QED
      BY <3>1, LiveFinite, FS_EmptySet DEF IInv, TableInv
  <2>2. UnusedAfterInit = [k \in Slots |-> MaxSockets - k - 1]
    BY <1>2 DEF UnusedAfterInit, FreshUnused
  <2>3. \A k \in Slots : MaxSockets - k - 1 \in Slots /\ MaxSockets - (MaxSockets - k - 1) - 1 = k
    BY MaxSocketsAssumption DEF Slots
  <2>4. 0 .. MaxSockets - nsocks - 1 = Slots
    BY <2>1, MaxSocketsAssumption DEF Slots
  <2>5. {UnusedAfterInit[k] : k \in Slots} = Slots
    BY <2>2, <2>3
  <2>6. \A j, k \in Slots : UnusedAfterInit[j] = UnusedAfterInit[k] => j = k
    BY <2>2, <2>3, MaxSocketsAssumption DEF Slots
  <2>. QED
    BY <1>2, <2>1, <2>2, <2>3, <2>4, <2>5, <2>6 DEF NsocksAfterInit
<1>. QED
  BY <1>1, <1>2

LEMMA SocketFailInv ==
  ASSUME IInv, NEW t \in Threads, nn_socket_fail(t)
  PROVE  IInv'
<1>. USE DEF nn_socket_fail
<1>1. nsocks' = nsocks /\ unused' \in [Slots -> Slots] /\ up' \in BOOLEAN
  BY StackAfterInit
<1>2. TypeOK'
  BY <1>1 DEF IInv, TypeOK
<1>3. TableInv'
  <2>1. Live' = Live
    BY DEF Live
  <2>2. up' <=> nsocks' > 0
    BY StackAfterInit
  <2>3. StackInjective'
    BY <1>1, StackAfterInit DEF StackInjective
  <2>4. FreeStack' = Slots \ Live
    BY <1>1, StackAfterInit DEF FreeStack
  <2>. QED
    BY <1>1, <2>1, <2>2, <2>3, <2>4 DEF IInv, TableInv
<1>4. HoldInv'
  <2>1. \A r : Callers(r)' = Callers(r)
    BY SameCallers
  <2>. QED
    BY <2>1 DEF IInv, HoldInv
<1>5. CloseInv'
  BY DEF IInv, CloseInv, OneCloser
<1>6. SemInv'
  BY DEF IInv, SemInv
<1>. QED
  BY <1>2, <1>3, <1>4, <1>5, <1>6 DEF IInv

(* nn_socket takes the descriptor on top of the stack, which was free: no  *)
(* call and no nn_close refers to it.                                      *)
LEMMA SocketStepInv ==
  ASSUME IInv, NEW t \in Threads, nn_socket(t)
  PROVE  IInv'
<1>. DEFINE s == UnusedAfterInit[MaxSockets - NsocksAfterInit - 1]
<1>. USE DEF nn_socket
<1>1. nsocks < MaxSockets /\ nsocks \in Nat /\ NsocksAfterInit = nsocks
  BY StackAfterInit, MaxSocketsAssumption DEF IInv, TypeOK
<1>2. MaxSockets - nsocks - 1 \in 0 .. MaxSockets - nsocks - 1
  BY <1>1, MaxSocketsAssumption
<1>3. s \in Slots /\ socks[s] = "NULL"
  <2>1. s \in Slots \ Live
    BY <1>1, <1>2, StackAfterInit
  <2>. QED
    BY <2>1 DEF Live
<1>4. TypeOK'
  <2>1. nsocks' \in 0 .. MaxSockets
    BY <1>1, MaxSocketsAssumption
  <2>2. unused' \in [Slots -> Slots]
    BY StackAfterInit
  <2>. QED
    BY <1>3, <2>1, <2>2 DEF IInv, TypeOK, SockStates
<1>5. TableInv'
  <2>1. Live' = Live \cup {s} /\ s \notin Live
    BY <1>3 DEF IInv, TypeOK, Live
  <2>2. nsocks' = Cardinality(Live')
    BY <1>1, <2>1, LiveFinite, FS_AddElement DEF IInv, TableInv
  <2>3. 0 .. MaxSockets - nsocks' - 1
          = (0 .. MaxSockets - nsocks - 1) \ {MaxSockets - nsocks - 1}
    BY <1>1, MaxSocketsAssumption
  <2>4. StackInjective'
    BY <2>3, StackAfterInit DEF StackInjective
  <2>5. FreeStack' = (Slots \ Live) \ {s}
    BY <1>1, <1>2, <2>3, StackAfterInit DEF FreeStack
  <2>6. up' /\ nsocks' > 0
    BY <1>1
  <2>. QED
    BY <2>1, <2>2, <2>4, <2>5, <2>6 DEF TableInv
<1>6. HoldInv'
  <2>1. \A r : Callers(r)' = Callers(r)
    BY SameCallers
  <2>2. Callers(s) = {}
    BY <1>3 DEF IInv, HoldInv, Callers
  <2>3. Cardinality(Callers(s)) = 0
    BY <2>2, FS_EmptySet
  <2>. QED
    BY <1>3, <2>1, <2>3 DEF IInv, TypeOK, HoldInv
<1>7. CloseInv'
  <2>1. \A u \in Threads : pc[u] \in Closing => fd[u] # s
    BY <1>3 DEF IInv, CloseInv
  <2>. QED
    BY <2>1 DEF IInv, TypeOK, CloseInv, OneCloser, Closing
<1>8. SemInv'
  BY <1>3 DEF IInv, TypeOK, SemInv
<1>. QED
  BY <1>4, <1>5, <1>6, <1>7, <1>8 DEF IInv

-----------------------------------------------------------------------------
(* IInv is inductive.                                                      *)
LEMMA NextInv == IInv /\ [Next]_vars => IInv'
<1>. SUFFICES ASSUME IInv, [Next]_vars PROVE IInv'
  OBVIOUS
<1>1. CASE UNCHANGED vars
  <2>1. TypeOK' /\ UNCHANGED <<table, fd>> /\ pc' = pc
    BY <1>1 DEF IInv, TypeOK, vars, table
  <2>. QED
    BY <2>1, IdleStepInv
<1>2. ASSUME NEW t \in Threads, TermClose(t) PROVE IInv'
  <2>1. idx[t] \in Slots
    BY <1>2, MaxSocketsAssumption DEF TermClose, IInv, TypeOK, Slots
  <2>. QED
    BY <1>2, <2>1, CloseStopInv, TermSkipInv DEF TermClose
<1>3. ASSUME NEW t \in Threads, NEW s \in Slots, nn_close(t, s) PROVE IInv'
  BY <1>3, CloseStopInv DEF nn_close
<1>. QED
  BY <1>1, <1>2, <1>3, TermBeginInv, TermEndInv, nn_initInv, HoldStepInv,
     ReleStepInv, FiniStepInv, TermsemStepInv, RelesemStepInv, RemoveStepInv,
     SocketFailInv, SocketStepInv
  DEF Next

(* Every reachable state of the table satisfies IInv.                      *)
THEOREM Inductive == Spec => []IInv
BY InitInv, NextInv, PTL DEF Spec

(* The variables of the table keep their types: no counter goes negative,  *)
(* no descriptor leaves the range of the table.                            *)
THEOREM TypeCorrect == Spec => []TypeOK
<1>1. IInv => TypeOK
  BY DEF IInv
<1>. QED
  BY <1>1, Inductive, PTL

(* For any NN_MAX_SOCKETS, nn_socket never hands out a descriptor that is  *)
(* in use or being closed, and nn_close never loses one.                   *)
THEOREM DescriptorsSafe == Spec => []DescriptorsExact
<1>1. IInv => DescriptorsExact
  BY DEF IInv, TableInv, DescriptorsExact
<1>. QED
  BY <1>1, Inductive, PTL

(* The worker pool runs exactly as long as there is a socket.              *)
THEOREM PoolSafe == Spec => []PoolWithSockets
<1>1. IInv => PoolWithSockets
  <2>. SUFFICES ASSUME IInv PROVE PoolWithSockets
    OBVIOUS
  <2>1. nsocks = 0 <=> Live = {}
    BY LiveFinite, FS_EmptySet DEF IInv, TableInv
  <2>2. nsocks > 0 <=> nsocks # 0
    BY DEF IInv, TypeOK
  <2>. QED
    BY <2>1, <2>2 DEF IInv, TableInv, PoolWithSockets
<1>. QED
  BY <1>1, Inductive, PTL

(* A socket is not taken apart while a call holds it.                      *)
THEOREM HoldSafe == Spec => []HoldKeepsSocket
<1>1. IInv => HoldKeepsSocket
  <2>. SUFFICES ASSUME IInv, NEW t \in Threads, pc[t] = "call"
                PROVE  /\ socks[fd[t]] # "NULL"
                       /\ \A u \in Threads : ~ (pc[u] = "remove" /\ fd[u] = fd[t])
    BY DEF HoldKeepsSocket
  <2>1. fd[t] \in Slots /\ socks[fd[t]] # "NULL" /\ t \in Callers(fd[t])
    BY DEF IInv, TypeOK, HoldInv, Callers
  <2>2. Cardinality(Callers(fd[t])) \in Nat \ {0}
    BY <2>1, CallersFinite, FS_EmptySet
  <2>3. holds[fd[t]] # 0
    BY <2>1, <2>2 DEF IInv, HoldInv
  <2>. QED
    BY <2>1, <2>3 DEF IInv, CloseInv
<1>. QED
  BY <1>1, Inductive, PTL

(* Two nn_close never work on one socket.                                  *)
THEOREM CloserSafe == Spec => []OneCloser
<1>1. IInv => OneCloser
  BY DEF IInv, CloseInv
<1>. QED
  BY <1>1, Inductive, PTL

(* termsem and relesem are posted at most once.                            *)
THEOREM SemsSafe == Spec => []SemsPostedOnce
<1>1. IInv => SemsPostedOnce
  BY DEF IInv, SemInv, CloseInv, SemsPostedOnce, Live
<1>. QED
  BY <1>1, Inductive, PTL

(* The table of sockets agrees with itself for any number of threads and   *)
(* sockets (Registry): nn_socket, nn_close, nn_init and nn_term.           *)
THEOREM RegistrySafe == Spec => []Registry
  BY DescriptorsSafe, PoolSafe, CloserSafe, PTL DEF Registry
=============================================================================
