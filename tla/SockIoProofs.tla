---------------------------- MODULE SockIoProofs ----------------------------
(***************************************************************************)
(* Sound of module SockIo is proved for any number of threads.  It is not  *)
(* inductive alone: nn_sock_onleave goes by the flags of the socket, so    *)
(* the invariant has to say that they are what the descriptors are.        *)
(***************************************************************************)
EXTENDS SockIo, TLAPS

FlagsExact == state = "ACTIVE" => \A d \in Dirs : d \in flags <=> efd[d]
IInv == Sound /\ FlagsExact

(* The initial state.                                                      *)
LEMMA InitInv == Init => IInv
<1> SUFFICES ASSUME Init PROVE IInv
  OBVIOUS
<1>2. efd \in [Dirs -> BOOLEAN] /\ \A d \in Dirs : efd[d] <=> d \in ready
  <2>1. efd = [d \in Dirs |-> d \in ready]
    BY DEF Init
  <2>2. \A d \in Dirs : (d \in ready) \in BOOLEAN
    OBVIOUS
  <2>5. efd \in [Dirs -> BOOLEAN]
    BY <2>1, <2>2
  <2>3. \A d \in Dirs : efd[d] <=> d \in ready
    BY <2>1
  <2>4. QED BY <2>5, <2>3
<1>3. pc \in [Threads -> InCall \cup {"ready", "poll"}]
  BY DEF Init
<1>4. TypeOK
  BY <1>2, <1>3 DEF Init, TypeOK
<1>5. FdsExact /\ FlagsExact
  BY <1>2 DEF Init, FdsExact, FlagsExact
<1>6. QED
  BY <1>4, <1>5 DEF Init, IInv, Sound, UnsignalSafe

(* What leaving the context establishes, whoever leaves it (LeaveCtx with  *)
(* nn_sock_onleave).                                                       *)
LEMMA LeaveInv ==
  ASSUME IInv, state' = state,
         NEW now \in SUBSET Dirs,
         NEW flags1 \in SUBSET Dirs,
         state = "ACTIVE" => \A d \in Dirs : d \in flags1 <=> efd[d],
         LeaveCtx(now, flags1)
  PROVE  /\ ready' \subseteq Dirs /\ flags' \subseteq Dirs
         /\ efd' \in [Dirs -> BOOLEAN] /\ aborted' = FALSE
         /\ FdsExact' /\ FlagsExact'
<1>1. ready' = now
  BY DEF LeaveCtx
<1>2. CASE state = "ACTIVE"
  <2>1. /\ flags' = now
        /\ efd' = [d \in Dirs |-> IF d \in now \ flags1 THEN TRUE
                                  ELSE IF d \in flags1 \ now THEN FALSE ELSE efd[d]]
        /\ aborted' = (\E d \in flags1 \ now : ~ efd[d])
    BY <1>2 DEF LeaveCtx, nn_sock_onleave
  <2>2. aborted' = FALSE
    BY <1>2, <2>1
  <2>3. efd \in [Dirs -> BOOLEAN]
    BY DEF IInv, Sound, TypeOK
  <2>4. efd' \in [Dirs -> BOOLEAN]
    BY <2>1, <2>3
  <2>5. \A d \in Dirs : efd'[d] <=> d \in now
    BY <1>2, <2>1, <2>3
  <2>6. QED
    BY <1>1, <2>1, <2>2, <2>4, <2>5 DEF FdsExact, FlagsExact
<1>3. CASE state # "ACTIVE"
  <2>1. flags' = flags1 /\ efd' = efd /\ aborted' = aborted
    BY <1>3 DEF LeaveCtx
  <2>2. aborted = FALSE /\ efd \in [Dirs -> BOOLEAN]
    BY DEF IInv, Sound, TypeOK, UnsignalSafe
  <2>3. QED
    BY <1>1, <1>3, <2>1, <2>2 DEF FdsExact, FlagsExact
<1>4. QED
  BY <1>2, <1>3

(* One turn of the loop of nn_sock_send and nn_sock_recv.                  *)
LEMMA AttemptInv ==
  ASSUME IInv, UNCHANGED <<state, dir>>, NEW t \in Threads, NEW dontwait \in BOOLEAN,
         NEW flags1 \in SUBSET Dirs,
         state = "ACTIVE" => \A d \in Dirs : d \in flags1 <=> efd[d],
         Attempt(t, flags1, dontwait)
  PROVE  IInv'
<1>1. TypeOK BY DEF IInv, Sound
<1>3. PICK now \in SUBSET Dirs : LeaveCtx(now, flags1)
  BY <1>1 DEF Attempt, TypeOK
<1>4. /\ ready' \subseteq Dirs /\ flags' \subseteq Dirs
      /\ efd' \in [Dirs -> BOOLEAN] /\ aborted' = FALSE
      /\ FdsExact' /\ FlagsExact'
  BY <1>3, LeaveInv
<1>5. pc' \in [Threads -> InCall \cup {"ready", "poll"}]
  BY <1>1 DEF Attempt, Goto, TypeOK, InCall
<1>6. TypeOK'
  BY <1>1, <1>4, <1>5 DEF TypeOK
<1>7. QED
  BY <1>4, <1>6 DEF IInv, Sound, UnsignalSafe

(* The protocol changes what it reports.                                   *)
LEMMA ChangeInv == ASSUME IInv, ProtocolChange PROVE IInv'
<1>1. TypeOK /\ UNCHANGED <<state, pc, dir>> BY DEF IInv, Sound, ProtocolChange
<1>2. PICK now \in SUBSET Dirs : LeaveCtx(now, flags)
  BY DEF ProtocolChange
<1>4. flags \in SUBSET Dirs /\ (state = "ACTIVE" => \A e \in Dirs : e \in flags <=> efd[e])
  BY <1>1 DEF TypeOK, IInv, FlagsExact
<1>5. /\ ready' \subseteq Dirs /\ flags' \subseteq Dirs
      /\ efd' \in [Dirs -> BOOLEAN] /\ aborted' = FALSE
      /\ FdsExact' /\ FlagsExact'
  BY <1>1, <1>2, <1>4, LeaveInv
<1>6. TypeOK'
  BY <1>1, <1>5 DEF TypeOK
<1>7. QED
  BY <1>5, <1>6 DEF IInv, Sound, UnsignalSafe

(* Every step keeps the invariant.                                         *)
LEMMA NextInv == IInv /\ [Next]_vars => IInv'
<1> SUFFICES ASSUME IInv, [Next]_vars PROVE IInv'
  OBVIOUS
<1> USE DEF IInv, Sound, UnsignalSafe
<1>1. ASSUME UNCHANGED vars PROVE IInv'
  BY <1>1 DEF vars, TypeOK, FdsExact, FlagsExact
<1>2. ASSUME NEW t \in Threads, NEW d \in Dirs, CallBegin(t, d) PROVE IInv'
  BY <1>2 DEF CallBegin, Goto, InCall, TypeOK, FdsExact, FlagsExact
<1>3. ASSUME NEW t \in Threads, nn_sock_recv(t) \/ nn_sock_send(t) PROVE IInv'
  <2>1. PICK dontwait \in BOOLEAN : Attempt(t, flags, dontwait) /\ UNCHANGED <<state, dir>>
    BY <1>3 DEF nn_sock_recv, nn_sock_send
  <2>2. flags \in SUBSET Dirs /\ (state = "ACTIVE" => \A d \in Dirs : d \in flags <=> efd[d])
    BY DEF TypeOK, FlagsExact
  <2>3. QED BY <2>1, <2>2, AttemptInv
<1>4. ASSUME NEW t \in Threads, nn_efd_wait(t) PROVE IInv'
  BY <1>4 DEF nn_efd_wait, Goto, InCall, TypeOK, FdsExact, FlagsExact
<1>5. ASSUME NEW t \in Threads, WaitFails(t) PROVE IInv'
  BY <1>5 DEF WaitFails, Goto, InCall, TypeOK, FdsExact, FlagsExact
<1>6. ASSUME NEW t \in Threads, Retry(t) PROVE IInv'
  <2> DEFINE flags1 == IF efd[dir[t]] THEN flags \cup {dir[t]} ELSE flags
  <2>1. Attempt(t, flags1, FALSE) /\ UNCHANGED <<state, dir>>
    BY <1>6 DEF Retry
  <2>2. dir[t] \in Dirs /\ flags \subseteq Dirs
    BY DEF TypeOK
  <2>3. flags1 \in SUBSET Dirs
    BY <2>2
  <2>4. state = "ACTIVE" => \A d \in Dirs : d \in flags1 <=> efd[d]
    BY <2>2 DEF FlagsExact
  <2> HIDE DEF flags1
  <2>5. QED BY <2>1, <2>3, <2>4, AttemptInv
<1>7. ASSUME NEW t \in Threads, PollBegin(t) \/ nn_poll(t) PROVE IInv'
  BY <1>7 DEF PollBegin, nn_poll, Goto, InCall, TypeOK, FdsExact, FlagsExact
<1>8. CASE ProtocolChange
  BY <1>8, ChangeInv
<1>9. ASSUME nn_sock_shutdown PROVE IInv'
  <2>1. efd' \in [Dirs -> BOOLEAN]
    BY <1>9, Zenon DEF nn_sock_shutdown
  <2>2. QED
    BY <1>9, <2>1 DEF nn_sock_shutdown, TypeOK, FdsExact, FlagsExact
<1>10. ASSUME nn_sock_term PROVE IInv'
  BY <1>10 DEF nn_sock_term, TypeOK, FdsExact, FlagsExact
<1>11. QED
  BY <1>1, <1>2, <1>3, <1>4, <1>5, <1>6, <1>7, <1>8, <1>9, <1>10 DEF Next

(* The inductive invariant holds throughout.                               *)
THEOREM Inductive == Spec => []IInv
  BY InitInv, NextInv, PTL DEF Spec

(* For any number of threads blocked in nn_send, nn_recv and nn_poll while *)
(* the protocol changes and the socket is closed: NN_RCVFD and NN_SNDFD    *)
(* are readable exactly while the protocol reports their direction,        *)
(* whatever came of the calls in between (success, EAGAIN after messages   *)
(* were dropped, another error), and nn_efd_unsignal never finds one that  *)
(* is not signalled.                                                       *)
THEOREM SoundSafe == Spec => []Sound
  <1>1. IInv => Sound BY DEF IInv
  <1>2. QED BY <1>1, Inductive, PTL
=============================================================================
