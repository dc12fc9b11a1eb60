----------------------------- MODULE ReqProofs ------------------------------
(***************************************************************************)
(* The safety of the REQ state machine for any number of pipes and         *)
(* requests.  The properties of Req need each other: that no event meets a *)
(* state that does not expect it follows from how the timer and task.sent_to*)
(* follow the state, and that the timer is idle when the next request      *)
(* starts it needs the order in which a closing socket loses its pipes.    *)
(***************************************************************************)
EXTENDS Req, TLAPS

(* A socket that has told its protocol to stop has no pipes, and the       *)
(* protocol is stopping until the socket is freed.                         *)
SockInv ==
  /\ sock \in {"stopping", "freed"} => attached = {}
  /\ sock = "stopping" <=> state = "STOPPING"
  /\ sock = "freed" <=> state = "IDLE"

(* A request in progress has a number.                                     *)
NumberInv == InProgress => id \in Ids

IInv ==
  /\ TypeOK
  /\ ~ aborted
  /\ SentToLive
  /\ DelayedMeansNoPeer
  /\ TimerFollowsState
  /\ SockInv
  /\ NumberInv

USE DEF NULL

-----------------------------------------------------------------------------
(* The initial state of nn_req satisfies the invariant.                    *)
LEMMA InitInv == Init => IInv
<1> SUFFICES ASSUME Init PROVE IInv
  OBVIOUS
<1>1. aborted \in BOOLEAN /\ ~ aborted
  BY DEF Init
<1>2. TypeOK
  <2>1. id \in 0 .. MaxRequests /\ peer \in [Pipes -> SUBSET Ids]
    BY ReqAssumption DEF Init, Ids
  <2>2. reply \in [id : 0 .. MaxRequests, owned : BOOLEAN]
    BY ReqAssumption DEF Init, Empty
  <2> QED
    BY <1>1, <2>1, <2>2 DEF Init, TypeOK
<1>3. SentToLive /\ DelayedMeansNoPeer /\ TimerFollowsState /\ SockInv /\ NumberInv
  BY DEF Init, SentToLive, DelayedMeansNoPeer, TimerFollowsState, SockInv, NumberInv, InProgress
<1> QED
  BY <1>1, <1>2, <1>3 DEF IInv

(* Submitting a request.                                                   *)
LEMMA CsendInv == IInv /\ nn_req_csend => IInv'
<1> SUFFICES ASSUME IInv, nn_req_csend PROVE IInv'
  OBVIOUS
<1>1. aborted' \in BOOLEAN /\ ~ aborted'
  BY ReqAssumption DEF IInv, TypeOK, SentToLive, DelayedMeansNoPeer, TimerFollowsState, SockInv, nn_req_csend, nn_req_action_send, LeaveActive
<1>2. TypeOK'
  <2>1. id' \in 0 .. MaxRequests
    BY ReqAssumption DEF IInv, TypeOK, nn_req_csend
  <2>2. reply' \in [id : 0 .. MaxRequests, owned : BOOLEAN]
    BY ReqAssumption DEF IInv, TypeOK, nn_req_csend, Empty, Ids
  <2>3. peer' \in [Pipes -> SUBSET Ids]
    BY ReqAssumption DEF IInv, TypeOK, nn_req_csend, nn_req_action_send, LeaveActive, Ids
  <2> QED
    BY <1>1, <2>1, <2>2, <2>3 DEF IInv, TypeOK, nn_req_csend, nn_req_action_send, LeaveActive
<1>3. SentToLive' /\ DelayedMeansNoPeer' /\ TimerFollowsState' /\ SockInv' /\ NumberInv'
  BY ReqAssumption DEF IInv, TypeOK, SentToLive, DelayedMeansNoPeer, TimerFollowsState, SockInv,
     NumberInv, InProgress, Ids, nn_req_csend, nn_req_action_send, LeaveActive
<1> QED
  BY <1>1, <1>2, <1>3 DEF IInv

(* Handing over a reply.                                                   *)
LEMMA CrecvInv == IInv /\ nn_req_crecv => IInv'
<1> SUFFICES ASSUME IInv, nn_req_crecv PROVE IInv'
  OBVIOUS
<1>1. aborted' \in BOOLEAN /\ ~ aborted'
  BY ReqAssumption DEF IInv, TypeOK, SentToLive, DelayedMeansNoPeer, TimerFollowsState, SockInv, nn_req_crecv
<1>2. TypeOK'
  <2>1. id' \in 0 .. MaxRequests
    BY ReqAssumption DEF IInv, TypeOK, nn_req_crecv
  <2>2. reply' \in [id : 0 .. MaxRequests, owned : BOOLEAN]
    BY ReqAssumption DEF IInv, TypeOK, nn_req_crecv, Empty, Ids
  <2>3. peer' \in [Pipes -> SUBSET Ids]
    BY ReqAssumption DEF IInv, TypeOK, nn_req_crecv, Ids
  <2> QED
    BY <1>1, <2>1, <2>2, <2>3 DEF IInv, TypeOK, nn_req_crecv
<1>3. SentToLive' /\ DelayedMeansNoPeer' /\ TimerFollowsState' /\ SockInv' /\ NumberInv'
  BY ReqAssumption DEF IInv, TypeOK, SentToLive, DelayedMeansNoPeer, TimerFollowsState, SockInv,
     NumberInv, InProgress, Ids, nn_req_crecv
<1> QED
  BY <1>1, <1>2, <1>3 DEF IInv

(* Reading a reply.                                                        *)
LEMMA InInv == ASSUME IInv, NEW p \in Pipes, NEW r \in Ids, nn_req_in(p, r) PROVE IInv'
<1>1. aborted' \in BOOLEAN /\ ~ aborted'
  BY ReqAssumption DEF IInv, TypeOK, SentToLive, DelayedMeansNoPeer, TimerFollowsState, SockInv, nn_req_in, LeaveActive, InProgress
<1>2. TypeOK'
  <2>1. id' \in 0 .. MaxRequests
    BY ReqAssumption DEF IInv, TypeOK, nn_req_in
  <2>2. reply' \in [id : 0 .. MaxRequests, owned : BOOLEAN]
    BY ReqAssumption DEF IInv, TypeOK, nn_req_in, Empty, Ids
  <2>3. peer' \in [Pipes -> SUBSET Ids]
    BY ReqAssumption DEF IInv, TypeOK, nn_req_in, LeaveActive, InProgress, Ids
  <2> QED
    BY <1>1, <2>1, <2>2, <2>3 DEF IInv, TypeOK, nn_req_in, LeaveActive, InProgress
<1>3. SentToLive' /\ DelayedMeansNoPeer' /\ TimerFollowsState' /\ SockInv' /\ NumberInv'
  BY ReqAssumption DEF IInv, TypeOK, SentToLive, DelayedMeansNoPeer, TimerFollowsState, SockInv,
     NumberInv, InProgress, Ids, nn_req_in, LeaveActive
<1> QED
  BY <1>1, <1>2, <1>3 DEF IInv

(* A pipe becomes ready.                                                   *)
LEMMA OutInv == ASSUME IInv, NEW p \in Pipes, nn_req_out(p) PROVE IInv'
<1>1. aborted' \in BOOLEAN /\ ~ aborted'
  BY ReqAssumption DEF IInv, TypeOK, SentToLive, DelayedMeansNoPeer, TimerFollowsState, SockInv, nn_req_out, nn_req_action_send
<1>2. TypeOK'
  <2>1. id' \in 0 .. MaxRequests
    BY ReqAssumption DEF IInv, TypeOK, nn_req_out
  <2>2. reply' \in [id : 0 .. MaxRequests, owned : BOOLEAN]
    BY ReqAssumption DEF IInv, TypeOK, nn_req_out, Empty, Ids
  <2>3. peer' \in [Pipes -> SUBSET Ids]
    BY ReqAssumption DEF IInv, TypeOK, nn_req_out, nn_req_action_send, Ids, NumberInv, InProgress
  <2> QED
    BY <1>1, <2>1, <2>2, <2>3 DEF IInv, TypeOK, nn_req_out, nn_req_action_send
<1>3. SentToLive' /\ DelayedMeansNoPeer' /\ TimerFollowsState' /\ SockInv' /\ NumberInv'
  BY ReqAssumption DEF IInv, TypeOK, SentToLive, DelayedMeansNoPeer, TimerFollowsState, SockInv,
     NumberInv, InProgress, Ids, nn_req_out, nn_req_action_send
<1> QED
  BY <1>1, <1>2, <1>3 DEF IInv

(* A new pipe.                                                             *)
LEMMA AddInv == ASSUME IInv, NEW p \in Pipes, nn_xreq_add(p) PROVE IInv'
<1>1. aborted' \in BOOLEAN /\ ~ aborted'
  BY ReqAssumption DEF IInv, TypeOK, SentToLive, DelayedMeansNoPeer, TimerFollowsState, SockInv, nn_xreq_add
<1>2. TypeOK'
  <2>1. id' \in 0 .. MaxRequests
    BY ReqAssumption DEF IInv, TypeOK, nn_xreq_add
  <2>2. reply' \in [id : 0 .. MaxRequests, owned : BOOLEAN]
    BY ReqAssumption DEF IInv, TypeOK, nn_xreq_add, Empty, Ids
  <2>3. peer' \in [Pipes -> SUBSET Ids]
    BY ReqAssumption DEF IInv, TypeOK, nn_xreq_add, Ids
  <2> QED
    BY <1>1, <2>1, <2>2, <2>3 DEF IInv, TypeOK, nn_xreq_add
<1>3. SentToLive' /\ DelayedMeansNoPeer' /\ TimerFollowsState' /\ SockInv' /\ NumberInv'
  BY ReqAssumption DEF IInv, TypeOK, SentToLive, DelayedMeansNoPeer, TimerFollowsState, SockInv,
     NumberInv, InProgress, Ids, nn_xreq_add
<1> QED
  BY <1>1, <1>2, <1>3 DEF IInv

(* A pipe goes away.                                                       *)
LEMMA RmInv == ASSUME IInv, NEW p \in Pipes, nn_req_rm(p) PROVE IInv'
<1>1. aborted' \in BOOLEAN /\ ~ aborted'
  BY ReqAssumption DEF IInv, TypeOK, SentToLive, DelayedMeansNoPeer, TimerFollowsState, SockInv, nn_req_rm
<1>2. TypeOK'
  <2>1. id' \in 0 .. MaxRequests
    BY ReqAssumption DEF IInv, TypeOK, nn_req_rm
  <2>2. reply' \in [id : 0 .. MaxRequests, owned : BOOLEAN]
    BY ReqAssumption DEF IInv, TypeOK, nn_req_rm, Empty, Ids
  <2>3. peer' \in [Pipes -> SUBSET Ids]
    BY ReqAssumption DEF IInv, TypeOK, nn_req_rm, Ids
  <2> QED
    BY <1>1, <2>1, <2>2, <2>3 DEF IInv, TypeOK, nn_req_rm
<1>3. SentToLive' /\ DelayedMeansNoPeer' /\ TimerFollowsState' /\ SockInv' /\ NumberInv'
  BY ReqAssumption DEF IInv, TypeOK, SentToLive, DelayedMeansNoPeer, TimerFollowsState, SockInv,
     NumberInv, InProgress, Ids, nn_req_rm
<1> QED
  BY <1>1, <1>2, <1>3 DEF IInv

(* The re-send timer fires.                                                *)
LEMMA TimeoutInv == IInv /\ ResendTimeout => IInv'
<1> SUFFICES ASSUME IInv, ResendTimeout PROVE IInv'
  OBVIOUS
<1>1. aborted' \in BOOLEAN /\ ~ aborted'
  BY ReqAssumption DEF IInv, TypeOK, SentToLive, DelayedMeansNoPeer, TimerFollowsState, SockInv, ResendTimeout
<1>2. TypeOK'
  <2>1. id' \in 0 .. MaxRequests
    BY ReqAssumption DEF IInv, TypeOK, ResendTimeout
  <2>2. reply' \in [id : 0 .. MaxRequests, owned : BOOLEAN]
    BY ReqAssumption DEF IInv, TypeOK, ResendTimeout, Empty, Ids
  <2>3. peer' \in [Pipes -> SUBSET Ids]
    BY ReqAssumption DEF IInv, TypeOK, ResendTimeout, Ids
  <2> QED
    BY <1>1, <2>1, <2>2, <2>3 DEF IInv, TypeOK, ResendTimeout
<1>3. SentToLive' /\ DelayedMeansNoPeer' /\ TimerFollowsState' /\ SockInv' /\ NumberInv'
  BY ReqAssumption DEF IInv, TypeOK, SentToLive, DelayedMeansNoPeer, TimerFollowsState, SockInv,
     NumberInv, InProgress, Ids, ResendTimeout
<1> QED
  BY <1>1, <1>2, <1>3 DEF IInv

(* The re-send timer has stopped.                                          *)
LEMMA TimerStoppedInv == IInv /\ TimerStopped => IInv'
<1> SUFFICES ASSUME IInv, TimerStopped PROVE IInv'
  OBVIOUS
<1>1. aborted' \in BOOLEAN /\ ~ aborted'
  BY ReqAssumption DEF IInv, TypeOK, SentToLive, DelayedMeansNoPeer, TimerFollowsState, SockInv, TimerStopped, nn_req_action_send, Stopped
<1>2. TypeOK'
  <2>1. id' \in 0 .. MaxRequests
    BY ReqAssumption DEF IInv, TypeOK, TimerStopped
  <2>2. reply' \in [id : 0 .. MaxRequests, owned : BOOLEAN]
    BY ReqAssumption DEF IInv, TypeOK, TimerStopped, Empty, Ids
  <2>3. peer' \in [Pipes -> SUBSET Ids]
    BY ReqAssumption DEF IInv, TypeOK, TimerStopped, nn_req_action_send, Stopped, Ids, NumberInv, InProgress
  <2> QED
    BY <1>1, <2>1, <2>2, <2>3 DEF IInv, TypeOK, TimerStopped, nn_req_action_send, Stopped
<1>3. SentToLive' /\ DelayedMeansNoPeer' /\ TimerFollowsState' /\ SockInv' /\ NumberInv'
  BY ReqAssumption DEF IInv, TypeOK, SentToLive, DelayedMeansNoPeer, TimerFollowsState, SockInv,
     NumberInv, InProgress, Ids, TimerStopped, nn_req_action_send, Stopped
<1> QED
  BY <1>1, <1>2, <1>3 DEF IInv

(* The user closes the socket.                                             *)
LEMMA SockStopInv == IInv /\ nn_sock_stop => IInv'
<1> SUFFICES ASSUME IInv, nn_sock_stop PROVE IInv'
  OBVIOUS
<1>1. aborted' \in BOOLEAN /\ ~ aborted'
  BY ReqAssumption DEF IInv, TypeOK, SentToLive, DelayedMeansNoPeer, TimerFollowsState, SockInv, nn_sock_stop
<1>2. TypeOK'
  <2>1. id' \in 0 .. MaxRequests
    BY ReqAssumption DEF IInv, TypeOK, nn_sock_stop
  <2>2. reply' \in [id : 0 .. MaxRequests, owned : BOOLEAN]
    BY ReqAssumption DEF IInv, TypeOK, nn_sock_stop, Empty, Ids
  <2>3. peer' \in [Pipes -> SUBSET Ids]
    BY ReqAssumption DEF IInv, TypeOK, nn_sock_stop, Ids
  <2> QED
    BY <1>1, <2>1, <2>2, <2>3 DEF IInv, TypeOK, nn_sock_stop
<1>3. SentToLive' /\ DelayedMeansNoPeer' /\ TimerFollowsState' /\ SockInv' /\ NumberInv'
  BY ReqAssumption DEF IInv, TypeOK, SentToLive, DelayedMeansNoPeer, TimerFollowsState, SockInv,
     NumberInv, InProgress, Ids, nn_sock_stop
<1> QED
  BY <1>1, <1>2, <1>3 DEF IInv

(* The socket stops its protocol.                                          *)
LEMMA StopInv == IInv /\ nn_req_stop => IInv'
<1> SUFFICES ASSUME IInv, nn_req_stop PROVE IInv'
  OBVIOUS
<1>1. aborted' \in BOOLEAN /\ ~ aborted'
  BY ReqAssumption DEF IInv, TypeOK, SentToLive, DelayedMeansNoPeer, TimerFollowsState, SockInv, nn_req_stop, Stopped
<1>2. TypeOK'
  <2>1. id' \in 0 .. MaxRequests
    BY ReqAssumption DEF IInv, TypeOK, nn_req_stop
  <2>2. reply' \in [id : 0 .. MaxRequests, owned : BOOLEAN]
    BY ReqAssumption DEF IInv, TypeOK, nn_req_stop, Empty, Ids
  <2>3. peer' \in [Pipes -> SUBSET Ids]
    BY ReqAssumption DEF IInv, TypeOK, nn_req_stop, Stopped, Ids
  <2> QED
    BY <1>1, <2>1, <2>2, <2>3 DEF IInv, TypeOK, nn_req_stop, Stopped
<1>3. SentToLive' /\ DelayedMeansNoPeer' /\ TimerFollowsState' /\ SockInv' /\ NumberInv'
  BY ReqAssumption DEF IInv, TypeOK, SentToLive, DelayedMeansNoPeer, TimerFollowsState, SockInv,
     NumberInv, InProgress, Ids, nn_req_stop, Stopped
<1> QED
  BY <1>1, <1>2, <1>3 DEF IInv

-----------------------------------------------------------------------------
(* Every step of nn_req preserves the invariant.                           *)
LEMMA NextInv == IInv /\ [Next]_vars => IInv'
<1> SUFFICES ASSUME IInv, [Next]_vars PROVE IInv'
  OBVIOUS
<1>1. CASE UNCHANGED vars
  BY <1>1 DEF vars, IInv, TypeOK, SentToLive, DelayedMeansNoPeer, TimerFollowsState, SockInv, NumberInv, InProgress
<1>2. CASE Next
  BY <1>2, CsendInv, CrecvInv, InInv, OutInv, AddInv, RmInv, TimeoutInv, TimerStoppedInv,
     SockStopInv, StopInv DEF Next
<1> QED
  BY <1>1, <1>2

(* nn_req keeps its invariant for ever.                                    *)
THEOREM Inductive == Spec => []IInv
  BY InitInv, NextInv, PTL DEF Spec

(* The variables of nn_req keep their types.                               *)
THEOREM TypeCorrect == Spec => []TypeOK
<1>1. IInv => TypeOK
  BY DEF IInv
<1> QED
  BY <1>1, Inductive, PTL

(* nn_req_handler never gets an event its state does not expect, and the   *)
(* assertions of nn_req_action_send and nn_fsm_start hold.                 *)
THEOREM AssertionsHold == Spec => []NoAssertionFails
<1>1. IInv => NoAssertionFails
  BY DEF IInv, NoAssertionFails
<1> QED
  BY <1>1, Inductive, PTL

(* task.sent_to is set exactly while an answer is waited for, and is then  *)
(* a pipe of the socket.                                                   *)
THEOREM SentToSafe == Spec => []SentToLive
<1>1. IInv => SentToLive
  BY DEF IInv
<1> QED
  BY <1>1, Inductive, PTL

(* A request is never held back while a pipe could take it.                *)
THEOREM DelaySafe == Spec => []DelayedMeansNoPeer
<1>1. IInv => DelayedMeansNoPeer
  BY DEF IInv
<1> QED
  BY <1>1, Inductive, PTL

(* The re-send timer runs exactly while an answer is waited for.           *)
THEOREM TimerSafe == Spec => []TimerFollowsState
<1>1. IInv => TimerFollowsState
  BY DEF IInv
<1> QED
  BY <1>1, Inductive, PTL

(* The request, its timer and the pipes agree for any set of pipes (Sound  *)
(* of module Req).                                                         *)
THEOREM SoundSafe == Spec => []Sound
  BY AssertionsHold, DelaySafe, TimerSafe, PTL DEF Sound
=============================================================================
