------------------------------- MODULE SockIo -------------------------------
(***************************************************************************)
(* Blocking nn_send, nn_recv and nn_poll on one socket (core/sock.c,       *)
(* core/poll.c) against the worker thread and nn_close.  A call that finds *)
(* nothing to do leaves the context of the socket and sleeps on an event   *)
(* descriptor (utils/efd.c), NN_RCVFD or NN_SNDFD; whoever leaves the      *)
(* context brings the two descriptors in line with what the protocol       *)
(* reports (nn_sock_onleave).                                              *)
(*                                                                         *)
(* nn_sock_send and nn_sock_recv are the same code in the two directions   *)
(* IN and OUT.  ready is what the events function of the protocol reports. *)
(* It is not a promise: SUB reports a message and then drops it because it *)
(* matches no subscription, SURVEYOR without a survey reports IN and its   *)
(* recv fails with EFSM.  The opposite does hold for every protocol: what  *)
(* is not reported does not succeed.  Every stay in the context is one     *)
(* action.                                                                 *)
(***************************************************************************)

CONSTANTS Threads,    \* application threads
          Dirs        \* directions of the socket type (NOSEND, NORECV)

ASSUME SockIoAssumption == Dirs \subseteq {"IN", "OUT"}

VARIABLES
  state,    \* "ACTIVE", "STOPPED" (from nn_sock_stop on) or "TERMED"
  ready,    \* the directions that the events function reports
  flags,    \* nn_sock.flags: the descriptors the socket believes signalled
  efd,      \* the event descriptor of each direction is readable
  pc, dir,  \* the threads: where they are, and the direction of their call
  aborted   \* nn_efd_unsignal found nothing to read

vars == <<state, ready, flags, efd, pc, dir, aborted>>

InCall == {"call", "wait", "woken"}     \* the thread holds the socket

TypeOK ==
  /\ state \in {"ACTIVE", "STOPPED", "TERMED"}
  /\ ready \subseteq Dirs
  /\ flags \subseteq Dirs
  /\ efd \in [Dirs -> BOOLEAN]
  /\ pc \in [Threads -> InCall \cup {"ready", "poll"}]
  /\ dir \in [Threads -> Dirs]
  /\ aborted \in BOOLEAN

Init ==
  /\ state = "ACTIVE"
  /\ ready \in SUBSET Dirs
  /\ flags = ready
  /\ efd = [d \in Dirs |-> d \in ready]
  /\ pc = [t \in Threads |-> "ready"]
  /\ dir \in [Threads -> Dirs]
  /\ aborted = FALSE

Goto(t, loc) == pc' = [pc EXCEPT ![t] = loc]

-----------------------------------------------------------------------------

(* nn_sock_onleave forgetting to clear the flag when it unsignals.         *)
nn_sock_onleave_StickyFlag(now, flags1) ==
  /\ flags' = flags1 \cup now
  /\ efd' = [d \in Dirs |-> IF d \in now \ flags1 THEN TRUE
                            ELSE IF d \in flags1 \ now THEN FALSE ELSE efd[d]]
  /\ aborted' = (\E d \in flags1 \ now : ~ efd[d])

(* nn_sock_onleave that forgets nn_efd_signal.                             *)
nn_sock_onleave_NoSignal(now, flags1) ==
  /\ flags' = now
  /\ efd' = [d \in Dirs |-> IF d \in flags1 \ now THEN FALSE ELSE efd[d]]
  /\ UNCHANGED aborted

(* nn_sock_onleave: a descriptor is written when its direction has come to *)
(* be reported and read when it no longer is, going by the flags alone.    *)
(* With eventfd a read of a descriptor that is not signalled is an error.  *)
nn_sock_onleave(now, flags1) ==
  /\ flags' = now
  /\ efd' = [d \in Dirs |-> IF d \in now \ flags1 THEN TRUE
                            ELSE IF d \in flags1 \ now THEN FALSE ELSE efd[d]]
  /\ aborted' = (\E d \in flags1 \ now : ~ efd[d])

(* Leave the context with what the protocol reports by then and the flags. *)
LeaveCtx(now, flags1) ==
  /\ ready' = now
  /\ IF state = "ACTIVE" THEN nn_sock_onleave(now, flags1)
                         ELSE flags' = flags1 /\ UNCHANGED <<efd, aborted>>

(* One turn of the loop of nn_sock_send and nn_sock_recv.  dontwait is     *)
(* NN_DONTWAIT.  The call returns EBADF on a socket that is being closed,  *)
(* success, or any error of the protocol but EAGAIN (EFSM, EINVAL,         *)
(* ETIMEDOUT); with EAGAIN it returns if it may not wait and waits if it   *)
(* may.  Whatever it did may change what is reported in both directions.   *)
Attempt(t, flags1, dontwait) ==
  \/ /\ state # "ACTIVE"
     /\ LeaveCtx(ready, flags1)
     /\ Goto(t, "ready")
  \/ /\ state = "ACTIVE"
     /\ \E rc \in {"success", "EAGAIN", "error"}, now \in SUBSET Dirs :
          /\ rc = "success" => dir[t] \in ready
          /\ LeaveCtx(now, flags1)
          /\ Goto(t, IF rc = "EAGAIN" /\ ~ dontwait THEN "wait" ELSE "ready")

(* nn_sendmsg or nn_recvmsg takes its hold (nn_global_hold_socket).        *)
CallBegin(t, d) ==
  /\ pc[t] = "ready" /\ state = "ACTIVE"
  /\ dir' = [dir EXCEPT ![t] = d]
  /\ Goto(t, "call")
  /\ UNCHANGED <<state, ready, flags, efd, aborted>>

(* The call enters the context for the first time.                         *)
nn_sock_recv(t) ==
  /\ pc[t] = "call" /\ dir[t] = "IN"
  /\ \E dontwait \in BOOLEAN : Attempt(t, flags, dontwait)
  /\ UNCHANGED <<state, dir>>

nn_sock_send(t) ==
  /\ pc[t] = "call" /\ dir[t] = "OUT"
  /\ \E dontwait \in BOOLEAN : Attempt(t, flags, dontwait)
  /\ UNCHANGED <<state, dir>>

(* nn_efd_wait outside of the context: poll() sees the descriptor ...      *)
nn_efd_wait(t) ==
  /\ pc[t] = "wait" /\ efd[dir[t]]
  /\ Goto(t, "woken")
  /\ UNCHANGED <<state, ready, flags, efd, dir, aborted>>

(* ... or the timeout passes, or a signal interrupts it: the call returns. *)
WaitFails(t) ==
  /\ pc[t] = "wait"
  /\ Goto(t, "ready")
  /\ UNCHANGED <<state, ready, flags, efd, dir, aborted>>

(* Back in the context: "Double check if pipes are still available".       *)
Retry(t) ==
  /\ pc[t] = "woken"
  /\ Attempt(t, IF efd[dir[t]] THEN flags \cup {dir[t]} ELSE flags, FALSE)
  /\ UNCHANGED <<state, dir>>

(* nn_poll asks for the descriptors, drops its hold and polls them.        *)
PollBegin(t) ==
  /\ pc[t] = "ready" /\ state = "ACTIVE"
  /\ Goto(t, "poll")
  /\ UNCHANGED <<state, ready, flags, efd, dir, aborted>>

nn_poll(t) ==
  /\ pc[t] = "poll"
  /\ \E d \in Dirs : efd[d]
  /\ Goto(t, "ready")
  /\ UNCHANGED <<state, ready, flags, efd, dir, aborted>>

-----------------------------------------------------------------------------
(* The worker, or a call on the endpoints or the options, changes what the *)
(* protocol reports: a message arrives, a pipe is removed or can be        *)
(* written, a survey ends.                                                 *)
ProtocolChange ==
  /\ state # "TERMED"
  /\ \E now \in SUBSET Dirs : LeaveCtx(now, flags)
  /\ UNCHANGED <<state, pc, dir>>

(* nn_sock_shutdown without nn_efd_stop.                                   *)
nn_sock_shutdown_NoEfdStop ==
  /\ state = "ACTIVE"
  /\ state' = "STOPPED"
  /\ UNCHANGED <<ready, flags, efd, pc, dir, aborted>>

(* nn_sock_shutdown on NN_FSM_STOP: nn_efd_stop signals both descriptors.  *)
nn_sock_shutdown ==
  /\ state = "ACTIVE"
  /\ state' = "STOPPED"
  /\ efd' = [d \in Dirs |-> TRUE]
  /\ UNCHANGED <<ready, flags, pc, dir, aborted>>

(* nn_sock_term closes the descriptors once every hold is released; a      *)
(* poll() on a closed descriptor returns.                                  *)
nn_sock_term ==
  /\ state = "STOPPED"
  /\ \A t \in Threads : pc[t] \notin InCall
  /\ state' = "TERMED"
  /\ UNCHANGED <<ready, flags, efd, pc, dir, aborted>>

Next ==
  \/ \E t \in Threads :
       \/ \E d \in Dirs : CallBegin(t, d)
       \/ nn_sock_recv(t) \/ nn_sock_send(t)
       \/ nn_efd_wait(t)
       \/ WaitFails(t)
       \/ Retry(t)
       \/ PollBegin(t) \/ nn_poll(t)
  \/ ProtocolChange
  \/ nn_sock_shutdown
  \/ nn_sock_term

Spec == Init /\ [][Next]_vars

(* A woken thread runs, and poll() notices a descriptor that stays         *)
(* readable.                                                               *)
Fairness ==
  \A t \in Threads :
    /\ WF_vars(nn_sock_recv(t)) /\ WF_vars(nn_sock_send(t))
    /\ WF_vars(nn_efd_wait(t)) /\ WF_vars(Retry(t)) /\ WF_vars(nn_poll(t))

FairSpec == Spec /\ Fairness

-----------------------------------------------------------------------------
(* nn_efd_unsignal is never called on a descriptor that is not signalled   *)
(* (it would abort the process).                                           *)
UnsignalSafe == ~ aborted

(* While the socket is open, NN_RCVFD and NN_SNDFD are readable exactly    *)
(* while the protocol reports their direction, whoever was last in the     *)
(* context and whatever came of its call: no message is reported and stays *)
(* unseen by a poll loop, and no descriptor stays readable after the       *)
(* protocol has taken its report back.                                     *)
FdsExact == state = "ACTIVE" => \A d \in Dirs : efd[d] <=> d \in ready

(* The descriptors say what the protocol reports, and no step of           *)
(* nn_sock_onleave relies on one that is not signalled.                    *)
Sound == TypeOK /\ UnsignalSafe /\ FdsExact

(* A sleeping call does not miss a report of what it waits for, made after *)
(* it found nothing and before it sleeps or while it does: it tries again, *)
(* unless the report is taken back first.                                  *)
NoMissedWakeup ==
  \A t \in Threads :
    pc[t] = "wait" /\ dir[t] \in ready ~> pc[t] # "wait" \/ dir[t] \notin ready

(* nn_term.adoc: a call "blocked inside a blocking function ... will be    *)
(* unblocked" when the socket is closed, and so will a poll.               *)
CloseUnblocks ==
  \A t \in Threads :
    pc[t] \in InCall \cup {"poll"} /\ state # "ACTIVE" ~> pc[t] = "ready"
=============================================================================
