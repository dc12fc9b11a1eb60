-------------------------------- MODULE Req ---------------------------------
(***************************************************************************)
(* The REQ socket (protocols/reqrep/req.c, task.c) on top of the raw XREQ  *)
(* socket (xreq.c), its re-send timer and its peers.                       *)
(*                                                                         *)
(* Every action is one stay in the context of the socket, the handler of   *)
(* nn_req included.  The timer is the one TimerAbs describes.  The load    *)
(* balancer may pick any pipe that is ready (module Priolist says which);  *)
(* a reply is read as soon as it arrives, so the fair queuer holds at most *)
(* the message being read.  A peer answers a request it has got at most    *)
(* once and at any later time; the answer is lost if its pipe goes first.  *)
(* Replies are too large to be stored within nn_chunkref itself, and the   *)
(* request numbers do not wrap (31 bits, from a random start).             *)
(***************************************************************************)
EXTENDS Naturals

CONSTANTS Pipes,
          MaxRequests   \* bound: requests submitted in one run

NULL == "NULL"

ASSUME ReqAssumption == MaxRequests \in Nat /\ NULL \notin Pipes

Ids == 1 .. MaxRequests

VARIABLES
  state,     \* nn_req.state
  timer,     \* nn_req.task.timer, as in TimerAbs
  id,        \* nn_req.task.id: the number of requests submitted so far
  reply,     \* nn_req.task.reply: the request it answers, and whether the
             \* message is still owned (nn_msg_term leaves the fields alone)
  sentTo,    \* nn_req.task.sent_to
  attached,  \* the pipes known to nn_xreq
  outp,      \* the pipes in nn_xreq.lb, ready for a message
  peer,      \* peer[p]: requests received and not yet answered through p
  sock,      \* the socket: open, closing (pipes going), stopping, freed
  aborted    \* an assertion has failed or a freed message was used

vars == <<state, timer, id, reply, sentTo, attached, outp, peer, sock, aborted>>

Empty == [id |-> 0, owned |-> TRUE]   \* nn_msg_init (&reply, 0)
InProgress == state \notin {"IDLE", "PASSIVE", "STOPPING"}   \* nn_req_inprogress

TypeOK ==
  /\ state \in {"IDLE", "PASSIVE", "DELAYED", "ACTIVE", "TIMED_OUT", "CANCELLING",
                "STOPPING_TIMER", "DONE", "STOPPING"}
  /\ timer \in {"IDLE", "ACTIVE", "STOPPING"}
  /\ id \in 0 .. MaxRequests
  /\ reply \in [id : 0 .. MaxRequests, owned : BOOLEAN]
  /\ sentTo \in Pipes \cup {NULL}
  /\ attached \subseteq Pipes
  /\ outp \subseteq attached
  /\ peer \in [Pipes -> SUBSET Ids]
  /\ sock \in {"open", "closing", "stopping", "freed"}
  /\ aborted \in BOOLEAN

(* nn_req_init, and the start of the state machine.                        *)
Init ==
  /\ state = "PASSIVE" /\ timer = "IDLE" /\ id = 0
  /\ reply = Empty /\ sentTo = NULL
  /\ attached = {} /\ outp = {}
  /\ peer = [p \in Pipes |-> {}]
  /\ sock = "open" /\ aborted = FALSE

-----------------------------------------------------------------------------
(* nn_req_action_send, with nn_xreq_send_to: send request n to one of the  *)
(* pipes outs and start the timer (which must be idle: tm), or wait for a  *)
(* pipe.                                                                   *)
nn_req_action_send(n, outs, tm, allow_delay) ==
  \/ /\ outs = {}
     /\ state' = "DELAYED" /\ timer' = tm /\ outp' = outs
     /\ aborted' = ~ allow_delay
     /\ UNCHANGED <<sentTo, peer>>
  \/ \E p \in outs :
       /\ sentTo' = p /\ outp' = outs \ {p}
       /\ peer' = [peer EXCEPT ![p] = @ \cup {n}]
       /\ timer' = "ACTIVE" /\ state' = "ACTIVE"
       /\ aborted' = (tm # "IDLE")

(* What ACTIVE does for IN, SENT, PIPE_RM and a timeout: stop the timer.   *)
LeaveActive(s) ==
  /\ state' = s /\ timer' = "STOPPING" /\ sentTo' = NULL
  /\ aborted' = (timer # "ACTIVE")

(* nn_req_csend that sends at once although the timer is being stopped.    *)
nn_req_csend_NoCancel ==
  /\ ~ aborted /\ sock = "open" /\ id < MaxRequests
  /\ id' = id + 1
  /\ nn_req_action_send(id + 1, outp, timer, TRUE)
  /\ UNCHANGED <<reply, attached, sock>>

(* nn_req_csend: a new request number; the old request is cancelled.       *)
nn_req_csend ==
  /\ ~ aborted /\ sock = "open" /\ id < MaxRequests
  /\ id' = id + 1
  /\ \/ /\ state \in {"PASSIVE", "DONE"}
        /\ nn_req_action_send(id + 1, outp, timer, TRUE)
     \/ /\ state \in {"DELAYED", "CANCELLING"}
        /\ UNCHANGED <<state, timer, sentTo, outp, peer, aborted>>
     \/ /\ state = "ACTIVE"
        /\ LeaveActive("CANCELLING")
        /\ UNCHANGED <<outp, peer>>
     \/ /\ state \in {"TIMED_OUT", "STOPPING_TIMER"}
        /\ state' = "CANCELLING"
        /\ UNCHANGED <<timer, sentTo, outp, peer, aborted>>
  /\ UNCHANGED <<reply, attached, sock>>

(* nn_req_crecv, when there is a reply to hand over.  (It fails with EFSM  *)
(* or EAGAIN, and changes nothing, in the other states.)                   *)
nn_req_crecv ==
  /\ ~ aborted /\ sock = "open" /\ state = "DONE"
  /\ reply' = Empty
  /\ state' = "PASSIVE"
  /\ UNCHANGED <<timer, id, sentTo, attached, outp, peer, sock, aborted>>

(* nn_req_in: the reply to request r arrives through p and is read into    *)
(* task.reply; a reply nobody waits for is released there.  A socket that  *)
(* is being closed passes no pipe events on (nn_sock_shutdown).            *)
nn_req_in(p, r) ==
  /\ ~ aborted /\ sock = "open" /\ p \in attached /\ r \in peer[p]
  /\ peer' = [peer EXCEPT ![p] = @ \ {r}]
  /\ reply' = [id |-> r, owned |-> InProgress /\ r = id]
  /\ IF r = id /\ state = "ACTIVE"
       THEN LeaveActive("STOPPING_TIMER")
       ELSE UNCHANGED <<state, timer, sentTo, aborted>>
  /\ UNCHANGED <<id, attached, outp, sock>>

(* nn_req_out that does not look at the request that is waiting.           *)
nn_req_out_NotSent(p) ==
  /\ ~ aborted /\ sock = "open" /\ p \in attached \ outp
  /\ outp' = outp \cup {p}
  /\ UNCHANGED <<state, timer, id, reply, sentTo, attached, peer, sock, aborted>>

(* nn_req_out: the pipe is ready; a delayed request goes out at once.      *)
nn_req_out(p) ==
  /\ ~ aborted /\ sock = "open" /\ p \in attached \ outp
  /\ IF state = "DELAYED"
       THEN nn_req_action_send(id, outp \cup {p}, timer, FALSE)
       ELSE /\ outp' = outp \cup {p}
            /\ UNCHANGED <<state, timer, sentTo, peer, aborted>>
  /\ UNCHANGED <<id, reply, attached, sock>>

(* nn_xreq_add; the pipe announces itself with nn_req_out afterwards.      *)
nn_xreq_add(p) ==
  /\ ~ aborted /\ sock = "open" /\ p \notin attached
  /\ attached' = attached \cup {p}
  /\ UNCHANGED <<state, timer, id, reply, sentTo, outp, peer, sock, aborted>>

(* nn_req_rm that does not tell the state machine.                         *)
nn_req_rm_NoAction(p) ==
  /\ ~ aborted /\ p \in attached
  /\ attached' = attached \ {p} /\ outp' = outp \ {p}
  /\ peer' = [peer EXCEPT ![p] = {}]
  /\ UNCHANGED <<state, timer, id, reply, sentTo, sock, aborted>>

(* nn_req_rm: if the request went to p, NN_REQ_ACTION_PIPE_RM, which only  *)
(* the ACTIVE state accepts.                                               *)
nn_req_rm(p) ==
  /\ ~ aborted /\ p \in attached
  /\ attached' = attached \ {p} /\ outp' = outp \ {p}
  /\ peer' = [peer EXCEPT ![p] = {}]
  /\ \/ /\ sentTo # p
        /\ UNCHANGED <<state, timer, sentTo, aborted>>
     \/ /\ sentTo = p
        /\ state' = "TIMED_OUT" /\ timer' = "STOPPING" /\ sentTo' = NULL
        /\ aborted' = (state # "ACTIVE" \/ timer # "ACTIVE")
  /\ UNCHANGED <<id, reply, sock>>

(* NN_TIMER_TIMEOUT, which only the ACTIVE state accepts.                  *)
ResendTimeout ==
  /\ ~ aborted /\ timer = "ACTIVE"
  /\ state' = "TIMED_OUT" /\ timer' = "STOPPING" /\ sentTo' = NULL
  /\ aborted' = (state # "ACTIVE")
  /\ UNCHANGED <<id, reply, attached, outp, peer, sock>>

-----------------------------------------------------------------------------
(* The end of nn_req_shutdown: nn_sockbase_stopped, after which the socket *)
(* destroys the protocol (nn_req_term), which releases task.reply.         *)
Stopped ==
  /\ state' = "IDLE" /\ timer' = "IDLE" /\ sock' = "freed"

(* NN_TIMER_STOPPED, which only the states that stop the timer accept.     *)
TimerStopped_Done ==
  /\ ~ aborted /\ timer = "STOPPING"
  /\ timer' = "IDLE" /\ state' = "DONE"
  /\ UNCHANGED <<id, reply, sentTo, attached, outp, peer, sock, aborted>>

TimerStopped ==
  /\ ~ aborted /\ timer = "STOPPING"
  /\ \/ /\ state \in {"TIMED_OUT", "CANCELLING"}
        /\ nn_req_action_send(id, outp, "IDLE", TRUE)
        /\ UNCHANGED sock
     \/ /\ state \notin {"TIMED_OUT", "CANCELLING", "STOPPING"}
        /\ state' = "DONE" /\ timer' = "IDLE"
        /\ aborted' = (state # "STOPPING_TIMER")
        /\ UNCHANGED <<sentTo, outp, peer, sock>>
     \/ /\ state = "STOPPING"
        /\ Stopped
        /\ UNCHANGED <<sentTo, outp, peer, aborted>>
  /\ UNCHANGED <<id, reply, attached>>

(* nn_close: no more calls from the user, the endpoints go one by one.     *)
nn_sock_stop ==
  /\ ~ aborted /\ sock = "open"
  /\ sock' = "closing"
  /\ UNCHANGED <<state, timer, id, reply, sentTo, attached, outp, peer, aborted>>

(* nn_req_stop, called by the socket when its endpoints are gone.          *)
nn_req_stop ==
  /\ ~ aborted /\ sock = "closing" /\ attached = {}
  /\ \/ /\ timer = "IDLE"
        /\ Stopped
     \/ /\ timer # "IDLE"
        /\ timer' = "STOPPING" /\ state' = "STOPPING" /\ sock' = "stopping"
  /\ UNCHANGED <<id, reply, sentTo, attached, outp, peer, aborted>>

Next ==
  \/ nn_req_csend
  \/ nn_req_crecv
  \/ \E p \in Pipes, r \in Ids : nn_req_in(p, r)
  \/ \E p \in Pipes : nn_req_out(p) \/ nn_xreq_add(p) \/ nn_req_rm(p)
  \/ ResendTimeout
  \/ TimerStopped
  \/ nn_sock_stop
  \/ nn_req_stop

Spec == Init /\ [][Next]_vars

(* The worker thread stops timers and reports writable pipes; a peer that  *)
(* is asked again and again in the end answers within the re-send interval.*)
FairSpec ==
  /\ Spec
  /\ WF_vars(TimerStopped)
  /\ WF_vars(nn_req_stop)
  /\ \A p \in Pipes : SF_vars(nn_req_out(p))
  /\ SF_vars(state = "ACTIVE" /\ \E p \in Pipes : nn_req_in(p, id))

-----------------------------------------------------------------------------
(* No event meets a state of nn_req_handler that does not expect it, the   *)
(* timer is never started while it runs (nn_fsm_start), and a pipe that    *)
(* becomes ready can take the delayed request (nn_req_action_send).        *)
NoAssertionFails == ~ aborted

(* task.sent_to is a live pipe while, and only while, the answer is being  *)
(* waited for: no dangling pipe that a new pipe at the same address could  *)
(* be mistaken for.                                                        *)
SentToLive == (sentTo # NULL <=> state = "ACTIVE") /\ (sentTo # NULL => sentTo \in attached)

(* A request is delayed only while no pipe can take it.                    *)
DelayedMeansNoPeer == state = "DELAYED" => outp = {}

(* The timer runs exactly while an answer is waited for; it is idle when   *)
(* the next request may start it.                                          *)
TimerFollowsState ==
  /\ timer = "ACTIVE" <=> state = "ACTIVE"
  /\ timer = "STOPPING" <=> state \in {"TIMED_OUT", "CANCELLING", "STOPPING_TIMER", "STOPPING"}

(* The state of the request, its timer and the pipes agree: no event comes *)
(* unexpected, the timer runs exactly while an answer is waited for, and a *)
(* request waits only for want of a pipe.                                  *)
Sound == NoAssertionFails /\ DelayedMeansNoPeer /\ TimerFollowsState

(* A submitted request is answered in the end, unless the socket is closed *)
(* or has no peers left.                                                   *)
RequestAnswered ==
  InProgress ~> state = "DONE" \/ sock # "open" \/ attached = {}

(* Closing the socket gets past the protocol.                              *)
StopCompletes == sock # "open" /\ attached = {} ~> sock = "freed"

-----------------------------------------------------------------------------
(* req.c, nn_req_events: "In DONE state the reply is stored in 'reply'     *)
(* field": the reply nn_req_crecv hands over answers the last request, and *)
(* has not been released.                                                  *)
DoneHoldsReply == state = "DONE" => reply = [id |-> id, owned |-> TRUE]
=============================================================================
