-------------------------------- MODULE Sock --------------------------------
(***************************************************************************)
(* One SP socket and its endpoints (core/sock.c, core/ep.c): nn_bind and   *)
(* nn_connect add endpoints, nn_shutdown removes them, nn_close stops them *)
(* all, then the protocol, then frees the socket.  Endpoints and protocols *)
(* stop when the worker thread is done with them.                          *)
(*                                                                         *)
(* The state machines run inside the socket's context (aio/ctx.c): a       *)
(* thread enters it, runs one handler and, before it leaves, feeds every   *)
(* event the handlers raised.  So an operation that enters the context is  *)
(* guarded by events = <<>>, and nn_ctx_leave is the action that feeds the *)
(* first event of the queue.  nn_assert and the nn_fsm_bad_xxx calls set   *)
(* aborted, and nothing runs after that.                                   *)
(***************************************************************************)
EXTENDS Naturals, Sequences, FiniteSets

CONSTANTS Threads,   \* application threads
          MaxEid     \* bound: endpoints created in the life of one socket

ASSUME SockAssumption == IsFiniteSet(Threads) /\ MaxEid \in Nat

VARIABLES
  state,    \* nn_sock.state; "NULL" when the descriptor is free
  holds,    \* nn_sock.holds
  termsem, relesem,
  eps,      \* nn_sock.eps
  sdeps,    \* nn_sock.sdeps
  eid,      \* nn_sock.eid
  ep,       \* nn_ep.state of each endpoint, "none" when not allocated
  tran,     \* its transport: "run", "stopping", "stopped" (nn_ep_stopped called)
  proto,    \* the protocol: "nostop" has no stop function, else as tran
  events,   \* the queue of the context
  pc,       \* application threads
  late,     \* history: the endpoints created after nn_close stopped the socket
  aborted   \* an assertion of the library failed

sems == <<holds, termsem, relesem>>
lists == <<eps, sdeps, eid>>
machines == <<ep, tran, proto>>
vars == <<state, holds, termsem, relesem, eps, sdeps, eid, ep, tran, proto, events, pc, late, aborted>>

Eids == 1 .. MaxEid
None == 0
Event == [type : {"EP_ACTION_STOPPED", "EP_STOPPED", "PIPE", "SOCK_STOPPED"}, ep : Eids \cup {None}]
Ev(type, e) == [type |-> type, ep |-> e]

Stopping == {"STOPPING_EPS", "STOPPING", "FINI"}
Closing == {"termsem", "relesem", "remove"}

TypeOK ==
  /\ state \in {"NULL", "ACTIVE"} \cup Stopping
  /\ holds \in 0 .. Cardinality(Threads) + 1
  /\ termsem \in 0 .. 1 /\ relesem \in 0 .. 1
  /\ eps \subseteq Eids /\ sdeps \subseteq Eids
  /\ eid \in 1 .. MaxEid + 1
  /\ ep \in [Eids -> {"none", "ACTIVE", "STOPPING", "IDLE"}]
  /\ tran \in [Eids -> {"run", "stopping", "stopped"}]
  /\ proto \in {"nostop", "run", "stopping", "stopped"}
  /\ events \in Seq(Event)
  /\ pc \in [Threads -> {"ready", "call", "done"} \cup Closing]
  /\ late \subseteq Eids
  /\ aborted \in BOOLEAN

Init ==
  /\ state = "NULL"
  /\ holds = 0 /\ termsem = 0 /\ relesem = 0
  /\ eps = {} /\ sdeps = {} /\ eid = 1
  /\ ep = [e \in Eids |-> "none"]
  /\ tran = [e \in Eids |-> "run"]
  /\ proto = "nostop"
  /\ events = <<>>
  /\ pc = [t \in Threads |-> "ready"]
  /\ late = {} /\ aborted = FALSE

Goto(t, loc) == pc' = [pc EXCEPT ![t] = loc]
EnterCtx == events = <<>> /\ ~ aborted

(* A failed assertion ends the process where it is.                        *)
Abort ==
  /\ aborted' = TRUE
  /\ UNCHANGED <<state, sems, lists, machines, events, pc, late>>

-----------------------------------------------------------------------------
(* nn_sock_init for a socket type with or without a stop function.         *)
nn_sock_init(t) ==
  /\ pc[t] = "ready" /\ state = "NULL" /\ ~ aborted
  /\ state' = "ACTIVE"
  /\ holds' = 1 /\ termsem' = 0 /\ relesem' = 0
  /\ eps' = {} /\ sdeps' = {} /\ eid' = 1
  /\ proto' \in {"nostop", "run"}
  /\ late' = {}
  /\ UNCHANGED <<ep, tran, events, pc, aborted>>

(* nn_sock_hold accepting a socket in any state.                           *)
nn_sock_hold_AnyState(t) ==
  /\ pc[t] = "ready" /\ state # "NULL" /\ ~ aborted
  /\ holds' = holds + 1
  /\ Goto(t, "call")
  /\ UNCHANGED <<state, termsem, relesem, lists, machines, events, late, aborted>>

(* nn_sock_hold, at the beginning of an API call.                          *)
nn_sock_hold(t) ==
  /\ pc[t] = "ready" /\ state = "ACTIVE" /\ ~ aborted
  /\ holds' = holds + 1
  /\ Goto(t, "call")
  /\ UNCHANGED <<state, termsem, relesem, lists, machines, events, late, aborted>>

Rele(n) ==
  /\ holds' = holds - n
  /\ relesem' = IF holds = n THEN relesem + 1 ELSE relesem

(* nn_sock_rele, at its end.                                               *)
nn_sock_rele(t) ==
  /\ pc[t] \in {"call", "done"} /\ ~ aborted
  /\ Rele(1)
  /\ Goto(t, "ready")
  /\ UNCHANGED <<state, termsem, lists, machines, events, late, aborted>>

(* nn_sock_add_ep.  The state of the socket is not looked at: a nn_bind    *)
(* that got its hold before nn_close adds its endpoint to a socket that    *)
(* stops or has stopped.  A transport that refuses the address leaves      *)
(* everything as it was.                                                   *)
nn_sock_add_ep(t) ==
  /\ pc[t] = "call" /\ EnterCtx
  /\ eid \in Eids
  /\ eps' = eps \cup {eid}
  /\ eid' = eid + 1
  /\ ep' = [ep EXCEPT ![eid] = "ACTIVE"]
  /\ tran' = [tran EXCEPT ![eid] = "run"]
  /\ late' = IF state = "ACTIVE" THEN late ELSE late \cup {eid}
  /\ Goto(t, "done")
  /\ UNCHANGED <<state, sems, sdeps, proto, events, aborted>>

(* The order of the lists: endpoints are appended as they are created.     *)
InListOrder(S) ==
  CHOOSE q \in [1 .. Cardinality(S) -> S] :
    \A i, j \in 1 .. Cardinality(S) : i < j => q[i] < q[j]

(* nn_ep_stop that does not ask the transport to stop.                     *)
EpStop_NotAsked(S, Sync) ==
  /\ ep' = [e \in Eids |-> IF e \in S THEN "STOPPING" ELSE ep[e]]
  /\ UNCHANGED <<tran, events>>

(* nn_ep_stop of the endpoints in S; the transports in Sync stop at once   *)
(* and call nn_ep_stopped from inside their stop function.                 *)
EpStop(S, Sync) ==
  /\ ep' = [e \in Eids |-> IF e \in S THEN "STOPPING" ELSE ep[e]]
  /\ tran' = [e \in Eids |-> IF e \in Sync THEN "stopped"
                             ELSE IF e \in S THEN "stopping" ELSE tran[e]]
  /\ events' = events \o [i \in 1 .. Cardinality(Sync) |->
                 Ev("EP_ACTION_STOPPED", InListOrder(Sync)[i])]

(* nn_sock_rm_ep; EINVAL when the endpoint is not in eps.                  *)
nn_sock_rm_ep(t, e) ==
  /\ pc[t] = "call" /\ EnterCtx
  /\ e \in eps
  /\ eps' = eps \ {e}
  /\ sdeps' = sdeps \cup {e}
  /\ \E Sync \in SUBSET {e} : EpStop({e}, Sync)
  /\ Goto(t, "done")
  /\ UNCHANGED <<state, sems, eid, proto, late, aborted>>

-----------------------------------------------------------------------------
(* finish1 of nn_sock_shutdown: destroy the protocol, unblock nn_close.    *)
Finish1 ==
  /\ state' = "FINI"
  /\ termsem' = termsem + 1

(* finish2 without waiting for the endpoints that are still stopping.      *)
Finish2_NoWait(sdeps1, queue) ==
  /\ proto' = IF proto = "run" THEN "stopping" ELSE proto
  /\ state' = IF proto = "run" THEN "STOPPING" ELSE "FINI"
  /\ termsem' = IF proto = "run" THEN termsem ELSE termsem + 1
  /\ events' = queue

(* finish2: once no endpoint is left, stop the protocol.  queue is what    *)
(* the context still has to feed.                                          *)
Finish2(sdeps1, queue) ==
  \/ /\ sdeps1 # {}
     /\ state' = "STOPPING_EPS"
     /\ events' = queue
     /\ UNCHANGED <<termsem, proto>>
  \/ /\ sdeps1 = {} /\ proto = "nostop"
     /\ Finish1
     /\ events' = queue
     /\ UNCHANGED proto
  \/ /\ sdeps1 = {} /\ proto = "run"
     /\ state' = "STOPPING"
     /\ \/ proto' = "stopping" /\ events' = queue
        \/ proto' = "stopped" /\ events' = Append(queue, Ev("SOCK_STOPPED", None))
     /\ UNCHANGED termsem

(* nn_close up to the unlock: nn_sock_stop, then the holds of the call and *)
(* of the application are dropped.                                         *)
nn_sock_stop(t) ==
  /\ pc[t] = "ready" /\ EnterCtx
  /\ state = "ACTIVE"
  /\ eps' = {}
  /\ sdeps' = sdeps \cup eps
  /\ IF sdeps' = {}
       THEN Finish2({}, <<>>) /\ UNCHANGED <<ep, tran>>
       ELSE /\ \E Sync \in SUBSET eps : EpStop(eps, Sync)
            /\ state' = "STOPPING_EPS"
            /\ UNCHANGED <<termsem, proto>>
  /\ Rele(1)
  /\ Goto(t, "termsem")
  /\ UNCHANGED <<eid, late, aborted>>

(* The worker thread finishes the shutdown of a transport endpoint.        *)
nn_ep_stopped(e) ==
  /\ EnterCtx
  /\ ep[e] = "STOPPING" /\ tran[e] = "stopping"
  /\ tran' = [tran EXCEPT ![e] = "stopped"]
  /\ events' = <<Ev("EP_ACTION_STOPPED", e)>>
  /\ UNCHANGED <<state, sems, lists, ep, proto, pc, late, aborted>>

(* ... or of the protocol (a timer of req or surveyor).                    *)
nn_sock_stopped ==
  /\ EnterCtx
  /\ proto = "stopping"
  /\ proto' = "stopped"
  /\ events' = <<Ev("SOCK_STOPPED", None)>>
  /\ UNCHANGED <<state, sems, lists, ep, tran, pc, late, aborted>>

(* A pipe of an endpoint that still runs raises NN_PIPE_IN or NN_PIPE_OUT. *)
PipeEvent(e) ==
  /\ EnterCtx
  /\ ep[e] \in {"ACTIVE", "STOPPING"} /\ tran[e] # "stopped"
  /\ events' = <<Ev("PIPE", e)>>
  /\ UNCHANGED <<state, sems, lists, machines, pc, late, aborted>>

-----------------------------------------------------------------------------
(* nn_ep_shutdown on NN_EP_ACTION_STOPPED.                                 *)
FeedEpActionStopped(e, queue) ==
  \/ /\ ep[e] = "STOPPING"
     /\ ep' = [ep EXCEPT ![e] = "IDLE"]
     /\ events' = Append(queue, Ev("EP_STOPPED", e))
     /\ UNCHANGED <<state, sems, lists, tran, proto, pc, late, aborted>>
  \/ ep[e] # "STOPPING" /\ Abort                           \* nn_fsm_bad_state

(* An endpoint has stopped but the socket does not expect it, or the last  *)
(* one in sdeps is gone and eps is not empty.                              *)
UnexpectedEpStopped(e) ==
  \/ state \in {"STOPPING", "FINI"}
  \/ state = "STOPPING_EPS" /\ sdeps = {e} /\ eps # {}

(* nn_sock_handler / nn_sock_shutdown on NN_EP_STOPPED: free the endpoint; *)
(* when it was the last one of a socket being closed, go on to the         *)
(* protocol.                                                               *)
FeedEpStopped(e, queue) ==
  \/ /\ ~ UnexpectedEpStopped(e)
     /\ sdeps' = sdeps \ {e}
     /\ ep' = [ep EXCEPT ![e] = "none"]
     /\ \/ /\ state = "ACTIVE"
           /\ events' = queue
           /\ UNCHANGED <<state, termsem, proto>>
        \/ /\ state = "STOPPING_EPS"
           /\ Finish2(sdeps', queue)
     /\ UNCHANGED <<holds, relesem, eps, eid, tran, pc, late, aborted>>
  \/ UnexpectedEpStopped(e) /\ Abort

(* NN_SOCK_ACTION_STOPPED from the protocol.                               *)
FeedSockStopped(queue) ==
  \/ /\ state = "STOPPING"
     /\ Finish1
     /\ events' = queue
     /\ UNCHANGED <<holds, relesem, lists, machines, pc, late, aborted>>
  \/ /\ state = "STOPPING_EPS"
     /\ events' = queue
     /\ UNCHANGED <<state, sems, lists, machines, pc, late, aborted>>
  \/ state \in {"ACTIVE", "FINI"} /\ Abort

(* A pipe event goes to the protocol, is ignored while the endpoints stop, *)
(* and is a fatal error afterwards.                                        *)
FeedPipe(queue) ==
  \/ /\ state \in {"ACTIVE", "STOPPING_EPS"}
     /\ events' = queue
     /\ UNCHANGED <<state, sems, lists, machines, pc, late, aborted>>
  \/ state \in {"STOPPING", "FINI"} /\ Abort

nn_ctx_leave ==
  /\ events # <<>> /\ ~ aborted
  /\ LET ev == Head(events)
         queue == Tail(events)
     IN  \/ ev.type = "EP_ACTION_STOPPED" /\ FeedEpActionStopped(ev.ep, queue)
         \/ ev.type = "EP_STOPPED" /\ FeedEpStopped(ev.ep, queue)
         \/ ev.type = "SOCK_STOPPED" /\ FeedSockStopped(queue)
         \/ ev.type = "PIPE" /\ FeedPipe(queue)

-----------------------------------------------------------------------------
(* nn_sock_term waits for both semaphores...                               *)
WaitTermsem(t) ==
  /\ pc[t] = "termsem" /\ termsem > 0 /\ ~ aborted
  /\ termsem' = termsem - 1
  /\ Goto(t, "relesem")
  /\ UNCHANGED <<state, holds, relesem, lists, machines, events, late, aborted>>

WaitRelesem(t) ==
  /\ pc[t] = "relesem" /\ relesem > 0 /\ ~ aborted
  /\ relesem' = relesem - 1
  /\ Goto(t, "remove")
  /\ UNCHANGED <<state, holds, termsem, lists, machines, events, late, aborted>>

(* ... and takes the socket apart; nn_list_term asserts that a list is     *)
(* empty.  nn_close then frees the descriptor.                             *)
nn_sock_term(t) ==
  /\ pc[t] = "remove" /\ EnterCtx
  /\ \/ /\ sdeps = {} /\ eps = {}
        /\ state' = "NULL"
        /\ Goto(t, "ready")
        /\ UNCHANGED <<sems, lists, machines, events, late, aborted>>
     \/ ~ (sdeps = {} /\ eps = {}) /\ Abort

(* The process is gone.                                                    *)
Dead == aborted /\ UNCHANGED vars

Next ==
  \/ \E t \in Threads :
       \/ nn_sock_init(t)
       \/ nn_sock_hold(t)
       \/ nn_sock_rele(t)
       \/ nn_sock_add_ep(t)
       \/ \E e \in Eids : nn_sock_rm_ep(t, e)
       \/ nn_sock_stop(t)
       \/ WaitTermsem(t)
       \/ WaitRelesem(t)
       \/ nn_sock_term(t)
  \/ \E e \in Eids : nn_ep_stopped(e) \/ PipeEvent(e)
  \/ nn_sock_stopped
  \/ nn_ctx_leave
  \/ Dead

Spec == Init /\ [][Next]_vars

(* The worker gets every transport and protocol stopped, a thread leaves   *)
(* the context it is in, nn_close and the calls on a closing socket go on. *)
Fairness ==
  /\ WF_vars(nn_ctx_leave)
  /\ SF_vars(nn_sock_stopped)
  /\ \A e \in Eids : SF_vars(nn_ep_stopped(e))
  /\ \A t \in Threads :
       /\ WF_vars(state # "ACTIVE" /\ nn_sock_rele(t))
       /\ WF_vars(WaitTermsem(t)) /\ WF_vars(WaitRelesem(t))
       /\ SF_vars(nn_sock_term(t))

FairSpec == Spec /\ Fairness

-----------------------------------------------------------------------------
(* The assertions of nn_sock_shutdown, nn_ep_shutdown and nn_list_term and *)
(* their nn_fsm_bad_xxx calls fail for one reason only: an endpoint was    *)
(* added to a socket that nn_close was already stopping.  In every other   *)
(* order of calls, stops and events none of them does.                     *)
OnlyLateEndpointsAbort == aborted => late # {}

(* An event in the queue of the context always concerns an endpoint that   *)
(* is still allocated, and an endpoint that is being stopped, and no       *)
(* other, is in sdeps: nothing is freed twice or left behind.              *)
EndpointsOwned ==
  /\ \A i \in 1 .. Len(events) : events[i].ep # None => ep[events[i].ep] # "none"
  /\ eps = {e \in Eids : ep[e] = "ACTIVE"}
  /\ sdeps = {e \in Eids : ep[e] \in {"STOPPING", "IDLE"}}

(* When nn_close is woken (termsem posted) the protocol has stopped and    *)
(* every endpoint created before nn_close has been freed; when it returns  *)
(* there is no endpoint at all.                                            *)
FiniMeansStopped ==
  /\ state = "FINI" => /\ \A e \in Eids \ late : ep[e] = "none"
                       /\ proto \in {"nostop", "stopped"}
  /\ state = "NULL" => \A e \in Eids : ep[e] = "none"

(* The socket and its endpoints agree, each endpoint in the list its state *)
(* says; only a late endpoint fails an assertion on the way; and nn_close  *)
(* is not woken before the others and the protocol are done.               *)
Sound == TypeOK /\ OnlyLateEndpointsAbort /\ EndpointsOwned /\ FiniMeansStopped

(* nn_close terminates, or a late endpoint aborts the process.             *)
CloseTerminates ==
  \A t \in Threads : pc[t] = "termsem" ~> state = "NULL" \/ (aborted /\ late # {})

(* An endpoint removed by nn_shutdown or by nn_close is eventually freed,  *)
(* or a late endpoint aborts the process.                                  *)
EndpointFreed ==
  \A e \in Eids : ep[e] = "STOPPING" ~> ep[e] = "none" \/ (aborted /\ late # {})

-----------------------------------------------------------------------------
(* The socket as module Global sees it.                                    *)
GlobalSock == CASE state \in {"STOPPING_EPS", "STOPPING"} -> "STOPPING"
                [] OTHER -> state
G == INSTANCE Global WITH
       MaxSockets <- 1,
       up <- state # "NULL",
       socks <- [s \in {0} |-> GlobalSock],
       holds <- [s \in {0} |-> holds],
       termsem <- [s \in {0} |-> termsem],
       relesem <- [s \in {0} |-> relesem],
       unused <- [s \in {0} |-> 0],
       nsocks <- IF state = "NULL" THEN 0 ELSE 1,
       flags <- {},
       pc <- [t \in Threads |-> IF pc[t] = "done" THEN "call" ELSE pc[t]],
       fd <- [t \in Threads |-> 0],
       idx <- [t \in Threads |-> 2]

(* The socket with its endpoints and its protocol does what module Global  *)
(* assumes of a socket: every step is a step of Global or is invisible to  *)
(* it.                                                                     *)
ImplementsGlobal == G!Spec
=============================================================================
