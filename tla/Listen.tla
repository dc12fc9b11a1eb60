------------------------------- MODULE Listen -------------------------------
(***************************************************************************)
(* The binding endpoint of the TCP, IPC and WebSocket transports: the      *)
(* listener (tcp/btcp.c, ipc/bipc.c, ws/bws.c), which owns the listening   *)
(* socket, and an acceptor for each connection (tcp/atcp.c, ipc/aipc.c,    *)
(* ws/aws.c).  One acceptor is always waiting for the next connection; it  *)
(* borrows the listening socket from the listener until it has one, so     *)
(* that the listening socket changes owners while connections come, are    *)
(* lost and the endpoint is being stopped.                                 *)
(*                                                                         *)
(* As in module Stream the events of a context are delivered one at a      *)
(* time, before another thread enters it.  The session of an accepted      *)
(* connection is what module Session says of it.                           *)
(***************************************************************************)
EXTENDS Integers, Sequences, SequencesExt, FiniteSetsExt

CONSTANTS Kinds,   \* the transports to look at
          Slots    \* memory for acceptors: as many connections, and one more

ASSUME ListenAssumption ==
  Kinds \subseteq {"tcp", "ipc", "ws"} /\ Slots # {}
    /\ Slots \cap {"B", "EP", "SOCK", "NONE", "USOCK", "LISTENER", "SES"} = {}

NONE == "NONE"

VARIABLES
  kind,    \* the transport of the endpoint
  w        \* what the context of the socket protects
vars == <<kind, w>>

(* Outcomes of accept (): a connection, none yet (or one that was given    *)
(* up), no resources.  The others are those of the calls that bind.        *)
Accept == {"ok", "again", "nores"}

Acceptor ==
  [a : {"FREED", "IDLE", "ACCEPTING", "ACTIVE", "STOPPING_SESSION", "STOPPING_USOCK",
        "DONE", "STOPPING_FINAL", "STOPPING"},          \* nn_atcp.state
   u : {"IDLE", "BEING_ACCEPTED", "ACCEPTED", "ACTIVE", "REMOVING_FD", "DONE",
        "STOPPING_ACCEPT", "STOPPING"},                 \* nn_atcp.usock.state
   stop : BOOLEAN,                                      \* its task_stop is with the worker
   ses : {"IDLE", "RUNNING", "DONE", "STOPPING"},       \* nn_atcp.stcp
   listener : BOOLEAN]                                  \* nn_atcp.listener is set

World ==
  [ep : {"NEW", "ACTIVE", "STOPPING", "IDLE", "FREED"}, \* nn_ep.state
   b : {"NONE", "ACTIVE", "STOPPING_ACCEPTOR", "STOPPING_USOCK", "STOPPING_ACCEPTORS",
        "IDLE", "FREED"},                               \* nn_btcp.state
   l : {"IDLE", "STARTING", "LISTENING", "ACCEPTING", "ACCEPTING_ERROR",
        "CANCELLING"},                                  \* nn_btcp.usock.state
   owner : {"B"} \cup Slots,                            \* nn_btcp.usock.fsm.owner
   asock : {NONE} \cup Slots,                           \* nn_btcp.usock.asock
   errnum : BOOLEAN,                                    \* of an accept () that failed
   polled : BOOLEAN,                                    \* its descriptor is in the pollset
   current : {NONE} \cup Slots,                         \* nn_btcp.atcp
   list : SUBSET Slots,                                 \* nn_btcp.atcps
   acc : [Slots -> Acceptor],
   aborted : BOOLEAN]                \* an assertion failed or a freed object was used

Fresh == [a |-> "FREED", u |-> "IDLE", stop |-> FALSE, ses |-> "IDLE", listener |-> FALSE]

(* Every field has a value its type in the code allows.                    *)
TypeOK ==
  /\ kind \in Kinds
  /\ [f \in DOMAIN w \ {"tasks", "events"} |-> w[f]] \in World
  /\ w.tasks \in Seq({"accept", "stop"})    \* of the listening socket, in nn_worker.tasks
  /\ w.events \in Seq(({"B", "EP", "SOCK"} \cup Slots) \X STRING \X STRING)

Init ==
  /\ kind \in Kinds
  /\ w = [ep |-> "NEW", b |-> "NONE", l |-> "IDLE", owner |-> "B", asock |-> NONE,
          errnum |-> FALSE, polled |-> FALSE, current |-> NONE, list |-> {},
          acc |-> [i \in Slots |-> Fresh], aborted |-> FALSE, tasks |-> <<>>, events |-> <<>>]

Abort(x) == [x EXCEPT !.aborted = TRUE]
Raise(x, to, src, type) ==
  [x EXCEPT !.events = Append(@, <<to, src, type>>),
            !.aborted = @ \/ <<to, src, type>> \in ToSet(x.events)]
Raised(x, to, src, type) == <<to, src, type>> \in ToSet(x.events)

(* nn_worker_execute, for a task of the listening socket.                  *)
Execute(x, task) ==
  [x EXCEPT !.tasks = Append(@, task), !.aborted = @ \/ task \in ToSet(x.tasks)]

-----------------------------------------------------------------------------
(* The listening socket and the sockets it accepts (aio/usock_posix.inc).  *)
ListenerSrc(x) == IF x.owner = "B" THEN "USOCK" ELSE "LISTENER"

(* A failure for want of resources is reported once; while it lasts the    *)
(* worker waits for the descriptor as if there were no connection.         *)
nn_usock_accept(x, i, rc) ==
  LET y == [x EXCEPT !.l = "ACCEPTING", !.acc[i].u = "BEING_ACCEPTED",
                     !.aborted = \/ @ \/ x.l \notin {"LISTENING", "ACCEPTING_ERROR"}
                                 \/ x.acc[i].u \notin {"IDLE", "BEING_ACCEPTED"}
                                 \/ rc # "ok" /\ x.asock \notin {NONE, i}]
  IN CASE rc = "ok" ->
            Raise([y EXCEPT !.l = "LISTENING", !.asock = NONE, !.acc[i].u = "ACCEPTED"],
                  i, "USOCK", "ACCEPTED")
       [] rc = "nores" /\ ~ x.errnum ->
            Raise([y EXCEPT !.l = "ACCEPTING_ERROR", !.asock = i, !.errnum = TRUE],
                  x.owner, ListenerSrc(x), "ACCEPT_ERROR")
       [] OTHER -> Execute([y EXCEPT !.asock = i], "accept")

(* FD_IN in ACCEPTING state of nn_usock_handler.                           *)
AcceptFd(x, rc) ==
  LET i == x.asock
      y == [x EXCEPT !.polled = FALSE]
  IN CASE rc = "again" -> x
       [] rc = "nores" ->
            Raise([y EXCEPT !.l = "ACCEPTING_ERROR", !.errnum = TRUE],
                  x.owner, ListenerSrc(x), "ACCEPT_ERROR")
       [] rc = "ok" ->
            Raise([y EXCEPT !.l = "LISTENING", !.asock = NONE, !.acc[i].u = "ACCEPTED"],
                  i, "USOCK", "ACCEPTED")

(* NN_FSM_STOP of a listening socket: it must not be accepting.            *)
StopListening(x) ==
  CASE x.l = "IDLE" -> x
    [] x.l \in {"ACCEPTING", "CANCELLING"} -> Abort(x)
    [] OTHER -> Raise([x EXCEPT !.l = "IDLE", !.errnum = FALSE], x.owner, ListenerSrc(x), "STOPPED")

(* The worker of the listening socket is not told.                         *)
nn_usock_stop_NoTask(x, i) ==
  LET u == x.acc[i].u
  IN CASE u \in {"ACCEPTED", "DONE"} ->
            Raise([x EXCEPT !.acc[i].u = "IDLE"], i, "USOCK", "STOPPED")
       [] u = "BEING_ACCEPTED" ->
            [x EXCEPT !.acc[i].u = "STOPPING_ACCEPT", !.l = "CANCELLING"]
       [] u = "ACTIVE" ->
            Raise([x EXCEPT !.acc[i].u = "STOPPING", !.acc[i].stop = TRUE], i, "USOCK", "SHUTDOWN")
       [] u = "REMOVING_FD" -> [x EXCEPT !.acc[i].u = "STOPPING"]
       [] OTHER -> x

(* NN_FSM_STOP of an accepted socket.  One that is being accepted has the  *)
(* listening socket cancelled first.                                       *)
nn_usock_stop(x, i) ==
  LET u == x.acc[i].u
  IN CASE u \in {"ACCEPTED", "DONE"} ->
            Raise([x EXCEPT !.acc[i].u = "IDLE"], i, "USOCK", "STOPPED")
       [] u = "BEING_ACCEPTED" ->
            [Execute(x, "stop") EXCEPT !.acc[i].u = "STOPPING_ACCEPT", !.l = "CANCELLING",
                                       !.aborted = @ \/ x.l # "ACCEPTING" \/ x.asock # i]
       [] u = "ACTIVE" ->
            Raise([x EXCEPT !.acc[i].u = "STOPPING", !.acc[i].stop = TRUE], i, "USOCK", "SHUTDOWN")
       [] u = "REMOVING_FD" -> [x EXCEPT !.acc[i].u = "STOPPING"]
       [] OTHER -> x

(* A task of the listening socket: nn_internal_tasks, or the end of        *)
(* CANCELLING state, which ends STOPPING_ACCEPT state of the other socket. *)
ListenerTask(x, task) ==
  CASE task = "accept" -> [x EXCEPT !.polled = TRUE]
    [] task = "stop" ->
         Raise([x EXCEPT !.polled = FALSE, !.l = "LISTENING", !.acc[x.asock].u = "IDLE",
                         !.aborted = \/ @ \/ x.l # "CANCELLING"
                                     \/ x.acc[x.asock].u # "STOPPING_ACCEPT"],
               x.asock, "USOCK", "STOPPED")

-----------------------------------------------------------------------------
(* An acceptor.  rc says whether a session that is stopped has to wait for *)
(* its timer ("again").                                                    *)
StopSession(x, i, rc) ==
  CASE x.acc[i].ses \in {"RUNNING", "DONE"} /\ rc = "again" -> [x EXCEPT !.acc[i].ses = "STOPPING"]
    [] x.acc[i].ses \in {"RUNNING", "DONE"} /\ rc # "again" ->
         Raise([x EXCEPT !.acc[i].ses = "IDLE"], i, "SES", "STOPPED")
    [] OTHER -> x

IdleSession(x, i) == x.acc[i].ses = "IDLE" /\ ~ Raised(x, i, "SES", "STOPPED")
IdleUsock(x, i) == x.acc[i].u = "IDLE" /\ ~ Raised(x, i, "USOCK", "STOPPED")
IdleListener(x) == x.l = "IDLE" /\ ~ Raised(x, "B", "USOCK", "STOPPED")
IdleAcceptor(x, i) == x.acc[i].a = "IDLE" /\ ~ Raised(x, "B", i, "STOPPED")

(* The listening socket stays with an acceptor that is stopped.            *)
nn_atcp_shutdown_KeepListener(x, i) ==
  LET y == IF x.acc[i].a = "STOPPING_FINAL" /\ IdleSession(x, i)
           THEN [nn_usock_stop(x, i) EXCEPT !.acc[i].a = "STOPPING"] ELSE x
  IN IF y.acc[i].a = "STOPPING" /\ IdleUsock(y, i)
     THEN Raise([y EXCEPT !.acc[i].a = "IDLE", !.acc[i].listener = FALSE], "B", i, "STOPPED")
     ELSE y

(* nn_atcp_shutdown after NN_FSM_STOP: the session, the socket, and the    *)
(* listening socket goes back to its owner.                                *)
nn_atcp_shutdown(x, i) ==
  LET y == IF x.acc[i].a = "STOPPING_FINAL" /\ IdleSession(x, i)
           THEN [nn_usock_stop(x, i) EXCEPT !.acc[i].a = "STOPPING"] ELSE x
  IN IF y.acc[i].a = "STOPPING" /\ IdleUsock(y, i)
     THEN Raise([y EXCEPT !.acc[i].a = "IDLE", !.acc[i].listener = FALSE,
                          !.owner = IF y.acc[i].listener THEN "B" ELSE @], "B", i, "STOPPED")
     ELSE y

nn_atcp_stop(x, i, rc) ==
  IF x.acc[i].a \in {"IDLE", "STOPPING_FINAL", "STOPPING"} THEN x
  ELSE nn_atcp_shutdown([StopSession(x, i, rc) EXCEPT !.acc[i].a = "STOPPING_FINAL"], i)

nn_atcp_term(x, i) ==
  [x EXCEPT !.acc[i] = Fresh,
            !.aborted = \/ @ \/ x.acc[i].a # "IDLE" \/ x.acc[i].listener
                        \/ ~ IdleUsock(x, i) \/ ~ IdleSession(x, i) \/ ~ IdleAcceptor(x, i)]

(* nn_atcp_init, nn_atcp_start and IDLE state: the listening socket is     *)
(* borrowed.                                                               *)
nn_atcp_start(x, i, rc) ==
  [nn_usock_accept([x EXCEPT !.acc[i].listener = TRUE, !.owner = i], i, rc)
     EXCEPT !.acc[i].a = "ACCEPTING"]

(* ACCEPTING state.  With a connection the listening socket goes back, the *)
(* listener is told, and the session starts.                               *)
Accepting(x, i, src, type, rc) ==
  CASE src = "USOCK" /\ type = "ACCEPTED" ->
         Raise([x EXCEPT !.owner = "B",
                         !.acc[i] = [@ EXCEPT !.listener = FALSE, !.u = "ACTIVE",
                                              !.ses = "RUNNING", !.a = "ACTIVE"],
                         !.aborted = @ \/ x.acc[i].u # "ACCEPTED"], "B", i, "ACCEPTED")
    [] src = "LISTENER" /\ type = "ACCEPT_ERROR" -> nn_usock_accept(x, i, rc)
    [] OTHER -> Abort(x)

(* The listener is not told that the connection is gone.                   *)
Accepted_Unreported(x, i, src, type, rc) ==
  CASE x.acc[i].a = "ACTIVE" /\ src = "SES" /\ type = "ERROR" ->
         [StopSession(x, i, rc) EXCEPT !.acc[i].a = "STOPPING_SESSION"]
    [] x.acc[i].a = "STOPPING_SESSION" /\ src = "SES" /\ type = "STOPPED" ->
         [nn_usock_stop(x, i) EXCEPT !.acc[i].a = "STOPPING_USOCK"]
    [] OTHER -> [x EXCEPT !.acc[i].a = IF type = "STOPPED" THEN "DONE" ELSE @]

(* The rest of nn_atcp_handler.                                            *)
Accepted(x, i, src, type, rc) ==
  CASE x.acc[i].a = "ACTIVE" /\ src = "SES" /\ type = "ERROR" ->
         [StopSession(x, i, rc) EXCEPT !.acc[i].a = "STOPPING_SESSION"]
    [] x.acc[i].a = "STOPPING_SESSION" /\ src = "SES" /\ type = "STOPPED" ->
         [nn_usock_stop(x, i) EXCEPT !.acc[i].a = "STOPPING_USOCK"]
    [] x.acc[i].a = "STOPPING_USOCK" /\ src = "USOCK" /\ type = "SHUTDOWN" -> x
    [] x.acc[i].a = "STOPPING_USOCK" /\ src = "USOCK" /\ type = "STOPPED" ->
         Raise([x EXCEPT !.acc[i].a = "DONE"], "B", i, "ERROR")
    [] OTHER -> Abort(x)

nn_atcp_handler(x, i, src, type, rc) ==
  IF x.acc[i].a = "ACCEPTING" THEN Accepting(x, i, src, type, rc)
  ELSE Accepted(x, i, src, type, rc)

(* The acceptors of the IPC transport set fewer socket options; they are   *)
(* otherwise the same.                                                     *)
nn_aipc_shutdown(x, i) == nn_atcp_shutdown(x, i)
nn_aipc_term(x, i) == nn_atcp_term(x, i)
nn_aipc_start(x, i, rc) == nn_atcp_start(x, i, rc)
nn_aipc_handler(x, i, src, type, rc) == nn_atcp_handler(x, i, src, type, rc)

(* Those of WebSocket take the end of a closing handshake for an error.    *)
nn_aws_shutdown(x, i) == nn_atcp_shutdown(x, i)
nn_aws_term(x, i) == nn_atcp_term(x, i)
nn_aws_start(x, i, rc) == nn_atcp_start(x, i, rc)
AwsAccepting(x, i, src, type, rc) == Accepting(x, i, src, type, rc)
nn_aws_handler(x, i, src, type, rc) ==
  IF x.acc[i].a = "ACCEPTING" THEN AwsAccepting(x, i, src, type, rc)
  ELSE Accepted(x, i, src, IF src = "SES" /\ type = "CLOSE" THEN "ERROR" ELSE type, rc)

AcceptorHandler(x, i, src, type, rc) ==
  CASE kind = "tcp" -> nn_atcp_handler(x, i, src, type, rc)
    [] kind = "ipc" -> nn_aipc_handler(x, i, src, type, rc)
    [] kind = "ws" -> nn_aws_handler(x, i, src, type, rc)

AcceptorShutdown(x, i) ==
  CASE kind = "tcp" -> nn_atcp_shutdown(x, i)
    [] kind = "ipc" -> nn_aipc_shutdown(x, i)
    [] kind = "ws" -> nn_aws_shutdown(x, i)

-----------------------------------------------------------------------------
(* The listener.                                                           *)
Free(x) == {i \in Slots : x.acc[i].a = "FREED"}

nn_btcp_start_accepting(x, rc) ==
  LET i == CHOOSE j \in Free(x) : TRUE
  IN nn_atcp_start([x EXCEPT !.current = i, !.aborted = @ \/ x.current # NONE], i, rc)

nn_bipc_start_accepting(x, rc) ==
  LET i == CHOOSE j \in Free(x) : TRUE
  IN nn_aipc_start([x EXCEPT !.current = i, !.aborted = @ \/ x.current # NONE], i, rc)

nn_bws_start_accepting(x, rc) ==
  LET i == CHOOSE j \in Free(x) : TRUE
  IN nn_aws_start([x EXCEPT !.current = i, !.aborted = @ \/ x.current # NONE], i, rc)

(* Nobody is left to accept the next connection.                           *)
nn_btcp_handler_NoNext(x, src, type, rc) ==
  CASE src = "B" /\ type = "LISTEN_ERR" -> [x EXCEPT !.b = "FREED"]
    [] src = "USOCK" /\ type \in {"SHUTDOWN", "STOPPED"} -> x
    [] src \in Slots /\ type = "ACCEPTED" ->
         [x EXCEPT !.list = @ \cup {src}, !.current = NONE]
    [] src \in Slots /\ type = "ERROR" -> nn_atcp_stop(x, src, rc)
    [] src \in Slots /\ type = "STOPPED" -> nn_atcp_term([x EXCEPT !.list = @ \ {src}], src)
    [] OTHER -> Abort(x)

(* ACTIVE state.  A TCP listener that could not listen frees itself.       *)
nn_btcp_handler(x, src, type, rc) ==
  CASE src = "B" /\ type = "LISTEN_ERR" -> [x EXCEPT !.b = "FREED"]
    [] src = "USOCK" /\ type \in {"SHUTDOWN", "STOPPED"} -> x
    [] src \in Slots /\ type = "ACCEPTED" ->
         nn_btcp_start_accepting([x EXCEPT !.list = @ \cup {src}, !.current = NONE,
                                           !.aborted = @ \/ x.current # src], rc)
    [] src \in Slots /\ type = "ERROR" -> nn_atcp_stop(x, src, rc)
    [] src \in Slots /\ type = "STOPPED" ->
         nn_atcp_term([x EXCEPT !.list = @ \ {src}, !.aborted = @ \/ src \notin x.list], src)
    [] OTHER -> Abort(x)

nn_bipc_handler(x, src, type, rc) ==
  CASE src = "USOCK" /\ type \in {"SHUTDOWN", "STOPPED"} -> x
    [] src \in Slots /\ type = "ACCEPTED" ->
         nn_bipc_start_accepting([x EXCEPT !.list = @ \cup {src}, !.current = NONE], rc)
    [] src \in Slots /\ type = "ERROR" -> nn_atcp_stop(x, src, rc)
    [] src \in Slots /\ type = "STOPPED" ->
         nn_aipc_term([x EXCEPT !.list = @ \ {src}, !.aborted = @ \/ src \notin x.list], src)
    [] OTHER -> Abort(x)

nn_bws_handler(x, src, type, rc) ==
  CASE src = "USOCK" /\ type \in {"SHUTDOWN", "STOPPED"} -> x
    [] src \in Slots /\ type = "ACCEPTED" ->
         nn_bws_start_accepting([x EXCEPT !.list = @ \cup {x.current}, !.current = NONE,
                                          !.aborted = @ \/ x.current = NONE], rc)
    [] src \in Slots /\ type = "ERROR" -> nn_atcp_stop(x, src, rc)
    [] src \in Slots /\ type = "STOPPED" ->
         nn_aws_term([x EXCEPT !.list = @ \ {src}, !.aborted = @ \/ src \notin x.list], src)
    [] OTHER -> Abort(x)

(* The acceptor that waits has stopped; the listening socket is closed.    *)
StopCurrent(x) ==
  IF x.b = "STOPPING_ACCEPTOR" /\ IdleAcceptor(x, x.current)
  THEN [StopListening(nn_atcp_term([x EXCEPT !.current = NONE], x.current))
          EXCEPT !.b = "STOPPING_USOCK"]
  ELSE x

(* All the acceptors are stopped, one after the other; the sessions of     *)
(* those in late have to wait.                                             *)
StopAll(x, late) ==
  FoldSet(LAMBDA i, y : nn_atcp_stop(y, i, IF i \in late THEN "again" ELSE "ok"), x, x.list)

NoMore(x) ==
  IF x.list = {} THEN Raise([x EXCEPT !.b = "IDLE"], "EP", "EP", "STOPPED")
  ELSE [x EXCEPT !.b = "STOPPING_ACCEPTORS"]

(* nn_btcp_shutdown after NN_FSM_STOP.                                     *)
nn_btcp_shutdown(x, src, type, late) ==
  LET y == StopCurrent(x)
  IN CASE x.b = "STOPPING_ACCEPTORS" ->
            NoMore(nn_atcp_term([x EXCEPT !.list = @ \ {src},
                                          !.aborted = @ \/ src \notin x.list \/ type # "STOPPED"],
                                src))
       [] x.b # "STOPPING_ACCEPTORS" /\ y.b = "STOPPING_USOCK" /\ IdleListener(y) ->
            NoMore(StopAll(y, late))
       [] OTHER -> y

(* The same; an IPC listener also removes the file of its address.         *)
nn_bipc_shutdown(x, src, type, late) == nn_btcp_shutdown(x, src, type, late)
nn_bws_shutdown(x, src, type, late) == nn_btcp_shutdown(x, src, type, late)

(* The NN_FSM_STOP branch.                                                 *)
StopListener(x, late) ==
  LET y == IF x.current = NONE THEN [x EXCEPT !.b = "STOPPING_USOCK"]
           ELSE [nn_atcp_stop(x, x.current, "ok") EXCEPT !.b = "STOPPING_ACCEPTOR"]
  IN nn_btcp_shutdown(y, "B", "STOP", late)

nn_btcp_destroy(x) ==
  [x EXCEPT !.b = "FREED",
            !.aborted = \/ @ \/ x.b # "IDLE" \/ x.list # {} \/ x.current # NONE
                        \/ ~ IdleListener(x) \/ x.owner # "B" \/ x.tasks # <<>>]
nn_bipc_destroy(x) == nn_btcp_destroy(x)
nn_bws_destroy(x) == nn_btcp_destroy(x)

(* nn_usock_start, nn_usock_bind and nn_usock_listen: a socket that cannot *)
(* be bound or cannot listen is stopped.                                   *)
Bind(x, rc) ==
  CASE rc = "nosocket" -> x
    [] rc = "nobind" -> StopListening([x EXCEPT !.l = "STARTING"])
    [] OTHER -> [x EXCEPT !.l = "LISTENING"]

(* A listener on port 0 is created, and does not listen.                   *)
nn_btcp_listen(x, rc, accept) ==
  CASE rc = "port0" -> x
    [] rc = "ok" -> nn_btcp_start_accepting(Bind(x, rc), accept)
    [] OTHER -> Bind(x, rc)

nn_bipc_listen(x, rc, accept) ==
  IF rc = "ok" THEN nn_bipc_start_accepting(Bind(x, rc), accept) ELSE Bind(x, rc)

nn_bws_listen(x, rc, accept) ==
  IF rc = "ok" THEN nn_bws_start_accepting(Bind(x, rc), accept) ELSE Bind(x, rc)

-----------------------------------------------------------------------------
(* nn_ctx_leave: the next event goes to the state machine it is for.       *)
Leaving == ~ w.aborted /\ w.events # <<>>
Event == Head(w.events)
Rest == [w EXCEPT !.events = Tail(@)]
Enter == ~ w.aborted /\ w.events = <<>>

(* A connection is accepted only while there is memory for one acceptor    *)
(* more: the bound Slots.                                                  *)
Fits(x) == (\E i \in Slots : x.acc[i].u = "ACCEPTED") => Free(x) # {}

ListenerEvent ==
  /\ Leaving /\ Event[1] = "B" /\ w.b = "ACTIVE"
  /\ \E rc \in Accept :
       w' = CASE kind = "tcp" -> nn_btcp_handler(Rest, Event[2], Event[3], rc)
              [] kind = "ipc" -> nn_bipc_handler(Rest, Event[2], Event[3], rc)
              [] kind = "ws" -> nn_bws_handler(Rest, Event[2], Event[3], rc)
  /\ Fits(w') /\ UNCHANGED kind

ListenerShutdown ==
  /\ Leaving /\ Event[1] = "B" /\ w.b # "ACTIVE"
  /\ \E late \in SUBSET Slots :
       w' = CASE w.b \in {"NONE", "IDLE", "FREED"} -> Abort(Rest)
              [] w.b \notin {"NONE", "IDLE", "FREED"} /\ kind = "tcp" ->
                   nn_btcp_shutdown(Rest, Event[2], Event[3], late)
              [] w.b \notin {"NONE", "IDLE", "FREED"} /\ kind = "ipc" ->
                   nn_bipc_shutdown(Rest, Event[2], Event[3], late)
              [] OTHER -> nn_bws_shutdown(Rest, Event[2], Event[3], late)
  /\ UNCHANGED kind

AcceptorEvent ==
  /\ Leaving /\ Event[1] \in Slots
  /\ \E rc \in Accept :
       w' = IF w.acc[Event[1]].a \in {"STOPPING_FINAL", "STOPPING"}
            THEN AcceptorShutdown(Rest, Event[1])
            ELSE AcceptorHandler(Rest, Event[1], Event[2], Event[3], rc)
  /\ Fits(w') /\ UNCHANGED kind

(* nn_ep_shutdown, then NN_EP_STOPPED in nn_sock_handler.                  *)
EpEvent ==
  /\ Leaving /\ Event[1] \in {"EP", "SOCK"}
  /\ w' = IF Event[1] = "EP"
          THEN Raise([Rest EXCEPT !.ep = "IDLE", !.aborted = w.ep # "STOPPING"],
                     "SOCK", "EP", "STOPPED")
          ELSE [CASE kind = "tcp" -> nn_btcp_destroy(Rest)
                  [] kind = "ipc" -> nn_bipc_destroy(Rest)
                  [] kind = "ws" -> nn_bws_destroy(Rest) EXCEPT !.ep = "FREED"]
  /\ UNCHANGED kind

-----------------------------------------------------------------------------
(* nn_bind.  When it fails the endpoint is freed at once; the listener     *)
(* frees itself later (TCP), or never.                                     *)
Failed(x) == [x EXCEPT !.ep = "FREED"]

nn_btcp_create ==
  /\ Enter /\ w.ep = "NEW" /\ kind = "tcp"
  /\ LET x == [w EXCEPT !.ep = "ACTIVE", !.b = "ACTIVE"]
     IN \/ w' = Failed(w)    \* a bad port or interface
        \/ \E rc \in {"ok", "port0"}, accept \in Accept : w' = nn_btcp_listen(x, rc, accept)
        \/ \E rc \in {"nosocket", "nobind"} :
             w' = Raise(Failed(nn_btcp_listen(x, rc, "ok")), "B", "B", "LISTEN_ERR")
  /\ Fits(w') /\ UNCHANGED kind

nn_bipc_create ==
  /\ Enter /\ w.ep = "NEW" /\ kind = "ipc"
  /\ LET x == [w EXCEPT !.ep = "ACTIVE", !.b = "ACTIVE"]
     IN \/ \E accept \in Accept : w' = nn_bipc_listen(x, "ok", accept)
        \/ \E rc \in {"nosocket", "nobind"} : w' = Failed(nn_bipc_listen(x, rc, "ok"))
  /\ Fits(w') /\ UNCHANGED kind

nn_bws_create ==
  /\ Enter /\ w.ep = "NEW" /\ kind = "ws"
  /\ LET x == [w EXCEPT !.ep = "ACTIVE", !.b = "ACTIVE"]
     IN \/ w' = Failed(w)
        \/ \E accept \in Accept : w' = nn_bws_listen(x, "ok", accept)
        \/ \E rc \in {"nosocket", "nobind"} : w' = Failed(nn_bws_listen(x, rc, "ok"))
  /\ Fits(w') /\ UNCHANGED kind

(* nn_shutdown or nn_close: nn_ep_stop and nn_btcp_stop.                   *)
nn_ep_stop ==
  /\ Enter /\ w.ep = "ACTIVE"
  /\ \E late \in SUBSET Slots : w' = StopListener([w EXCEPT !.ep = "STOPPING"], late)
  /\ UNCHANGED kind

-----------------------------------------------------------------------------
(* The worker of the listening socket.                                     *)
RunTask ==
  /\ Enter /\ w.tasks # <<>>
  /\ w' = ListenerTask([w EXCEPT !.tasks = Tail(@)], Head(w.tasks))
  /\ UNCHANGED kind

(* A connection is there; a socket that is being cancelled ignores it.     *)
FdEvent ==
  /\ Enter /\ w.polled /\ w.tasks = <<>>
  /\ \E rc \in Accept :
       w' = CASE w.l = "ACCEPTING" -> AcceptFd(w, rc) [] w.l = "CANCELLING" -> w
              [] OTHER -> Abort(w)
  /\ Fits(w') /\ UNCHANGED kind

(* The workers of the accepted sockets: the task_stop of nn_usock_stop, or *)
(* of a connection that was lost.                                          *)
RunStop ==
  /\ Enter
  /\ \E i \in Slots :
       /\ w.acc[i].stop
       /\ LET x == [w EXCEPT !.acc[i].stop = FALSE]
          IN w' = CASE w.acc[i].u = "STOPPING" ->
                         Raise([x EXCEPT !.acc[i].u = "IDLE"], i, "USOCK", "STOPPED")
                    [] w.acc[i].u = "REMOVING_FD" -> [x EXCEPT !.acc[i].u = "DONE"]
                    [] OTHER -> Abort(x)
  /\ UNCHANGED kind

(* A session reports its end: the socket may be as it was, on its way out, *)
(* or gone.                                                                *)
SessionReports ==
  /\ Enter
  /\ \E i \in Slots, u \in {"ACTIVE", "REMOVING_FD", "DONE"},
        type \in IF kind = "ws" THEN {"ERROR", "CLOSE"} ELSE {"ERROR"} :
       /\ w.acc[i].ses = "RUNNING"
       /\ w' = Raise([w EXCEPT !.acc[i].ses = "DONE", !.acc[i].u = u,
                               !.acc[i].stop = (u = "REMOVING_FD")], i, "SES", type)
  /\ UNCHANGED kind

SessionStopped ==
  /\ Enter
  /\ \E i \in Slots : /\ w.acc[i].ses = "STOPPING"
                       /\ w' = Raise([w EXCEPT !.acc[i].ses = "IDLE"], i, "SES", "STOPPED")
  /\ UNCHANGED kind

(* The endpoint is gone.                                                   *)
Gone == w.ep = "FREED" /\ w.events = <<>> /\ UNCHANGED vars

Process == ListenerEvent \/ ListenerShutdown \/ AcceptorEvent \/ EpEvent
Next ==
  \/ Process \/ RunTask \/ FdEvent \/ RunStop \/ SessionReports \/ SessionStopped
  \/ nn_btcp_create \/ nn_bipc_create \/ nn_bws_create \/ nn_ep_stop \/ Gone

Spec == Init /\ [][Next]_vars

(* The thread that holds the context leaves it, and one that waits for it  *)
(* is let in some time, however often others are before: the workers run   *)
(* their tasks, and a session that is being stopped stops (module Stream). *)
Fairness ==
  /\ WF_vars(Process) /\ SF_vars(RunTask)
  /\ \A i \in Slots : /\ SF_vars(RunStop /\ w.acc[i].stop /\ ~ w'.acc[i].stop)
                      /\ SF_vars(SessionStopped /\ w.acc[i].ses = "STOPPING"
                                                /\ w'.acc[i].ses = "IDLE")
FairSpec == Spec /\ Fairness

-----------------------------------------------------------------------------
(* No assertion of the listener, of an acceptor or of a socket fails.      *)
NoAssertionFails == ~ w.aborted

(* A listener that listens never stops accepting: whenever the context is  *)
(* free exactly one acceptor waits for a connection, the listening socket  *)
(* is its own and is paired with its socket, and the descriptor is in the  *)
(* pollset or on its way there; every other acceptor has a connection and  *)
(* is in the list of the listener.                                         *)
AlwaysAccepting ==
  Enter /\ w.b = "ACTIVE" /\ w.l # "IDLE" =>
    /\ w.current # NONE /\ w.acc[w.current].a = "ACCEPTING"
    /\ w.l = "ACCEPTING" /\ w.owner = w.current /\ w.asock = w.current
    /\ w.polled \/ "accept" \in ToSet(w.tasks)
    /\ \A i \in Slots \ {w.current} : /\ w.acc[i].a # "FREED" <=> i \in w.list
                                      /\ ~ w.acc[i].listener

(* When the listener has been freed no acceptor is left, and nothing can   *)
(* call back into it (nn_btcp_destroy).                                    *)
NothingLeft ==
  Enter /\ w.b = "FREED" => /\ Free(w) = Slots /\ w.l = "IDLE" /\ ~ w.polled /\ w.tasks = <<>>

(* No assertion of the listener, the acceptors and the sockets fails while *)
(* the listening socket changes hands, and nothing is left of a listener   *)
(* that has been freed.                                                    *)
Sound == TypeOK /\ NoAssertionFails /\ NothingLeft

(* nn_shutdown and nn_close finish, whatever the listener and the          *)
(* connections it has accepted are doing.                                  *)
StopCompletes == (w.ep = "STOPPING") ~> (w.ep = "FREED")

(* A connection that is lost is disposed of.                               *)
LostIsFreed == \A i \in Slots : (w.acc[i].ses = "DONE") ~> (w.acc[i].a = "FREED")
=============================================================================
