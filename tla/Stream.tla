------------------------------- MODULE Stream -------------------------------
(***************************************************************************)
(* The connecting endpoint of the TCP, IPC and WebSocket transports: the   *)
(* connecter (tcp/ctcp.c, ipc/cipc.c, ws/cws.c) with the state machines it *)
(* owns: the objects of module Usock, the reconnection timer               *)
(* (utils/backoff.c) and the session: that of TCP and IPC (tcp/stcp.c,     *)
(* ipc/sipc.c) with the header exchange (utils/streamhdr.c), or that of    *)
(* WebSocket (module Sws).  For the kind "aws" the owner of the session is *)
(* a connection accepted by a WebSocket listener (ws/aws.c) and "EP" is    *)
(* the listener (ws/bws.c, module Listen), as far as it goes.              *)
(*                                                                         *)
(* The state machines talk by events that nn_ctx_leave delivers one at a   *)
(* time, in order, before the context is unlocked.  A thread enters the    *)
(* context only when no event is left: the application, the resolver's     *)
(* thread, or the worker, which runs the tasks posted to it, the expired   *)
(* timers and the events of the file descriptor.                           *)
(*                                                                         *)
(* Bytes, addresses, intervals and counters of past connections are left   *)
(* out.  The protocol sends and receives from calls of the application; it *)
(* may also receive while it handles NN_PIPE_IN, and send while it handles *)
(* NN_PIPE_OUT, if a request waits for that (nn_req_out).                  *)
(***************************************************************************)
EXTENDS Sws

-----------------------------------------------------------------------------
(* The exchange is not timed.                                              *)
nn_streamhdr_start_NoTimer(x, rc) ==
  nn_usock_send([x EXCEPT !.owner = "H", !.hsock = TRUE, !.h = "SENDING"], rc)

(* The header exchange.  When it ends by itself it gives the socket back   *)
(* to the session; when it is stopped it does not.                         *)
nn_streamhdr_start(x, rc) ==
  LET y == [nn_assert(x, ~ x.hsock /\ Idle(x, x.h, "H"))
              EXCEPT !.owner = "H", !.hsock = TRUE, !.h = "SENDING"]
  IN nn_usock_send(nn_timer_start(y, HDR), rc)

(* nn_streamhdr_shutdown in STOPPING state.                                *)
StreamhdrStopping(x) ==
  IF Idle(x, x.tm[HDR], HDR) THEN Raise([x EXCEPT !.h = "IDLE"], "S", "H", "STOPPED") ELSE x

nn_streamhdr_stop(x) ==
  IF x.h \in {"IDLE", "STOPPING"} THEN x
  ELSE StreamhdrStopping([nn_timer_stop(x, HDR) EXCEPT !.h = "STOPPING"])

nn_streamhdr_handler(x, src, type, rc) ==
  CASE x.h = "SENDING" /\ src = "USOCK" /\ type = "SENT" ->
         [nn_usock_recv(x, rc) EXCEPT !.h = "RECEIVING"]
    [] x.h \in {"SENDING", "RECEIVING"} /\ src = "USOCK" /\ type = "SHUTDOWN" -> x
    [] x.h \in {"SENDING", "RECEIVING"} /\ type \in {"ERROR", "TIMEOUT"} ->
         [nn_timer_stop(x, HDR) EXCEPT !.h = "STOPPING_TIMER_ERROR"]
    [] x.h = "RECEIVING" /\ src = "USOCK" /\ type = "RECEIVED" ->
         [nn_timer_stop(x, HDR) EXCEPT !.h = IF rc = "badheader" THEN "STOPPING_TIMER_ERROR"
                                             ELSE "STOPPING_TIMER_DONE"]
    [] x.h \in {"STOPPING_TIMER_ERROR", "STOPPING_TIMER_DONE"} /\ src = "USOCK" -> x
    [] x.h \in {"STOPPING_TIMER_ERROR", "STOPPING_TIMER_DONE"} /\ type = "STOPPED" ->
         Raise([x EXCEPT !.h = "DONE", !.hsock = FALSE, !.owner = "S"],
               "S", "H", IF x.h = "STOPPING_TIMER_DONE" THEN "OK" ELSE "ERROR")
    [] x.h = "STOPPING" -> StreamhdrStopping(x)
    [] OTHER -> Abort(x)

-----------------------------------------------------------------------------
(* The session.                                                            *)
nn_stcp_start(x, rc) ==
  [nn_streamhdr_start(nn_assert(x, Idle(x, x.s, "S")), rc) EXCEPT !.s = "PROTOHDR"]

(* The socket stays with a session that has stopped.                       *)
SessionStopping_KeepSocket(x) ==
  IF Idle(x, x.h, "H") THEN Raise([x EXCEPT !.s = "IDLE"], "C", "S", "STOPPED") ELSE x

(* nn_stcp_shutdown in STOPPING state.                                     *)
SessionStopping(x) ==
  IF Idle(x, x.h, "H")
  THEN Raise([Forget(x) EXCEPT !.s = "IDLE", !.owner = "C"], "C", "S", "STOPPED") ELSE x

nn_stcp_stop(x) ==
  IF x.s \in {"IDLE", "STOPPING"} THEN x
  ELSE SessionStopping([nn_streamhdr_stop(nn_pipebase_stop(x)) EXCEPT !.s = "STOPPING"])

SessionError(x) == Raise([x EXCEPT !.s = "DONE"], "C", "S", "ERROR")

(* NN_STREAMHDR_STOPPED: nn_pipebase_start, and the first receive.         *)
SessionActive(x, rc) ==
  IF rc = "refused" THEN SessionError([x EXCEPT !.pipe = "FAILED"])
  ELSE LET y == nn_pipebase_start([x EXCEPT !.instate = "HDR"])
       IN [nn_usock_recv(y, rc) EXCEPT !.outstate = "IDLE", !.s = "ACTIVE"]

HasMsg(x) == nn_pipebase_received([x EXCEPT !.instate = "HASMSG"])

(* NN_USOCK_RECEIVED: the size of a message, then its body.                *)
SessionReceived(x, rc) ==
  CASE x.instate = "HDR" /\ rc = "toolarge" -> SessionError(x)
    [] x.instate = "HDR" /\ rc = "zero" -> HasMsg(x)
    [] x.instate = "HDR" /\ rc \notin {"toolarge", "zero"} ->
         nn_usock_recv([x EXCEPT !.instate = "BODY"], rc)
    [] x.instate = "BODY" -> HasMsg(x)
    [] OTHER -> Abort(x)

(* NN_USOCK_SENT: nn_pipebase_sent.                                        *)
SessionSent(x) ==
  nn_pipebase_sent([nn_assert(x, x.outstate = "SENDING") EXCEPT !.outstate = "IDLE"])

nn_stcp_handler(x, src, type, rc) ==
  CASE x.s = "PROTOHDR" /\ src = "H" /\ type = "OK" ->
         [nn_streamhdr_stop(x) EXCEPT !.s = "STOPPING_STREAMHDR"]
    [] x.s = "PROTOHDR" /\ src = "H" /\ type = "ERROR" -> SessionError(x)
    [] x.s = "STOPPING_STREAMHDR" /\ src = "H" /\ type = "STOPPED" -> SessionActive(x, rc)
    [] x.s = "ACTIVE" /\ type = "SENT" -> SessionSent(x)
    [] x.s = "ACTIVE" /\ type = "RECEIVED" -> SessionReceived(x, rc)
    [] x.s = "ACTIVE" /\ type = "SHUTDOWN" -> [nn_pipebase_stop(x) EXCEPT !.s = "SHUTTING_DOWN"]
    [] x.s = "ACTIVE" /\ src = "USOCK" /\ type = "ERROR" -> SessionError(nn_pipebase_stop(x))
    [] x.s = "SHUTTING_DOWN" /\ src = "USOCK" /\ type = "ERROR" -> SessionError(x)
    [] x.s = "STOPPING" -> SessionStopping(x)
    [] x.s = "DONE" -> TooLate(x)
    [] OTHER -> Abort(x)

(* The IPC session: but for the byte that says how a message is passed,    *)
(* the only way being "in the stream", the same.  SipcActive is ACTIVE and *)
(* SHUTTING_DOWN state.                                                    *)
SipcActive(x, src, type, rc) == nn_stcp_handler(x, src, type, rc)

nn_sipc_handler(x, src, type, rc) ==
  IF x.s \in {"ACTIVE", "SHUTTING_DOWN"} THEN SipcActive(x, src, type, rc)
  ELSE nn_stcp_handler(x, src, type, rc)

nn_sipc_stop(x) == nn_stcp_stop(x)

-----------------------------------------------------------------------------
(* The state is entered without the timer.                                 *)
Wait_NoTimer(x) == [x EXCEPT !.c = "WAITING"]

(* The connecter.  nn_backoff_start and the timer it drives.               *)
Wait(x) == [nn_timer_start(x, RETRY) EXCEPT !.c = "WAITING"]

nn_ctcp_start_resolving(x, literal) == [nn_dns_start(x, literal) EXCEPT !.c = "RESOLVING"]

Connect(x, rc) == [nn_usock_connect(nn_usock_start(x), rc) EXCEPT !.c = "CONNECTING",
                                                                  !.inprogress = @ + 1]

(* No local address, no socket, the address cannot be bound (the socket    *)
(* stays as it is), or nn_usock_connect.                                   *)
nn_ctcp_start_connecting(x, rc) ==
  CASE rc \in {"noaddr", "nosocket"} -> Wait(x)
    [] rc = "nobind" -> Wait(nn_usock_start(x))
    [] OTHER -> Connect(x, rc)

nn_cipc_start_connecting(x, rc) == IF rc = "nosocket" THEN Wait(x) ELSE Connect(x, rc)

(* nn_ctcp_handler up to the connection.                                   *)
Connecting(x, src, type, rc) ==
  CASE x.c = "RESOLVING" /\ src = "DNS" /\ type = "DONE" ->
         [nn_dns_stop(x) EXCEPT !.c = "STOPPING_DNS"]
    [] x.c = "STOPPING_DNS" /\ src = "DNS" /\ type = "STOPPED" ->
         IF rc = "refused" THEN Wait(x) ELSE nn_ctcp_start_connecting(x, rc)
    [] x.c = "CONNECTING" /\ src = "USOCK" /\ type = "CONNECTED" ->
         [nn_stcp_start(x, rc) EXCEPT !.c = "ACTIVE", !.inprogress = @ - 1]
    [] x.c = "CONNECTING" /\ src = "USOCK" /\ type = "ERROR" ->
         [nn_usock_stop(x) EXCEPT !.c = "STOPPING_USOCK", !.inprogress = @ - 1]
    [] OTHER -> Abort(x)

(* nn_ctcp_handler from the connection to the end of the wait.             *)
Reconnecting(x, src, type) ==
  CASE x.c = "ACTIVE" /\ src = "S" /\ type = "ERROR" ->
         [nn_stcp_stop(x) EXCEPT !.c = "STOPPING_SESSION"]
    [] x.c = "STOPPING_SESSION" /\ src = "S" /\ type = "STOPPED" ->
         [nn_usock_stop(x) EXCEPT !.c = "STOPPING_USOCK"]
    [] x.c = "STOPPING_USOCK" /\ src = "USOCK" /\ type = "SHUTDOWN" -> x
    [] x.c = "STOPPING_USOCK" /\ src = "USOCK" /\ type = "STOPPED" -> Wait(x)
    [] x.c = "WAITING" /\ src = RETRY /\ type = "TIMEOUT" ->
         [nn_timer_stop(x, RETRY) EXCEPT !.c = "STOPPING_BACKOFF"]
    [] OTHER -> Abort(x)

(* A new attempt; "ok" stands for an address that needs no lookup.         *)
nn_ctcp_handler(x, src, type, rc) ==
  CASE x.c \in {"RESOLVING", "STOPPING_DNS", "CONNECTING"} -> Connecting(x, src, type, rc)
    [] x.c = "STOPPING_BACKOFF" /\ src = RETRY /\ type = "STOPPED" ->
         nn_ctcp_start_resolving(x, rc = "ok")
    [] OTHER -> Reconnecting(x, src, type)

nn_cipc_handler(x, src, type, rc) ==
  CASE x.c = "CONNECTING" -> Connecting(x, src, type, rc)
    [] x.c = "STOPPING_BACKOFF" /\ src = RETRY /\ type = "STOPPED" ->
         nn_cipc_start_connecting(x, rc)
    [] OTHER -> Reconnecting(x, src, type)

nn_cws_start_resolving(x, literal) == [nn_dns_start(x, literal) EXCEPT !.c = "RESOLVING"]

nn_cws_start_connecting(x, rc) ==
  CASE rc \in {"noaddr", "nosocket"} -> Wait(x)
    [] rc = "nobind" -> Wait(nn_usock_start(x))
    [] OTHER -> Connect(x, rc)

(* nn_cws_handler while the connection is active, and its end.  A session  *)
(* that says the peer is gone is not replaced: the connecter stays in      *)
(* STOPPING_USOCK state.                                                   *)
CwsLeaving(x, src, type) ==
  CASE x.c = "ACTIVE" /\ src = "S" /\ type \in {"CLOSE", "ERROR"} ->
         [nn_sws_stop(x) EXCEPT !.c = "STOPPING_SESSION", !.peer_gone = @ \/ type = "CLOSE"]
    [] x.c = "STOPPING_SESSION" /\ src = "S" /\ type = "STOPPED" ->
         [nn_usock_stop(x) EXCEPT !.c = "STOPPING_USOCK"]
    [] x.c = "STOPPING_USOCK" /\ src = "USOCK" /\ type = "SHUTDOWN" -> x
    [] x.c = "STOPPING_USOCK" /\ src = "USOCK" /\ type = "STOPPED" ->
         IF x.peer_gone THEN x ELSE Wait(x)
    [] OTHER -> Abort(x)

(* The rest of it: attempts to connect and the wait between them.          *)
nn_cws_handler(x, src, type, rc) ==
  CASE x.c = "RESOLVING" /\ src = "DNS" /\ type = "DONE" ->
         [nn_dns_stop(x) EXCEPT !.c = "STOPPING_DNS"]
    [] x.c = "STOPPING_DNS" /\ src = "DNS" /\ type = "STOPPED" ->
         IF rc = "refused" THEN Wait(x) ELSE nn_cws_start_connecting(x, rc)
    [] x.c = "CONNECTING" /\ src = "USOCK" /\ type = "CONNECTED" ->
         [nn_sws_start(x, rc) EXCEPT !.c = "ACTIVE", !.peer_gone = FALSE, !.inprogress = @ - 1]
    [] x.c = "CONNECTING" /\ src = "USOCK" /\ type = "ERROR" ->
         [nn_usock_stop(x) EXCEPT !.c = "STOPPING_USOCK", !.inprogress = @ - 1]
    [] x.c = "WAITING" /\ src = RETRY /\ type = "TIMEOUT" ->
         [nn_timer_stop(x, RETRY) EXCEPT !.c = "STOPPING_BACKOFF"]
    [] x.c = "STOPPING_BACKOFF" /\ src = RETRY /\ type = "STOPPED" ->
         nn_cws_start_resolving(x, rc = "ok")
    [] OTHER -> CwsLeaving(x, src, type)

(* A connection that was accepted, from then on: when it ends, it tells    *)
(* the listener.                                                           *)
nn_aws_handler(x, src, type) ==
  CASE x.c = "ACTIVE" /\ src = "S" /\ type \in {"CLOSE", "ERROR"} ->
         [nn_sws_stop(x) EXCEPT !.c = "STOPPING_SESSION"]
    [] x.c = "STOPPING_SESSION" /\ src = "S" /\ type = "STOPPED" ->
         [nn_usock_stop(x) EXCEPT !.c = "STOPPING_USOCK"]
    [] x.c = "STOPPING_USOCK" /\ src = "USOCK" /\ type = "SHUTDOWN" -> x
    [] x.c = "STOPPING_USOCK" /\ src = "USOCK" /\ type = "STOPPED" ->
         Raise([x EXCEPT !.c = "DONE"], "EP", "EP", "ERROR")
    [] OTHER -> Abort(x)

(* nn_ctcp_shutdown: the session first, then all the rest at once.         *)
StopRest(x) ==
  IF x.c = "STOPPING_FINAL" /\ Idle(x, x.s, "S")
  THEN [nn_dns_stop(nn_usock_stop(nn_timer_stop(x, RETRY))) EXCEPT !.c = "STOPPING"] ELSE x

nn_ctcp_shutdown(x) ==
  LET y == StopRest(x)
  IN IF /\ y.c = "STOPPING"
        /\ Idle(y, y.tm[RETRY], RETRY) /\ Idle(y, y.u, "USOCK") /\ Idle(y, y.d, "DNS")
     THEN Raise([y EXCEPT !.c = "IDLE"], "EP", "EP", "STOPPED") ELSE y

(* The same, but for the resolver, which an IPC endpoint never starts.     *)
nn_cipc_shutdown(x) == nn_ctcp_shutdown(x)

nn_cws_shutdown(x) == nn_ctcp_shutdown(x)

(* Nor does an accepted connection start a timer.                          *)
nn_aws_shutdown(x) == nn_ctcp_shutdown(x)

(* The worker can be told to forget the tasks of the usock in its queue,   *)
(* not those it has in hand; everything else must have stopped.            *)
nn_usock_term(x) == [x EXCEPT !.tasks = SelectSeq(@, LAMBDA t : t[1] # "U")]

nn_ctcp_destroy(x) ==
  LET y == nn_usock_term(x)
      stopped == /\ {x.c, x.u, x.d, x.s, x.h, x.pipe, x.tm[RETRY], x.tm[HDR]} = {"IDLE"}
                 /\ batch = <<>> /\ y.tasks = <<>>
  IN [nn_assert(y, stopped) EXCEPT !.ep = "FREED"]

nn_cipc_destroy(x) == nn_ctcp_destroy(x)
nn_cws_destroy(x) == nn_ctcp_destroy(x)
nn_aws_term(x) == nn_ctcp_destroy(x)

-----------------------------------------------------------------------------
(* What the protocol does with the pipe of a TCP or IPC session.           *)
nn_stcp_send(x, rc) ==
  [nn_usock_send([nn_assert(x, x.s = "ACTIVE" /\ x.outstate = "IDLE")
                    EXCEPT !.can = @ \ {"OUT"}], rc)
     EXCEPT !.outstate = "SENDING"]

nn_stcp_recv(x, rc) ==
  nn_usock_recv([nn_assert(x, x.s = "ACTIVE" /\ x.instate = "HASMSG")
                   EXCEPT !.can = @ \ {"IN"}, !.instate = "HDR"], rc)

nn_sipc_send(x, rc) == nn_stcp_send(x, rc)
nn_sipc_recv(x, rc) == nn_stcp_recv(x, rc)

SessionSend(x, rc) == CASE kind = "tcp" -> nn_stcp_send(x, rc)
                        [] kind = "ipc" -> nn_sipc_send(x, rc)
                        [] kind \in {"ws", "aws"} -> nn_sws_send(x, rc)
SessionRecv(x, rc) == CASE kind = "tcp" -> nn_stcp_recv(x, rc)
                        [] kind = "ipc" -> nn_sipc_recv(x, rc)
                        [] kind \in {"ws", "aws"} -> nn_sws_recv(x, rc)

(* NN_PIPE_IN and NN_PIPE_OUT in nn_sock_handler.  A pipe the protocol has *)
(* been told to forget must not come back; a socket that is being closed   *)
(* ignores them.  A REQ socket sends the request that it could not send    *)
(* before; it gets into that state from calls and timers only.             *)
PipeEvent(x, type, rc) ==
  CASE x.sock = "CLOSING" -> x
    [] x.sock = "ACTIVE" /\ x.pipe # "ACTIVE" -> TooLate(x)
    [] x.sock = "ACTIVE" /\ type = "IN" /\ rc # "later" -> SessionRecv(x, rc)
    [] x.sock = "ACTIVE" /\ type = "OUT" /\ x.delayed ->
         SessionSend([x EXCEPT !.delayed = FALSE], rc)
    [] OTHER -> [x EXCEPT !.can = @ \cup {type}]

(* nn_ctx_leave: the next event goes to the state machine it is for.       *)
Leaving == w.aborted = "no" /\ w.events # <<>>
Event == Head(w.events)
Rest == [w EXCEPT !.events = Tail(@)]

ConnecterEvent ==
  /\ Leaving /\ Event[1] = "C" /\ w.c \notin {"STOPPING_FINAL", "STOPPING"}
  /\ \E rc \in Rc : w' = CASE kind = "tcp" -> nn_ctcp_handler(Rest, Event[2], Event[3], rc)
                           [] kind = "ipc" -> nn_cipc_handler(Rest, Event[2], Event[3], rc)
                           [] kind = "ws" -> nn_cws_handler(Rest, Event[2], Event[3], rc)
                           [] kind = "aws" -> nn_aws_handler(Rest, Event[2], Event[3])
  /\ UNCHANGED <<kind, batch>>

ConnecterShutdown ==
  /\ Leaving /\ Event[1] = "C" /\ w.c \in {"STOPPING_FINAL", "STOPPING"}
  /\ w' = CASE kind = "tcp" -> nn_ctcp_shutdown(Rest)
            [] kind = "ipc" -> nn_cipc_shutdown(Rest)
            [] kind = "ws" -> nn_cws_shutdown(Rest)
            [] kind = "aws" -> nn_aws_shutdown(Rest)
  /\ UNCHANGED <<kind, batch>>

FrameEvent == kind \in {"ws", "aws"} /\ w.s = "ACTIVE" /\ Event = <<"S", "USOCK", "RECEIVED">>

SessionEvent ==
  /\ Leaving /\ Event[1] = "S"
  /\ ~ FrameEvent
  /\ \E rc \in Rc : w' = CASE kind = "tcp" -> nn_stcp_handler(Rest, Event[2], Event[3], rc)
                           [] kind = "ipc" -> nn_sipc_handler(Rest, Event[2], Event[3], rc)
                           [] kind \in {"ws", "aws"} -> nn_sws_handler(Rest, Event[2], Event[3], rc)
  /\ UNCHANGED <<kind, batch>>

(* Part of a frame has arrived.                                            *)
SwsFrame ==
  /\ Leaving /\ FrameEvent
  /\ \E f \in Frames, rc \in Io : w' = SwsReceived(Rest, f, rc)
  /\ UNCHANGED <<kind, batch>>

StreamhdrEvent ==
  /\ Leaving /\ Event[1] = "H"
  /\ \E rc \in Rc : w' = IF kind \in {"ws", "aws"}
                         THEN nn_ws_handshake_handler(Rest, Event[2], Event[3], rc)
                         ELSE nn_streamhdr_handler(Rest, Event[2], Event[3], rc)
  /\ UNCHANGED <<kind, batch>>

(* nn_ctcp_stop and the NN_FSM_STOP branch of nn_ctcp_shutdown, and so on  *)
(* for the other kinds.                                                    *)
StopEndpoint(x) ==
  LET y == CASE kind = "tcp" -> nn_stcp_stop(x)
             [] kind = "ipc" -> nn_sipc_stop(x)
             [] kind \in {"ws", "aws"} -> nn_sws_stop(x)
  IN nn_ctcp_shutdown([y EXCEPT !.ep = "STOPPING", !.c = "STOPPING_FINAL"])

(* nn_bws_handler, and STOPPING_AWSS state of nn_bws_shutdown: a           *)
(* connection that has ended is stopped, and freed when it has stopped.    *)
ListenerEvent ==
  /\ Leaving /\ Event[1] = "EP" /\ kind = "aws"
  /\ w' = IF Event[3] = "ERROR" THEN StopEndpoint(Rest) ELSE nn_aws_term(Rest)
  /\ UNCHANGED <<kind, batch>>

(* nn_ep_shutdown.                                                         *)
EpEvent ==
  /\ Leaving /\ Event[1] = "EP" /\ kind # "aws"
  /\ w' = Raise([nn_assert(Rest, w.ep = "STOPPING") EXCEPT !.ep = "IDLE"],
                "SOCK", "EP", "STOPPED")
  /\ UNCHANGED <<kind, batch>>

SockEvent ==
  /\ Leaving /\ Event[1] = "SOCK"
  /\ w' \in IF Event[2] = "PIPE" THEN {PipeEvent(Rest, Event[3], rc) : rc \in Rc}
             ELSE {CASE kind = "tcp" -> nn_ctcp_destroy(Rest)
                     [] kind = "ipc" -> nn_cipc_destroy(Rest)
                     [] kind = "ws" -> nn_cws_destroy(Rest)}
 
  /\ UNCHANGED <<kind, batch>>

-----------------------------------------------------------------------------
(* The application.                                                        *)
Enter == w.aborted = "no" /\ w.events = <<>>

(* A TCP address may be refused; an IPC address is any path.               *)
nn_ctcp_create ==
  /\ Enter /\ w.ep = "NEW" /\ kind = "tcp"
  /\ \/ w' = [w EXCEPT !.ep = "FREED"]
     \/ \E literal \in BOOLEAN :
          w' = nn_ctcp_start_resolving([w EXCEPT !.ep = "ACTIVE"], literal)
  /\ UNCHANGED <<kind, batch, inworker, eager>>

nn_cipc_create ==
  /\ Enter /\ w.ep = "NEW" /\ kind = "ipc"
  /\ \E rc \in Rc : w' = nn_cipc_start_connecting([w EXCEPT !.ep = "ACTIVE"], rc)
  /\ UNCHANGED <<kind, batch, inworker, eager>>

nn_cws_create ==
  /\ Enter /\ w.ep = "NEW" /\ kind = "ws"
  /\ \/ w' = [w EXCEPT !.ep = "FREED"]
     \/ \E literal \in BOOLEAN : w' = nn_cws_start_resolving([w EXCEPT !.ep = "ACTIVE"], literal)
  /\ UNCHANGED <<kind, batch, inworker, eager>>

(* NN_USOCK_ACCEPTED in ACCEPTING state of nn_aws_handler.                 *)
nn_usock_activate(x) == [x EXCEPT !.u = "ACTIVE", !.poll = {"ADDED"}]

AwsAccepted ==
  /\ Enter /\ w.ep = "NEW" /\ kind = "aws"
  /\ \E rc \in Io :
       w' = nn_sws_start([nn_usock_activate(w) EXCEPT !.ep = "ACTIVE", !.c = "ACTIVE"], rc)
  /\ UNCHANGED <<kind, batch, inworker, eager>>

(* nn_shutdown or nn_close.  A listener stops its own socket first and its *)
(* connections later.                                                      *)
nn_ep_stop ==
  /\ Enter /\ w.ep = "ACTIVE"
  /\ \/ \E sock \in {w.sock, "CLOSING"} : w' = StopEndpoint([w EXCEPT !.sock = sock])
     \/ kind = "aws" /\ w.sock = "ACTIVE" /\ w' = [w EXCEPT !.sock = "CLOSING"]
  /\ UNCHANGED <<kind, batch, inworker, eager>>

nn_send ==
  /\ Enter /\ w.sock = "ACTIVE" /\ "OUT" \in w.can
  /\ \E rc \in Io : w' = SessionSend(w, rc)
  /\ UNCHANGED <<kind, batch, inworker, eager>>

(* There is no pipe that the request can be sent to.                       *)
nn_req_csend ==
  /\ Enter /\ w.ep \in {"NEW", "ACTIVE"} /\ w.sock = "ACTIVE"
  /\ "OUT" \notin w.can /\ ~ w.delayed
  /\ w' = [w EXCEPT !.delayed = TRUE]
  /\ UNCHANGED <<kind, batch, inworker, eager>>

nn_recv ==
  /\ Enter /\ w.sock = "ACTIVE" /\ "IN" \in w.can
  /\ \E rc \in Io : w' = SessionRecv(w, rc)
  /\ UNCHANGED <<kind, batch, inworker, eager>>

-----------------------------------------------------------------------------
(* The C library's resolver and its thread.                                *)
Resolve ==
  /\ w.aborted = "no"
  /\ \/ w.gai = "QUEUED" /\ w' = [w EXCEPT !.gai = "RUNNING"]
     \/ w.gai = "RUNNING" /\ w' = [w EXCEPT !.gai = "DONE"]
  /\ UNCHANGED <<kind, batch, inworker, eager>>

(* The answer to a request that was given up is dropped.                   *)
nn_dns_notify_IgnoreStop ==
  /\ Enter /\ w.gai = "DONE"
  /\ w' = IF w.d = "RESOLVING"
          THEN Raise([w EXCEPT !.gai = "NONE", !.d = "DONE"], "C", "DNS", "DONE") ELSE w
  /\ UNCHANGED <<kind, batch, inworker, eager>>

nn_dns_notify ==
  /\ Enter /\ w.gai = "DONE"
  /\ LET x == [w EXCEPT !.gai = "NONE"]
     IN w' = CASE w.d = "RESOLVING" -> Raise([x EXCEPT !.d = "DONE"], "C", "DNS", "DONE")
               [] w.d = "STOPPING" -> Raise([x EXCEPT !.d = "IDLE"], "C", "DNS", "STOPPED")
               [] OTHER -> Abort(x)
  /\ UNCHANGED <<kind, batch, inworker, eager>>

(* The worker (nn_worker_routine).  Taking the tasks needs the worker's    *)
(* mutex only; what it does with each of them needs the context, which it  *)
(* leaves when the events are done.                                        *)
TakeTasks ==
  /\ w.aborted = "no" /\ ~ inworker /\ batch = <<>> /\ w.tasks # <<>>
  /\ batch' = w.tasks /\ w' = [w EXCEPT !.tasks = <<>>]
  /\ UNCHANGED <<kind, inworker, eager>>

WorkerLeaves == inworker' = (w'.events # <<>>)

(* The start and stop tasks of nn_timer_handler and nn_timer_shutdown.     *)
TimerTask(x, t, task) ==
  CASE task = "start" /\ x.tm[t] = "ACTIVE" -> [x EXCEPT !.armed = @ \cup {t}]
    [] task = "start" /\ x.tm[t] = "STOPPING" -> x
    [] task = "stop" /\ x.tm[t] = "STOPPING" ->
         Raise([x EXCEPT !.armed = @ \ {t}, !.tm[t] = "IDLE"], TimerOwner(t), t, "STOPPED")
    [] OTHER -> Abort(x)

RunTask ==
  /\ Enter /\ batch # <<>>
  /\ LET task == Head(batch)
     IN w' = IF task[1] = "U" THEN UsockTask(w, task[2]) ELSE TimerTask(w, task[1], task[2])
  /\ batch' = Tail(batch)
  /\ WorkerLeaves /\ UNCHANGED <<kind, eager>>

(* A timer that is being stopped ignores its expiry.                       *)
Expire ==
  /\ Enter /\ batch = <<>>
  /\ \E t \in w.armed :
       LET x == [nn_assert(w, w.tm[t] # "IDLE") EXCEPT !.armed = @ \ {t}]
       IN w' = IF w.tm[t] = "ACTIVE" THEN Raise(x, TimerOwner(t), t, "TIMEOUT") ELSE x
  /\ WorkerLeaves /\ UNCHANGED <<kind, batch, eager>>

(* nn_poller_event: what the descriptor was asked to wait for, or an error *)
(* or hang-up, which epoll reports without being asked.                    *)
FdEvent ==
  /\ Enter /\ batch = <<>> /\ "ADDED" \in w.poll
  /\ \E event \in (w.poll \ {"ADDED"}) \cup {"ERR"}, rc \in Io :
       w' = UsockFd(w, event, rc)
  /\ WorkerLeaves /\ UNCHANGED <<kind, batch, eager>>

(* The endpoint is gone, or the program is.                                *)
Gone == w.ep = "FREED" /\ w.events = <<>> /\ UNCHANGED vars
Dead == w.aborted # "no" /\ UNCHANGED vars

Process ==
  /\ \/ ConnecterEvent \/ ConnecterShutdown \/ SessionEvent \/ SwsFrame
     \/ StreamhdrEvent \/ ListenerEvent \/ EpEvent \/ SockEvent
  /\ inworker' = (inworker /\ w'.events # <<>>)
  /\ eager' = /\ eager \/ (w.delayed /\ ~ w'.delayed)
              /\ w'.events # <<>> \/ w'.aborted # "no"
Worker == TakeTasks \/ RunTask
Next ==
  \/ Process \/ Worker \/ Expire \/ FdEvent
  \/ Resolve \/ nn_dns_notify
  \/ nn_ctcp_create \/ nn_cipc_create \/ nn_cws_create \/ AwsAccepted
  \/ nn_ep_stop \/ nn_send \/ nn_req_csend \/ nn_recv
  \/ Gone \/ Dead

Spec == Init /\ [][Next]_vars

(* The thread that holds the context goes on to leave it, the worker runs  *)
(* its tasks and its timers, the resolver answers.  Nothing is assumed of  *)
(* the application, the peer or the network.                               *)
Fairness ==
  /\ WF_vars(Process) /\ WF_vars(Worker) /\ WF_vars(Expire)
  /\ WF_vars(Resolve) /\ WF_vars(nn_dns_notify)

FairSpec == Spec /\ Fairness

-----------------------------------------------------------------------------
Unlocked == w.aborted = "no" /\ w.events = <<>>
Pending(tasks) == \E t \in ToSet(w.tasks) \cup ToSet(batch) : t \in {"U"} \X tasks

(* The assertions of the state machines fail in four situations only,      *)
(* which the code does not survive: the attempt that follows one whose     *)
(* bind () failed, the connection that follows one lost in the middle of a *)
(* WebSocket message, a first line of an opening handshake that is not     *)
(* understood, and a request sent from the handler of NN_PIPE_OUT while    *)
(* what has been received is still in the queue.  Otherwise no handler     *)
(* gets an event its state does not expect, no event or task is raised     *)
(* while it is queued, the usock, the timers, the resolver, the session    *)
(* and the pipe are started and destroyed only when they are idle, and the *)
(* protocol never sees an event of a pipe it has been told to forget       *)
(* (nn_fsm_bad_source, nn_queue_push, nn_sock_rm).                         *)
NoAssertionFails == w.aborted # "other"

(* Whenever the context is free the protocol has the pipe exactly while    *)
(* the session is active: whichever way a session ends, nn_sock_rm has     *)
(* been called for the pipe that nn_sock_add announced.                    *)
PipeIffActive == Unlocked => ((w.pipe = "ACTIVE") <=> (w.s = "ACTIVE"))

(* No wake-up is lost: a receive (of the header exchange or of the         *)
(* session) or a send that has not been completed is waited for in the     *)
(* poller, or the task that will ask the poller for it is on its way.      *)
NoLostWakeup ==
  Unlocked /\ w.u = "ACTIVE" =>
    /\ "ADDED" \in w.poll \/ Pending({"connected"})
    /\ \/ w.h \in {"RECEIVING", "CLIENT_RECV", "SERVER_RECV"}
       \/ w.s = "ACTIVE" /\ w.instate \in {"HDR", "HDREXT", "BODY", "PAYLOAD"}
         => "IN" \in w.poll \/ Pending({"recv"})
    /\ \/ w.h \in {"SENDING", "CLIENT_SEND", "SERVER_REPLY"}
       \/ w.s \in {"ACTIVE", "CLOSING_CONNECTION"} /\ w.outstate = "SENDING"
         => "OUT" \in w.poll \/ Pending({"send"})

(* When the endpoint has been freed nothing can call back into it: no      *)
(* event, no task in the worker's queue or in its hands, no descriptor in  *)
(* the poller, no timer, no resolver request (nn_ctcp_destroy).            *)
NothingLeft ==
  w.ep = "FREED" => /\ w.events = <<>> /\ w.tasks = <<>> /\ batch = <<>>
                    /\ "ADDED" \notin w.poll /\ w.armed = {} /\ w.gai = "NONE"

(* No assertion of the stack fails, but for the four ways above, and no    *)
(* object is used after it was freed; the protocol has the pipe exactly    *)
(* while the session is active, and nothing is left of an endpoint that    *)
(* has been freed.                                                         *)
Sound == TypeOK /\ NoAssertionFails /\ PipeIffActive /\ NothingLeft

(* The session keeps the promise of module Session: whatever happens to    *)
(* the connection it reports one end at most, it owns the socket until it  *)
(* has stopped, and it gives it back to the connecter (nn_stcp_stop,       *)
(* nn_sws_stop).                                                           *)
Promised == INSTANCE Session WITH
  ses <- IF w.s \in {"IDLE", "DONE", "STOPPING"} THEN w.s ELSE "RUNNING",
  held <- w.owner # "C"
KeepsPromise == Promised!Spec

(* nn_shutdown and nn_close finish: whatever the endpoint is doing, and    *)
(* with no help of the peer, it is freed.                                  *)
StopCompletes == (w.ep = "STOPPING") ~> (w.ep = "FREED" \/ w.aborted # "no")

(* A peer that connects and says nothing does not hold the session: the    *)
(* header exchange ends, if only by its timer.                             *)
HandshakeEnds ==
  (w.s \in {"PROTOHDR", "HANDSHAKE"}) ~>
    (w.s \notin {"PROTOHDR", "HANDSHAKE"} \/ w.aborted # "no")

(* Whichever way an attempt or a connection has ended, the endpoint comes  *)
(* to the end of its wait and from there to the next attempt, unless it is *)
(* stopped or the session has said that the peer is gone (nn_cws_handler). *)
Ended == {"STOPPING_SESSION", "STOPPING_USOCK", "WAITING"}
RetryComes ==
  /\ w.c \in Ended /\ kind # "aws" /\ ~ w.peer_gone ~> w.c \notin Ended \/ w.aborted # "no"
  /\ w.c = "STOPPING_BACKOFF" ~> w.c # "STOPPING_BACKOFF"

(* A connection that is lost is dismantled, to be replaced by a new one or *)
(* because the endpoint is being stopped.                                  *)
LostConnectionLeft == (w.u = "DONE") ~> (w.u # "DONE" \/ w.aborted # "no")

(* A client whose opening was refused, and which was told so, does not     *)
(* become a peer of the socket (nn_ws_handshake_server_reply).             *)
RefusedStaysOut == w.response = "REFUSED" => w.pipe # "ACTIVE"
=============================================================================
