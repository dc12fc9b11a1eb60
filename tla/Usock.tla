------------------------------- MODULE Usock -------------------------------
(***************************************************************************)
(* What the parts of a stream connection are made of: the world they       *)
(* share, the events and tasks by which they talk, and the objects they    *)
(* own, the OS socket (aio/usock_posix.inc), the timers (aio/timer.c), the *)
(* resolver (utils/dns_getaddrinfo_a.inc) and the pipe (core/pipe.c).      *)
(*                                                                         *)
(* All of them live in the context of the socket.  The world w is what the *)
(* context protects.  A handler is an operator from the world, the event   *)
(* and rc, the outcome of the call to the operating system, the peer or    *)
(* the protocol it makes, to the world it leaves; an event it does not     *)
(* expect aborts the program.                                              *)
(***************************************************************************)
EXTENDS Integers, Sequences, SequencesExt

CONSTANT Kinds    \* the transports to look at

ASSUME StreamAssumption == Kinds \subseteq {"tcp", "ipc", "ws", "aws"}

(* Outcomes of the calls a handler makes: done at once, to be continued by *)
(* the worker, connection lost; why a connection is not attempted; what a  *)
(* header announces; whether the protocol takes the pipe, or the message.  *)
Rc == {"ok", "again", "reset", "noaddr", "nosocket", "zero", "toolarge",
       "nobind", "badheader", "badstatus", "more", "refused", "later"}
Io == {"ok", "again", "reset"}

RETRY == "RETRY"   \* nn_backoff.timer
HDR == "HDR"       \* nn_streamhdr.timer
Timers == {RETRY, HDR}

VARIABLES
  kind,    \* the transport of the endpoint
  w,       \* what the context of the socket protects
  batch,   \* nn_worker_routine's local copy of the tasks
  inworker,\* the thread in the context is the worker
  eager    \* it has let the protocol send from its handler of NN_PIPE_OUT
vars == <<kind, w, batch, inworker, eager>>

Room == 1
Opcodes == {"DATA", "FRAGMENT", "CONTROL", "CLOSE", "INVALID"}

Tasks == {"U"} \X {"connecting", "connected", "send", "recv", "stop"}
           \cup Timers \X {"start", "stop"}

World ==
  [sock : {"ACTIVE", "CLOSING"},                        \* nn_sock.state
   ep : {"NEW", "ACTIVE", "STOPPING", "IDLE", "FREED"}, \* nn_ep.state
   c : {"IDLE", "RESOLVING", "STOPPING_DNS", "CONNECTING", "ACTIVE",
        "STOPPING_SESSION", "STOPPING_USOCK", "WAITING", "STOPPING_BACKOFF",
        "STOPPING_FINAL", "STOPPING", "DONE"},          \* nn_ctcp.state, nn_aws.state
   u : {"IDLE", "STARTING", "CONNECTING", "ACTIVE", "REMOVING_FD", "DONE",
        "STOPPING"},                                    \* nn_usock.state
   owner : {"C", "S", "H"},                             \* nn_usock.fsm.owner
   poll : SUBSET {"ADDED", "IN", "OUT"},                \* nn_usock.wfd in the pollset
   d : {"IDLE", "RESOLVING", "DONE", "STOPPING"},       \* nn_dns.state
   gai : {"NONE", "QUEUED", "RUNNING", "DONE"},         \* nn_dns.gcb in the C library
   tm : [Timers -> {"IDLE", "ACTIVE", "STOPPING"}],     \* nn_timer.state
   armed : SUBSET Timers,                               \* nn_worker.timerset
   s : {"IDLE", "PROTOHDR", "STOPPING_STREAMHDR", "ACTIVE", "SHUTTING_DOWN",
        "DONE", "STOPPING", "HANDSHAKE", "STOPPING_HANDSHAKE",
        "CLOSING_CONNECTION", "BROKEN_CONNECTION"},     \* nn_stcp.state, nn_sws.state
   instate : {"NONE", "HDR", "BODY", "HASMSG", "HDREXT", "PAYLOAD", "CHUNKED",
              "CONTROL", "CLOSED"},                     \* nn_stcp.instate, nn_sws.instate
   outstate : {"NONE", "IDLE", "SENDING"},              \* nn_stcp.outstate
   h : {"IDLE", "SENDING", "RECEIVING", "CLIENT_SEND", "CLIENT_RECV",
        "SERVER_RECV", "SERVER_REPLY", "STOPPING_TIMER_ERROR",
        "STOPPING_TIMER_DONE", "DONE", "STOPPING"},
                                   \* nn_streamhdr.state, nn_ws_handshake.state
   hsock : BOOLEAN,                                     \* nn_streamhdr.usock is set
   room : 0 .. Room,                                    \* of nn_ws_handshake.response, opening_hs
   response : {"NULL", "OK", "REFUSED"},                \* nn_ws_handshake.response_code
   opcode : Opcodes, final : BOOLEAN,                   \* nn_sws.opcode, is_final_frame
   first : Opcodes,                                     \* nn_sws.inmsg_hdr
   continuing : BOOLEAN,                                \* nn_sws.continuing
   chunks : BOOLEAN,                                    \* nn_sws.inmsg_array is not empty
   peer_gone : BOOLEAN,                                 \* nn_cws.peer_gone
   pipe : {"IDLE", "ACTIVE", "FAILED"},                 \* nn_pipebase.state
   can : SUBSET {"IN", "OUT"},                          \* what the protocol was told it may do
   delayed : BOOLEAN,                                   \* nn_req.state is DELAYED
   inprogress : 0 .. 1,                                 \* NN_STAT_INPROGRESS_CONNECTIONS
   aborted : {"no", "bind", "cut", "status", "delayed", "other"}]
                                                        \* why an assertion failed

(* Every field has a value its type in the code allows; at most one        *)
(* attempt to connect is counted as being in progress.                     *)
TypeOK ==
  /\ kind \in Kinds
  /\ [f \in DOMAIN w \ {"tasks", "events"} |-> w[f]] \in World
  /\ w.tasks \in Seq(Tasks)                             \* nn_worker.tasks
  /\ w.events \in Seq({"C", "S", "H", "EP", "SOCK"} \X STRING \X STRING)   \* nn_ctx.events
  /\ batch \in Seq(Tasks)
  /\ inworker \in BOOLEAN /\ eager \in BOOLEAN

Init ==
  /\ kind \in Kinds
  /\ w = [sock |-> "ACTIVE", ep |-> "NEW", c |-> "IDLE", u |-> "IDLE", owner |-> "C",
          poll |-> {}, d |-> "IDLE", gai |-> "NONE", tm |-> [t \in Timers |-> "IDLE"],
          armed |-> {}, s |-> "IDLE", instate |-> "NONE", outstate |-> "NONE",
          h |-> "IDLE", hsock |-> FALSE, room |-> Room, response |-> "NULL",
          opcode |-> "DATA", final |-> FALSE, first |-> "DATA",
          continuing |-> FALSE, chunks |-> FALSE, peer_gone |-> FALSE, pipe |-> "IDLE", can |-> {}, delayed |-> FALSE,
          inprogress |-> 0, aborted |-> "no", tasks |-> <<>>, events |-> <<>>]
  /\ batch = <<>>
  /\ inworker = FALSE /\ eager = FALSE

-----------------------------------------------------------------------------
(* A failed assertion ends the program.  The cause is that of the first    *)
(* one that fails.                                                         *)
AbortBy(x, cause) == [x EXCEPT !.aborted = IF @ = "no" THEN cause ELSE @]
Abort(x) == AbortBy(x, "other")
nn_assert(x, holds) == IF holds THEN x ELSE Abort(x)

(* An event that comes too late because the protocol has sent from its     *)
(* handler of NN_PIPE_OUT, before events that were queued already.         *)
TooLate(x) == AbortBy(x, IF eager THEN "delayed" ELSE "other")

(* Events and tasks.  nn_queue_push asserts that the item is in no queue;  *)
(* an object uses one event for the ends of its work, another for each of  *)
(* the rest.                                                               *)
SameEvent(a, b) ==
  a = b \/ {a, b} \subseteq {"SHUTDOWN", "ERROR"} \/ {a, b} \subseteq {"OK", "ERROR", "CLOSE"}
Raised(x, src, type) == \E e \in ToSet(x.events) : e[2] = src /\ SameEvent(e[3], type)

(* nn_fsm_raise, nn_ctx_raise.                                             *)
Raise(x, to, src, type) ==
  [nn_assert(x, ~ Raised(x, src, type)) EXCEPT !.events = Append(@, <<to, src, type>>)]

(* nn_worker_execute.                                                      *)
Execute(x, task) ==
  [nn_assert(x, task \notin ToSet(x.tasks) \cup ToSet(batch))
     EXCEPT !.tasks = Append(@, task)]

(* nn_fsm_isidle: stopped, and the owner has been told.                    *)
Idle(x, state, src) == state = "IDLE" /\ ~ Raised(x, src, "STOPPED")

-----------------------------------------------------------------------------
(* Timers (aio/timer.c), as module Timer describes them.                   *)
nn_timer_start(x, t) ==
  [Execute(nn_assert(x, Idle(x, x.tm[t], t)), <<t, "start">>)
     EXCEPT !.tm[t] = "ACTIVE"]

nn_timer_stop(x, t) ==
  IF x.tm[t] = "ACTIVE" THEN [Execute(x, <<t, "stop">>) EXCEPT !.tm[t] = "STOPPING"] ELSE x

TimerOwner(t) == IF t = RETRY THEN "C" ELSE "H"

(* The resolver.  gai_cancel succeeds on a request that is still queued    *)
(* and no notification follows; it fails on one that is running or done,   *)
(* and then nn_dns_notify is still to come.                                *)
nn_dns_start(x, literal) ==
  IF x.d # "IDLE" THEN Abort(x)
  ELSE IF literal THEN Raise([x EXCEPT !.d = "DONE"], "C", "DNS", "DONE")
  ELSE [x EXCEPT !.d = "RESOLVING", !.gai = "QUEUED"]

nn_dns_stop(x) ==
  CASE x.d = "DONE" \/ (x.d = "RESOLVING" /\ x.gai = "QUEUED") ->
         Raise([x EXCEPT !.d = "IDLE", !.gai = "NONE"], "C", "DNS", "STOPPED")
    [] x.d = "RESOLVING" /\ x.gai # "QUEUED" -> [x EXCEPT !.d = "STOPPING"]
    [] OTHER -> x

-----------------------------------------------------------------------------
(* The OS socket.  It is still started when the last attempt could not     *)
(* bind it.                                                                *)
nn_usock_start(x) ==
  [IF x.u = "STARTING" THEN AbortBy(x, "bind") ELSE nn_assert(x, Idle(x, x.u, "USOCK"))
     EXCEPT !.u = "STARTING"]

nn_usock_async_stop(x) == Raise(Execute(x, <<"U", "stop">>), x.owner, "USOCK", "SHUTDOWN")

(* nn_usock_stop, and the NN_FSM_STOP branch of nn_usock_shutdown.         *)
nn_usock_stop(x) ==
  CASE x.u \in {"STARTING", "DONE"} -> Raise([x EXCEPT !.u = "IDLE"], x.owner, "USOCK", "STOPPED")
    [] x.u \in {"CONNECTING", "ACTIVE"} -> [nn_usock_async_stop(x) EXCEPT !.u = "STOPPING"]
    [] x.u = "REMOVING_FD" -> [x EXCEPT !.u = "STOPPING"]
    [] OTHER -> x

(* NN_USOCK_ACTION_ERROR in a socket that is not connecting.               *)
ActionError(x) ==
  CASE x.u = "ACTIVE" -> [nn_usock_async_stop(x) EXCEPT !.u = "REMOVING_FD"]
    [] x.u \in {"REMOVING_FD", "DONE", "STOPPING"} -> x
    [] OTHER -> Abort(x)

nn_usock_connect(x, rc) ==
  CASE rc = "ok" -> Raise(Execute([x EXCEPT !.u = "ACTIVE"], <<"U", "connected">>),
                          x.owner, "USOCK", "CONNECTED")
    [] rc = "reset" -> Raise([x EXCEPT !.u = "DONE"], x.owner, "USOCK", "ERROR")
    [] OTHER -> Execute([x EXCEPT !.u = "CONNECTING"], <<"U", "connecting">>)

nn_usock_send(x, rc) ==
  CASE x.u # "ACTIVE" \/ rc = "reset" -> ActionError(x)
    [] x.u = "ACTIVE" /\ rc = "ok" -> Raise(x, x.owner, "USOCK", "SENT")
    [] OTHER -> Execute(x, <<"U", "send">>)

(* The worker is not asked to wait for the rest of the data.               *)
nn_usock_recv_NotAsked(x, rc) ==
  CASE x.u # "ACTIVE" \/ rc = "reset" -> ActionError(x)
    [] x.u = "ACTIVE" /\ rc = "ok" -> Raise(x, x.owner, "USOCK", "RECEIVED")
    [] OTHER -> x

nn_usock_recv(x, rc) ==
  CASE x.u # "ACTIVE" \/ rc = "reset" -> ActionError(x)
    [] x.u = "ACTIVE" /\ rc = "ok" -> Raise(x, x.owner, "USOCK", "RECEIVED")
    [] OTHER -> Execute(x, <<"U", "recv">>)

(* nn_worker_rm_fd and nn_closefd.                                         *)
CloseFd(x, state) == [x EXCEPT !.u = state, !.poll = {}]

(* A task in the worker: nn_internal_tasks, then REMOVING_FD state of      *)
(* nn_usock_handler and STOPPING state of nn_usock_shutdown.               *)
UsockTask(x, task) ==
  CASE task = "send" -> [x EXCEPT !.poll = @ \cup {"OUT"}]
    [] task = "recv" -> [x EXCEPT !.poll = @ \cup {"IN"}]
    [] task = "connected" -> [x EXCEPT !.poll = {"ADDED"}]
    [] task = "connecting" -> [x EXCEPT !.poll = {"ADDED", "OUT"}]
    [] task = "stop" /\ x.u = "REMOVING_FD" ->
         Raise(CloseFd(x, "DONE"), x.owner, "USOCK", "ERROR")
    [] task = "stop" /\ x.u = "STOPPING" ->
         Raise(CloseFd(x, "IDLE"), x.owner, "USOCK", "STOPPED")
    [] OTHER -> Abort(x)

(* An event of the file descriptor: CONNECTING and ACTIVE states of        *)
(* nn_usock_handler; it is ignored while the descriptor is going.  rc is   *)
(* what SO_ERROR, sendmsg or recvmsg say.                                  *)
UsockFd(x, event, rc) ==
  CASE x.u \in {"REMOVING_FD", "DONE", "STOPPING"} -> x
    [] x.u \in {"CONNECTING", "ACTIVE"} /\ (event = "ERR" \/ rc = "reset") ->
         Raise(CloseFd(x, "DONE"), x.owner, "USOCK", "ERROR")
    [] x.u = "CONNECTING" /\ event = "OUT" /\ rc # "reset" ->
         Raise([x EXCEPT !.u = "ACTIVE", !.poll = @ \ {"OUT"}], x.owner, "USOCK", "CONNECTED")
    [] x.u = "ACTIVE" /\ event = "IN" /\ rc = "ok" ->
         Raise([x EXCEPT !.poll = @ \ {"IN"}], x.owner, "USOCK", "RECEIVED")
    [] x.u = "ACTIVE" /\ event = "OUT" /\ rc = "ok" ->
         Raise([x EXCEPT !.poll = @ \ {"OUT"}], x.owner, "USOCK", "SENT")
    [] x.u = "ACTIVE" /\ rc \notin {"ok", "reset"} -> x
    [] OTHER -> Abort(x)

-----------------------------------------------------------------------------
(* The pipe.                                                               *)
nn_pipebase_stop(x) == [x EXCEPT !.pipe = "IDLE", !.can = {}]
nn_pipebase_start(x) == Raise([x EXCEPT !.pipe = "ACTIVE"], "SOCK", "PIPE", "OUT")
nn_pipebase_received(x) == Raise(x, "SOCK", "PIPE", "IN")
nn_pipebase_sent(x) == Raise(x, "SOCK", "PIPE", "OUT")
=============================================================================
