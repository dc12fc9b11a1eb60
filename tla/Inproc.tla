------------------------------- MODULE Inproc -------------------------------
(***************************************************************************)
(* The in-process transport: the repository of addresses                   *)
(* (inproc/ins.c), a bound endpoint (binproc.c), a connected one           *)
(* (cinproc.c), each with a session per connection (sinproc.c), and the    *)
(* queue of messages a session has received (msgqueue.c).                  *)
(*                                                                         *)
(* The two endpoints belong to two sockets, hence to two contexts, and     *)
(* there is no worker: the sessions of a connection talk by external       *)
(* events (nn_ctx_raiseto), which the thread that leaves one context       *)
(* carries to the other, one after the other, entering it for each.  What  *)
(* is raised on the way is carried first (nn_ctx_leave calls itself).      *)
(* One stay in a context, with the internal events it ends with, is one    *)
(* step, and the calls of the application overlap between these steps as   *)
(* they like: nothing in the code keeps a call on one socket from starting *)
(* while a thread carries an event of the other.                           *)
(***************************************************************************)
EXTENDS Integers, Sequences, SequencesExt

CONSTANTS Threads,   \* of the application
          Rounds,    \* bound: connections made
          Messages,  \* bound: messages sent by the connecting end of a connection
          Replies,   \* bound: messages sent by the bound end
          MaxMem     \* NN_RCVBUF: the limit of a queue

Sides == {"B", "C"}   \* the bound endpoint and the connected one

ASSUME InprocAssumption ==
  /\ Rounds \in Nat /\ Messages \in Nat /\ Replies \in 0 .. Messages /\ MaxMem \in Nat

Other(side) == IF side = "B" THEN "C" ELSE "B"
Sessions == Sides \X (1 .. Rounds)
Peer(i) == <<Other(i[1]), i[2]>>
Size(m) == 1 + (m % 2)

VARIABLE w
vars == <<w>>

Session ==
  [st : {"NONE", "CONNECTING", "READY", "ACTIVE", "DISCONNECTED", "STOPPING_PEER", "STOPPING",
         "STOPPED"},     \* nn_sinproc.state; "NONE": no object; "STOPPED": its fsm is IDLE
   peer : BOOLEAN,                         \* nn_sinproc.peer is set
   sending : BOOLEAN, receiving : BOOLEAN, \* nn_sinproc.flags
   msg : 0 .. Messages,                    \* nn_sinproc.msg, 0 when empty
   pipe : {"IDLE", "ACTIVE", "FAILED"},    \* nn_pipebase.state
   in : BOOLEAN, out : BOOLEAN]            \* the protocol was told it may receive, send

(* An external event: the object it is, the session or endpoint it is for, *)
(* its type.                                                               *)
Names == {"connect", "sent", "received", "disconnect"}
Events == [obj : Sessions \X Names, to : Sides \X (0 .. Rounds) \X (0 .. Rounds),
           type : {"CONNECT", "READY", "ACCEPTED", "SENT", "RECEIVED", "DISCONNECT"}]

World ==
  [ep : [Sides -> {"NEW", "ACTIVE", "STOPPING", "FREED"}],  \* nn_binproc, nn_cinproc
   gen : [Sides -> 0 .. 2 * Rounds],       \* how many endpoints this side has had
   known : SUBSET Sides,                   \* nn_ins.bound and nn_ins.connected
   list : [Sides -> SUBSET (1 .. Rounds)], \* nn_binproc.sinprocs
   round : 0 .. Rounds,                    \* connections made so far
   s : [Sessions -> Session],
   queue : [Sessions -> Seq(1 .. Messages)],  \* nn_sinproc.msgqueue
   sent : [Sessions -> 0 .. Messages],     \* messages handed to the session so far
   got : [Sessions -> Seq(1 .. Messages)], \* messages taken from it
   eventsto : Seq(Events),                 \* nn_ctx.eventsto of the context entered
   th : [Threads -> [ev : BoundedSeq(Events, 1),  \* nn_ctx_leave: the event taken out,
                     q : Seq(Events)]],           \* and those that are still queued
   refusal : BOOLEAN,                \* the protocol refuses the pipe this stay starts
   hasty : SUBSET (1 .. Rounds),     \* history: connections a call did not wait for
   refused : SUBSET (1 .. Rounds),   \* history: connections with a refused pipe
   aborted : 0 .. Rounds]            \* the connection of which an assertion failed or a
                                     \* freed object was used

Fresh == [st |-> "NONE", peer |-> FALSE, sending |-> FALSE, receiving |-> FALSE, msg |-> 0,
          pipe |-> "IDLE", in |-> FALSE, out |-> FALSE]

Init ==
  w = [ep |-> [e \in Sides |-> "NEW"], gen |-> [e \in Sides |-> 0], known |-> {},
       list |-> [e \in Sides |-> {}], round |-> 0, s |-> [i \in Sessions |-> Fresh],
       queue |-> [i \in Sessions |-> <<>>], sent |-> [i \in Sessions |-> 0],
       got |-> [i \in Sessions |-> <<>>], eventsto |-> <<>>,
       th |-> [t \in Threads |-> [ev |-> <<>>, q |-> <<>>]], refusal |-> FALSE,
       hasty |-> {}, refused |-> {}, aborted |-> 0]

-----------------------------------------------------------------------------
Abort(x, i) == [x EXCEPT !.aborted = IF @ = 0 THEN i[2] ELSE @]
nn_assert(x, i, holds) == IF holds THEN x ELSE Abort(x, i)

(* nn_fsm_event_active.  An event that a thread took out of its queue is   *)
(* not active, though the thread may still wait for the context.           *)
Queued(x) == ToSet(x.eventsto) \cup UNION {ToSet(x.th[t].q) : t \in Threads}
Active(x, i, name) == \E e \in Queued(x) : e.obj = <<i, name>>

(* nn_fsm_raiseto.  An event object is in one queue at most.               *)
RaiseTo(x, i, name, to, type) ==
  [nn_assert(x, i, ~ Active(x, i, name))
     EXCEPT !.eventsto = Append(@, [obj |-> <<i, name>>, to |-> to, type |-> type])]

ToSession(i) == <<i[1], 0, i[2]>>
ToEndpoint(x, side) == <<side, x.gen[side], 0>>

(* The protocol may refuse a pipe (a PAIR that has a peer): its state is   *)
(* then FAILED, and nn_pipebase_stop makes it IDLE again.                  *)
nn_pipebase_start(x, i) ==
  LET y == nn_assert(x, i, x.s[i].pipe = "IDLE")
  IN IF x.refusal THEN [y EXCEPT !.s[i].pipe = "FAILED", !.refused = @ \cup {i[2]}]
     ELSE [y EXCEPT !.s[i].pipe = "ACTIVE", !.s[i].out = TRUE, !.s[i].in = FALSE]
nn_pipebase_stop(x, i) ==
  [x EXCEPT !.s[i].pipe = "IDLE", !.s[i].out = FALSE, !.s[i].in = FALSE]

(* The queue of messages.  One message of any size fits; more than one     *)
(* only within the limit.                                                  *)
Mem(x, i) == FoldSeq(LAMBDA m, n : Size(m) + n, 0, x.queue[i])
nn_msgqueue_send(x, i, m) ==
  IF x.queue[i] # <<>> /\ Mem(x, i) + Size(m) >= MaxMem THEN x
  ELSE [x EXCEPT !.queue[i] = Append(@, m)]
nn_msgqueue_recv(x, i) ==
  [x EXCEPT !.queue[i] = Tail(@), !.got[i] = Append(@, Head(x.queue[i]))]

-----------------------------------------------------------------------------
(* The session.                                                            *)
nn_sinproc_connect(x, i, to) ==
  RaiseTo([x EXCEPT !.s[i] = [Fresh EXCEPT !.st = "CONNECTING"]], i, "connect", to, "CONNECT")

nn_sinproc_accept(x, i) ==
  RaiseTo([x EXCEPT !.s[i] = [Fresh EXCEPT !.st = "READY", !.peer = TRUE]],
          i, "connect", ToSession(Peer(i)), "READY")

nn_sinproc_send(x, i, m) ==
  RaiseTo([nn_assert(x, i, x.s[i].st = "ACTIVE" /\ ~ x.s[i].sending)
             EXCEPT !.s[i].msg = m, !.s[i].sending = TRUE, !.s[i].out = FALSE, !.sent[i] = m],
          Peer(i), "sent", ToSession(Peer(i)), "SENT")

(* The message that waits in the other session is moved to the queue, if   *)
(* there is room now.                                                      *)
MoveMessage(x, i) ==
  LET y == nn_msgqueue_send(x, i, x.s[Peer(i)].msg)
  IN IF y = x THEN x
     ELSE RaiseTo([y EXCEPT !.s[Peer(i)].msg = 0, !.s[i].receiving = FALSE],
                  Peer(i), "received", ToSession(Peer(i)), "RECEIVED")

nn_sinproc_recv(x, i) ==
  LET y == nn_msgqueue_recv(nn_assert(x, i, x.s[i].st \in {"ACTIVE", "DISCONNECTED"}), i)
      z == IF x.s[i].st # "DISCONNECTED" /\ x.s[i].receiving THEN MoveMessage(y, i) ELSE y
  IN [z EXCEPT !.s[i].in = (z.queue[i] # <<>>)]

(* nn_sinproc_term.                                                        *)
nn_sinproc_term(x, i) ==
  [nn_assert(x, i, x.s[i].pipe = "IDLE" /\ \A name \in Names : ~ Active(x, i, name))
     EXCEPT !.s[i] = Fresh, !.queue[i] = <<>>, !.sent[i] = 0, !.got[i] = <<>>,
            !.list[i[1]] = @ \ {i[2]}]

(* The end of nn_sinproc_shutdown: when the peer knows, and no event of    *)
(* this session is on its way, it is stopped.                              *)
Stopped(x, i) ==
  CASE x.s[i].st # "STOPPING" \/ Active(x, i, "received") \/ Active(x, i, "disconnect") -> x
    [] OTHER -> nn_assert([x EXCEPT !.s[i].st = "STOPPED"], i,
                            ~ Active(x, i, "connect") /\ ~ Active(x, i, "sent"))

(* NN_FSM_STOP.  A session with a peer says good-bye and waits.            *)
nn_sinproc_stop(x, i) ==
  CASE x.s[i].st \in {"STOPPING_PEER", "STOPPING", "STOPPED"} -> x
    [] x.s[i].st = "DISCONNECTED" -> Stopped([x EXCEPT !.s[i].st = "STOPPING"], i)
    [] x.s[i].st \in {"CONNECTING", "READY", "ACTIVE"} /\ ~ x.s[i].peer -> Abort(x, i)
    [] OTHER -> RaiseTo([nn_pipebase_stop(x, i) EXCEPT !.s[i].st = "STOPPING_PEER"],
                        Peer(i), "disconnect", ToSession(Peer(i)), "DISCONNECT")

(* nn_sinproc_shutdown_events and nn_sinproc_shutdown, for an event of the *)
(* peer.                                                                   *)
nn_sinproc_shutdown(x, i, type) ==
  CASE type = "RECEIVED" -> Stopped(x, i)
    [] type # "RECEIVED" /\ x.s[i].st = "STOPPING_PEER" ->
         Stopped([x EXCEPT !.s[i].st = IF type = "DISCONNECT" THEN "STOPPING" ELSE @], i)
    [] OTHER -> Abort(x, i)

(* A refused message is not remembered.                                    *)
Sent_Forget(x, i) ==
  LET y == nn_msgqueue_send(x, i, x.s[Peer(i)].msg)
  IN IF y = x THEN x
     ELSE RaiseTo([y EXCEPT !.s[Peer(i)].msg = 0, !.s[i].in = TRUE],
                  Peer(i), "received", ToSession(Peer(i)), "RECEIVED")

(* A refused message is dropped.                                           *)
Sent_Drop(x, i) ==
  LET y == nn_msgqueue_send(x, i, x.s[Peer(i)].msg)
  IN RaiseTo([y EXCEPT !.s[Peer(i)].msg = 0, !.s[i].in = TRUE],
             Peer(i), "received", ToSession(Peer(i)), "RECEIVED")

(* NN_SINPROC_SENT: the message of the peer is moved to the queue, or      *)
(* stays where it is until there is room.                                  *)
Sent(x, i) ==
  LET y == nn_msgqueue_send(x, i, x.s[Peer(i)].msg)
  IN IF y = x THEN [x EXCEPT !.s[i].receiving = TRUE]
     ELSE RaiseTo([y EXCEPT !.s[Peer(i)].msg = 0, !.s[i].in = TRUE],
                  Peer(i), "received", ToSession(Peer(i)), "RECEIVED")

(* The answer to a good-bye is forgotten.                                  *)
Disconnect_NoAnswer(x, i) ==
  LET y == [nn_pipebase_stop(x, i) EXCEPT !.s[i].st = "DISCONNECTED", !.s[i].peer = FALSE]
  IN IF i[1] = "B" /\ x.ep["B"] = "ACTIVE" THEN nn_sinproc_stop(y, i) ELSE y

(* NN_SINPROC_DISCONNECT: the peer is answered, and a bound endpoint stops *)
(* the session when it is told (a connected one only counts).              *)
Disconnect(x, i) ==
  LET y == RaiseTo([nn_pipebase_stop(x, i) EXCEPT !.s[i].st = "DISCONNECTED", !.s[i].peer = FALSE],
                   Peer(i), "disconnect", ToSession(Peer(i)), "DISCONNECT")
  IN IF i[1] = "B" /\ x.ep["B"] = "ACTIVE" THEN nn_sinproc_stop(y, i) ELSE y

(* NN_SINPROC_ACCEPTED.  A session whose pipe is refused is as good as     *)
(* disconnected; its peer is not told.                                     *)
Accepted(x, i) ==
  LET y == nn_pipebase_start(x, i)
      z == [nn_pipebase_stop(y, i) EXCEPT !.s[i].st = "DISCONNECTED", !.s[i].peer = FALSE]
  IN IF y.s[i].pipe # "FAILED" THEN [y EXCEPT !.s[i].st = "ACTIVE"]
     ELSE IF i[1] = "B" /\ x.ep["B"] = "ACTIVE" THEN nn_sinproc_stop(z, i) ELSE z

(* NN_SINPROC_READY: to the other handlers a refused pipe is a failed      *)
(* assertion.                                                              *)
Ready(x, i) ==
  LET y == nn_pipebase_start(x, i)
  IN nn_assert([y EXCEPT !.s[i].peer = TRUE, !.s[i].st = "ACTIVE"], i, y.s[i].pipe # "FAILED")

nn_sinproc_handler(x, i, type) ==
  LET st == x.s[i].st
  IN CASE st = "CONNECTING" /\ type = "READY" ->
            RaiseTo(Ready(x, i), i, "connect", ToSession(Peer(i)), "ACCEPTED")
       [] st = "READY" /\ type = "READY" -> Ready(x, i)
       [] st = "READY" /\ type = "ACCEPTED" -> Accepted(x, i)
       [] st = "ACTIVE" /\ type = "SENT" -> Sent(x, i)
       [] st = "ACTIVE" /\ type = "RECEIVED" ->
            nn_assert([x EXCEPT !.s[i].out = TRUE, !.s[i].sending = FALSE], i, x.s[i].sending)
       [] st = "ACTIVE" /\ type = "DISCONNECT" -> Disconnect(x, i)
       [] st = "DISCONNECTED" /\ type = "RECEIVED" -> x
       [] st \in {"STOPPING_PEER", "STOPPING"} -> nn_sinproc_shutdown(x, i, type)
       [] OTHER -> Abort(x, i)

-----------------------------------------------------------------------------
(* The endpoints and the repository.  nn_ins_bind and nn_ins_connect find  *)
(* the other endpoint of the address, if it is there, and call back; the   *)
(* repository has its own lock.                                            *)
nn_binproc_connect(x) ==
  nn_sinproc_connect([x EXCEPT !.list["B"] = @ \cup {x.round}],
                     <<"B", x.round>>, ToEndpoint(x, "C"))
nn_cinproc_connect(x) ==
  nn_sinproc_connect([x EXCEPT !.list["C"] = @ \cup {x.round}],
                     <<"C", x.round>>, ToEndpoint(x, "B"))

nn_ins_bind(x) ==
  LET y == [x EXCEPT !.known = @ \cup {"B"}]
  IN IF "C" \in x.known THEN nn_binproc_connect([y EXCEPT !.round = @ + 1]) ELSE y
nn_ins_connect(x) ==
  LET y == [x EXCEPT !.known = @ \cup {"C"}]
  IN IF "B" \in x.known THEN nn_cinproc_connect([y EXCEPT !.round = @ + 1]) ELSE y
nn_ins_unbind(x) == [x EXCEPT !.known = @ \ {"B"}]
(* A closed endpoint stays in the repository.                              *)
nn_ins_disconnect_Kept(x) == x
nn_ins_disconnect(x) == [x EXCEPT !.known = @ \ {"C"}]

(* NN_SINPROC_CONNECT: a session for the other end.                        *)
Accept(x, side, r) ==
  IF x.ep[side] # "ACTIVE" THEN Abort(x, <<side, r>>)
  ELSE nn_sinproc_accept([x EXCEPT !.list[side] = @ \cup {r}], <<side, r>>)
nn_binproc_handler(x, r) == Accept(x, "B", r)
nn_cinproc_handler(x, r) == Accept(x, "C", r)

(* NN_SINPROC_STOPPED, delivered at the end of the stay: the session is    *)
(* freed.  An endpoint that stops is stopped when it has no session left   *)
(* (nn_ep_stopped: the socket destroys it).                                *)
Finish(x, side) ==
  IF x.ep[side] = "STOPPING" /\ x.list[side] = {} THEN [x EXCEPT !.ep[side] = "FREED"] ELSE x
Settle(x, side) ==
  LET stopped == {r \in x.list[side] : x.s[<<side, r>>].st = "STOPPED"}
      Term(y, r) == nn_sinproc_term(y, <<side, r>>)
  IN Finish(FoldSeq(LAMBDA r, y : Term(y, r), x, SetToSeq(stopped)), side)

(* NN_FSM_STOP of an endpoint.                                             *)
StopSessions(x, side) ==
  FoldSeq(LAMBDA r, y : nn_sinproc_stop(y, <<side, r>>), [x EXCEPT !.ep[side] = "STOPPING"],
          SetToSeq(x.list[side]))
nn_binproc_shutdown(x) == StopSessions(nn_ins_unbind(x), "B")
nn_cinproc_shutdown(x) == StopSessions(nn_ins_disconnect(x), "C")

-----------------------------------------------------------------------------
(* nn_ctx_leave: what the stay raised for other contexts is carried first. *)
(* The next event is taken out of its queue as soon as the context is      *)
(* left; the context it is for is entered in another step.                 *)
Leave(x, t) ==
  LET q == x.eventsto \o x.th[t].q
  IN [x EXCEPT !.eventsto = <<>>, !.refusal = FALSE,
               !.th[t] = IF q = <<>> THEN [ev |-> <<>>, q |-> <<>>]
                         ELSE [ev |-> <<Head(q)>>, q |-> Tail(q)]]

(* A thread calls when it is done with its last call.                      *)
Idle(t) == w.th[t].ev = <<>>
May(t) == w.aborted = 0 /\ Idle(t)

(* What a call does not wait for: a stop, for the events of a handshake or *)
(* of a message that are on their way; a message, for those of the         *)
(* handshake or of the good-bye of its connection.                         *)
OnTheWay(types) ==
  {e.obj[1][2] : e \in {e \in UNION {ToSet(w.th[t].ev \o w.th[t].q) : t \in Threads} :
                            e.type \in types}}
Handshake == {"CONNECT", "READY", "ACCEPTED"}
HastyStop(x) == [x EXCEPT !.hasty = @ \cup OnTheWay(Handshake \cup {"SENT", "RECEIVED"})]
HastyMessage(x, i) ==
  [x EXCEPT !.hasty = @ \cup (OnTheWay(Handshake \cup {"DISCONNECT"}) \cap {i[2]})]

Create(x, side) == [x EXCEPT !.ep[side] = "ACTIVE", !.gen[side] = @ + 1]
MayCreate(t, side) ==
  /\ May(t) /\ w.ep[side] \in {"NEW", "FREED"}
  /\ w.gen[side] < Rounds /\ (Other(side) \in w.known => w.round < Rounds)
nn_binproc_create(t) ==
  MayCreate(t, "B") /\ w' = Leave(nn_ins_bind(Create(w, "B")), t)
nn_cinproc_create(t) ==
  MayCreate(t, "C") /\ w' = Leave(nn_ins_connect(Create(w, "C")), t)

nn_binproc_stop(t) ==
  /\ May(t) /\ w.ep["B"] = "ACTIVE"
  /\ w' = Leave(Settle(nn_binproc_shutdown(HastyStop(w)), "B"), t)
nn_cinproc_stop(t) ==
  /\ May(t) /\ w.ep["C"] = "ACTIVE"
  /\ w' = Leave(Settle(nn_cinproc_shutdown(HastyStop(w)), "C"), t)

(* nn_send and nn_recv, on a pipe the protocol may use.                    *)
Send(t, i) ==
  /\ May(t) /\ w.s[i].out /\ w.sent[i] < (IF i[1] = "C" THEN Messages ELSE Replies)
  /\ w' = Leave(nn_sinproc_send(HastyMessage(w, i), i, w.sent[i] + 1), t)
Recv(t, i) ==
  /\ May(t) /\ w.s[i].in
  /\ w' = Leave(nn_sinproc_recv(HastyMessage(w, i), i), t)

(* The thread enters the context the event is for.  The protocol may       *)
(* refuse the pipe that the event starts.                                  *)
nn_fsm_event_process(x, e) ==
  LET side == e.to[1]  i == <<side, e.to[3]>>
  IN IF e.type = "CONNECT"
     THEN IF x.gen[side] # e.to[2] THEN Abort(x, e.obj[1])
          ELSE IF side = "B" THEN nn_binproc_handler(x, e.obj[1][2])
          ELSE nn_cinproc_handler(x, e.obj[1][2])
     ELSE IF x.s[i].st = "NONE" THEN Abort(x, i)
     ELSE Settle(nn_sinproc_handler(x, i, e.type), side)
Carries(t) == w.aborted = 0 /\ ~ Idle(t)
nn_ctx_leave(t) ==
  /\ Carries(t)
  /\ \E refusal \in BOOLEAN :
        w' = Leave(nn_fsm_event_process([w EXCEPT !.th[t].ev = <<>>, !.refusal = refusal],
                                        Head(w.th[t].ev)), t)

Next ==
  \E t \in Threads :
     \/ nn_binproc_create(t) \/ nn_cinproc_create(t) \/ nn_binproc_stop(t) \/ nn_cinproc_stop(t)
     \/ nn_ctx_leave(t) \/ \E i \in Sessions : Send(t, i) \/ Recv(t, i)

Spec == Init /\ [][Next]_vars

(* A thread goes on with what it carries: weak fairness of nn_ctx_leave,   *)
(* whose guard is written out since it is all that enables it.             *)
FairSpec == Spec /\ \A t \in Threads : []<> ~ Carries(t) \/ []<> <<nn_ctx_leave(t)>>_vars

-----------------------------------------------------------------------------
(* Properties.                                                             *)
TypeOK == w \in World

(* An assertion of the transport fails, or an event reaches an object that *)
(* is gone or does not expect it (sinproc.c:301, nn_fsm_bad_action), only  *)
(* for a connection whose pipe a protocol refused, or that a call did not  *)
(* wait for: an end was stopped while an event of the handshake or of a    *)
(* message was on its way, or a message sent or received while one of the  *)
(* handshake or of the good-bye was.  Both ends stopping at once, messages *)
(* both ways and endpoints that come back are safe.                        *)
NoAssertionFails == w.aborted # 0 => w.aborted \in w.hasty \cup w.refused

(* While a connection lasts no message is lost, doubled or reordered: what *)
(* one end was given is what the other end handed out, holds in its queue, *)
(* or has yet to take from the session that sends it (sinproc.c:167, 193,  *)
(* 435).                                                                   *)
NoMessageLost ==
  \A i \in Sessions :
     w.aborted = 0 /\ w.s[i].st = "ACTIVE" /\ w.s[Peer(i)].st = "ACTIVE" =>
        w.got[Peer(i)] \o w.queue[Peer(i)] \o (IF w.s[i].msg = 0 THEN <<>> ELSE <<w.s[i].msg>>)
          = [n \in 1 .. w.sent[i] |-> n]

Quiet == w.aborted = 0 /\ \A t \in Threads : Idle(t)

(* No wake-up is lost: between established ends with nothing on its way, a *)
(* session that may not send has its message waiting before a queue that   *)
(* is not empty, and a session with messages has told its protocol.        *)
NoLostWakeup ==
  \A i \in Sessions :
     Quiet /\ w.s[i].st = "ACTIVE" /\ w.s[Peer(i)].st = "ACTIVE"
     => /\ w.s[i].out \/ (w.s[Peer(i)].receiving /\ w.queue[Peer(i)] # <<>>)
        /\ w.s[i].in <=> w.queue[i] # <<>>

(* Two endpoints of one address have exactly one connection once no call   *)
(* is under way, however often either was closed and opened again and      *)
(* whatever overlapped (none, if a pipe of the last one was refused), and  *)
(* an endpoint that is gone has no session.                                *)
OneConnection ==
  Quiet =>
     /\ {i \in Sessions : w.s[i].st = "ACTIVE" /\ w.s[Peer(i)].st = "ACTIVE"} =
          IF w.ep = [e \in Sides |-> "ACTIVE"] /\ w.round \notin w.refused
          THEN Sides \X {w.round} ELSE {}
     /\ \A i \in Sessions : w.s[i].st # "NONE" => w.ep[i[1]] = "ACTIVE"

(* Assertions fail, and events reach objects that are gone, only by a      *)
(* refused pipe or a call that did not wait, and two endpoints of one      *)
(* address that are left alone have one connection.                        *)
Sound == TypeOK /\ NoAssertionFails /\ OneConnection

(* An endpoint that is asked to stop is stopped in the end, unless an      *)
(* assertion fails: also when both ends stop at once and each waits for    *)
(* the other's good-bye, and when messages are still on their way.         *)
StopCompletes ==
  \A side \in Sides : (w.ep[side] = "STOPPING") ~> (w.ep[side] = "FREED" \/ w.aborted # 0)
=============================================================================
