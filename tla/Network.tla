------------------------------ MODULE Network -------------------------------
(***************************************************************************)
(* Sockets of one pattern around a device (devices/device.c): the sources  *)
(* are connected to the front socket of the device, the sinks to its back  *)
(* socket.  The full sockets of the request/reply, survey and bus patterns *)
(* (rep.c, respondent.c, surveyor.c, bus.c) are built on the raw ones of   *)
(* module Raw; for the other patterns they are the raw ones.  (The full    *)
(* REQ socket is module Req; here the sources are raw XREQ sockets whose   *)
(* application numbers its requests itself.)                               *)
(*                                                                         *)
(* A step is a call of an application, half a step of a forwarder thread   *)
(* of the device, an event of a pipe or of a timer.  Connections come and  *)
(* go with whatever is under way on them.                                  *)
(***************************************************************************)
EXTENDS Raw

CONSTANTS Topics,      \* what messages are about
          Networks,    \* the networks, see NetworkAssumption
          Room         \* bound: messages under way on a connection

(* A network has a pattern and the pairs of nodes that get connected.  Its *)
(* bounds: how many connections are made in all, how many messages are     *)
(* sent by sources, and by sinks unasked (BUS, PAIR).                      *)
ASSUME NetworkAssumption ==
  /\ Room \in Nat
  /\ \A k \in Networks :
       /\ k.pattern \in {"reqrep", "survey", "bus", "loop", "pair", "pipeline", "pubsub"}
       /\ k.links \subseteq (Sources \X {"f"}) \cup ({"b"} \X Sinks)
       /\ k.connects \in Nat /\ k.sends \in Nat /\ k.answers \in Nat

VARIABLES net, w
vars == <<net, w>>
pattern == net.pattern
Pipes == net.links \cup {<<l[2], l[1]>> : l \in net.links}   \* seen from both ends
Users == {l[1] : l \in Pipes}

(* The socket types of sources, device and sinks.                          *)
Types ==
  [reqrep   |-> <<"xreq", "xrep", "xreq", "rep">>,
   survey   |-> <<"surveyor", "xrespondent", "xsurveyor", "respondent">>,
   bus      |-> <<"bus", "xbus", "xbus", "bus">>,
   loop     |-> <<"bus", "xbus", "none", "none">>,
   pair     |-> <<"xpair", "xpair", "xpair", "xpair">>,
   pipeline |-> <<"xpush", "xpull", "xpush", "xpull">>,
   pubsub   |-> <<"xpub", "xsub", "xpub", "xsub">>]

type(n) == Types[pattern][IF n \in Sources THEN 1 ELSE IF n = "f" THEN 2
                          ELSE IF n = "b" THEN 3 ELSE 4]

(* What nn_device looks at: is a socket raw, which sockets are of the same *)
(* protocol, which have NN_RCVFD and NN_SNDFD.                             *)
Families == {{"xreq", "xrep", "rep"}, {"surveyor", "xsurveyor", "xrespondent", "respondent"},
             {"bus", "xbus"}, {"xpair"}, {"xpush", "xpull"}, {"xpub", "xsub"}}
IsRaw(s) == s \notin {"none", "rep", "surveyor", "respondent", "bus"}
RcvFd(s) == s \notin {"xpush", "xpub"}
SndFd(s) == s \notin {"xpull", "xsub"}
Fit(s1, s2) ==
  /\ IsRaw(s1) /\ IsRaw(s2) /\ \E F \in Families : {s1, s2} \subseteq F
  /\ RcvFd(s1) = SndFd(s2) /\ SndFd(s1) = RcvFd(s2)

(* The forwarders of a device: back to the only socket, or one for each    *)
(* way in which messages may go.  Sockets that do not fit are refused.     *)
nn_device_loopback(s, n) == IF IsRaw(s) THEN {<<n, n>>} ELSE {}
nn_device_entry(s1, s2) ==
  IF s2 = "none" THEN nn_device_loopback(s1, "f")
  ELSE IF s1 = "none" THEN nn_device_loopback(s2, "b")
  ELSE {d \in {<<"f", "b">>, <<"b", "f">>} :
          Fit(s1, s2) /\ RcvFd(IF d[1] = "f" THEN s1 ELSE s2)}
Forwarders == nn_device_entry(type("f"), type("b"))

(* "This should never happen": two sockets that fit have a way to go.      *)
ASSUME DeviceAssumption ==
  \A s1, s2 \in UNION Families : Fit(s1, s2) => nn_device_entry(s1, s2) # {}

(* nn_surveyor_init and the start of its state machine; the timer is the   *)
(* one TimerAbs describes.                                                 *)
Surveyor == [state |-> "PASSIVE", surveyid |-> 0, timer |-> "IDLE", timedout |-> FALSE,
             asked |-> 0]   \* the last survey sent

(* A message: who sent it, its number, its topic (which matters to SUB     *)
(* sockets only) and, if it is an answer, who answers.                     *)
Nothing == [none |-> TRUE]
Plain == CHOOSE t \in Topics : TRUE
Body(n, k, t) == [from |-> n, n |-> k, topic |-> t, by |-> "nobody"]

Init ==
  /\ net \in Networks
  /\ w = [sock |-> [n \in Nodes |-> NewSocket],
          chan |-> [l \in Pipes |-> <<>>],
          instate |-> [l \in Pipes |-> "NONE"],    \* nn_pipebase.instate
          outstate |-> [l \in Pipes |-> "NONE"],   \* nn_pipebase.outstate
          links |-> 0,                                \* connections made so far
          topics |-> [n \in Nodes |-> IF n \in Sinks THEN {Plain} ELSE Topics],
          hand |-> [d \in Forwarders |-> Nothing],    \* nn_device_mvmsg between its calls
          surveyor |-> [n \in Sources |-> Surveyor],
          sent |-> [n \in Nodes |-> 0],               \* messages sent so far
          request |-> [n \in Sinks |-> Nothing],      \* what the application is to answer
          got |-> [n \in Nodes |-> {}],               \* what applications have received
          twice |-> FALSE,                            \* one of them more than once
          closed |-> {},                              \* sockets that are being closed
          cut |-> FALSE,                              \* a connection was lost or refused
          aborted |-> FALSE]                          \* an assertion failed

(* A connection is there as long as one of its ends has a pipe.            *)
Up(l) == l[2] \in w.sock[l[1]].pipes \/ l[1] \in w.sock[l[2]].pipes

-----------------------------------------------------------------------------
(* What a socket does with its pipes (nn_sockbase_vfptr).                  *)
Refuses(x, n, p) == type(n) = "xpair" /\ nn_xpair_add(x, n, p) = EISCONN
Add(x, n, p) ==
  LET y == CASE type(n) = "xpair" -> nn_xpair_add(x, n, p)
             [] type(n) = "xpush" -> nn_xpush_add(x, n, p)
             [] type(n) = "xpull" -> nn_xpull_add(x, n, p)
             [] type(n) = "xpub" -> nn_xpub_add(x, n, p)
             [] type(n) = "xsub" -> nn_xsub_add(x, n, p)
             [] type(n) \in {"bus", "xbus"} -> nn_xbus_add(x, n, p)
             [] type(n) = "xreq" -> nn_xreq_add(x, n, p)
             [] type(n) \in {"surveyor", "xsurveyor"} -> nn_xsurveyor_add(x, n, p)
             [] type(n) \in {"xrep", "rep"} -> nn_xrep_add(x, n, p)
             [] OTHER -> nn_xrespondent_add(x, n, p)
  IN [y EXCEPT !.instate[n, p] = "ASYNC", !.outstate[n, p] = "IDLE"]

Rm(x, n, p) ==
  LET y == CASE type(n) = "xpair" -> nn_xpair_rm(x, n)
             [] type(n) = "xpush" -> nn_xpush_rm(x, n, p)
             [] type(n) = "xpull" -> nn_xpull_rm(x, n, p)
             [] type(n) = "xpub" -> nn_xpub_rm(x, n, p)
             [] type(n) = "xsub" -> nn_xsub_rm(x, n, p)
             [] type(n) \in {"bus", "xbus"} -> nn_xbus_rm(x, n, p)
             [] type(n) = "xreq" -> nn_xreq_rm(x, n, p)
             [] type(n) \in {"surveyor", "xsurveyor"} -> nn_xsurveyor_rm(x, n, p)
             [] type(n) \in {"xrep", "rep"} -> nn_xrep_rm(x, n, p)
             [] OTHER -> nn_xrespondent_rm(x, n, p)
  IN [y EXCEPT !.sock[n].pipes = @ \ {p}, !.instate[n, p] = "NONE", !.outstate[n, p] = "NONE",
               !.chan[n, p] = <<>>]

In(x, n, p) ==
  CASE type(n) = "xpair" -> nn_xpair_in(x, n, p)
    [] type(n) = "xpush" -> nn_xpush_in(x, n, p)
    [] type(n) = "xpull" -> nn_xpull_in(x, n, p)
    [] type(n) = "xpub" -> nn_xpub_in(x, n, p)
    [] type(n) = "xsub" -> nn_xsub_in(x, n, p)
    [] type(n) \in {"bus", "xbus"} -> nn_xbus_in(x, n, p)
    [] type(n) = "xreq" -> nn_xreq_in(x, n, p)
    [] type(n) \in {"surveyor", "xsurveyor"} -> nn_xsurveyor_in(x, n, p)
    [] type(n) \in {"xrep", "rep"} -> nn_xrep_in(x, n, p)
    [] OTHER -> nn_xrespondent_in(x, n, p)

Out(x, n, p) ==
  CASE type(n) = "xpair" -> nn_xpair_out(x, n, p)
    [] type(n) = "xpush" -> nn_xpush_out(x, n, p)
    [] type(n) = "xpull" -> nn_xpull_out(x, n, p)
    [] type(n) = "xsub" -> nn_xsub_out(x, n, p)
    [] type(n) = "xpub" -> nn_xpub_out(x, n, p)
    [] type(n) \in {"bus", "xbus"} -> nn_xbus_out(x, n, p)
    [] type(n) = "xreq" -> nn_xreq_out(x, n, p)
    [] type(n) \in {"surveyor", "xsurveyor"} -> nn_xsurveyor_out(x, n, p)
    [] type(n) \in {"xrep", "rep"} -> nn_xrep_out(x, n, p)
    [] OTHER -> nn_xrespondent_out(x, n, p)
-----------------------------------------------------------------------------
(* REP and RESPONDENT.  To receive is to give up the request that is being *)
(* processed, even if there is no other one.                               *)
GiveUp(x, n) == [x EXCEPT !.sock[n].backtrace = <<>>, !.request[n] = Nothing]
KeepBacktrace(r, n) ==
  IF r.msg = EAGAIN THEN r
  ELSE [r EXCEPT !.w.sock[n].backtrace = r.msg.hdr, !.w.request[n] = r.msg.body, !.msg.hdr = <<>>]
Nobody(x) == {[w |-> x, msg |-> EAGAIN, pipe |-> "none"]}

nn_rep_events(x, n) ==
  nn_xrep_events(x, n) \ (IF x.sock[n].backtrace = <<>> THEN {"OUT"} ELSE {})
nn_rep_recv(x, n) ==
  LET y == GiveUp(x, n)
  IN IF y.sock[n].in = {} THEN Nobody(y) ELSE {KeepBacktrace(r, n) : r \in nn_xrep_recv(y, n)}
nn_rep_send(x, n, m) ==
  nn_xrep_send(Abort(GiveUp(x, n), m.hdr # <<>>), n,
               Msg(x.sock[n].backtrace, m.words, m.body))

nn_respondent_events(x, n) ==
  nn_xrespondent_events(x, n) \ (IF x.sock[n].backtrace = <<>> THEN {"OUT"} ELSE {})
nn_respondent_recv(x, n) ==
  LET y == GiveUp(x, n)
  IN IF y.sock[n].in = {} THEN Nobody(y)
     ELSE {KeepBacktrace(r, n) : r \in nn_xrespondent_recv(y, n)}
nn_respondent_send(x, n, m) ==
  nn_xrespondent_send(Abort(GiveUp(x, n), m.hdr # <<>>), n,
                      Msg(x.sock[n].backtrace, m.words, m.body))

-----------------------------------------------------------------------------
(* SURVEYOR.                                                               *)
nn_surveyor_inprogress(x, n) ==
  x.surveyor[n].state \notin {"IDLE", "PASSIVE", "STOPPING"}

(* Without a survey nn_recv does not block, to report that it has ended.   *)
nn_surveyor_events(x, n) ==
  nn_xsurveyor_events(x, n) \cup (IF nn_surveyor_inprogress(x, n) THEN {} ELSE {"IN"})

(* nn_surveyor.tosend is always the survey of the current number.          *)
Survey(n, id) == Msg(<<-id>>, <<>>, Body(n, id, Plain))
nn_surveyor_resend(x, n) == nn_xsurveyor_send(x, n, Survey(n, x.surveyor[n].surveyid))

nn_timer_start(x, n) ==
  Abort([x EXCEPT !.surveyor[n].timer = "ACTIVE"], x.surveyor[n].timer # "IDLE")
nn_timer_stop(x, n) ==
  [x EXCEPT !.surveyor[n].timer = IF @ = "IDLE" THEN "IDLE" ELSE "STOPPING"]

StartSurvey(x, n) ==
  {[nn_timer_start(y, n) EXCEPT !.surveyor[n].state = "ACTIVE",
                                !.surveyor[n].asked = x.surveyor[n].surveyid]
     : y \in nn_surveyor_resend(x, n)}

(* A survey that is going on is cancelled first: the new one is sent when  *)
(* the timer of the old one has stopped.                                   *)
Cancel(x, n) ==
  IF x.surveyor[n].state = "ACTIVE"
  THEN [nn_timer_stop(x, n) EXCEPT !.surveyor[n].state = "CANCELLING"]
  ELSE [x EXCEPT !.surveyor[n].state = "CANCELLING"]

nn_surveyor_send(x, n) ==
  LET y == [x EXCEPT !.surveyor[n].surveyid = @ + 1]
  IN IF nn_surveyor_inprogress(x, n) THEN {Cancel(y, n)} ELSE StartSurvey(y, n)

(* nn_surveyor_recv: responses to other surveys are skipped.  Without a    *)
(* survey it fails, with ETIMEDOUT once after a survey has expired.        *)
RECURSIVE nn_surveyor_recv(_, _)
nn_surveyor_recv(x, n) ==
  IF ~ nn_surveyor_inprogress(x, n) THEN Nobody([x EXCEPT !.surveyor[n].timedout = FALSE])
  ELSE IF x.sock[n].in = {} THEN {}
  ELSE UNION {IF r.msg = EAGAIN THEN {r}
              ELSE IF r.msg.hdr = <<-x.surveyor[n].surveyid>>
              THEN {Result(r, Msg(<<>>, r.msg.words, r.msg.body))}
              ELSE IF r.w.sock[n].in = {} THEN {Dropped(r)} ELSE nn_surveyor_recv(r.w, n)
              : r \in nn_xsurveyor_recv(x, n)}

(* nn_surveyor_handler: the timer fires, or has stopped.                   *)
DeadlineTimeout(x, n) ==
  IF x.surveyor[n].state # "ACTIVE" THEN Abort(x, TRUE)
  ELSE [nn_timer_stop(x, n) EXCEPT !.surveyor[n].state = "STOPPING_TIMER",
                                   !.surveyor[n].timedout = TRUE]

(* nn_surveyor_handler that forgets the survey that waits.                 *)
DeadlineStopped_Forget(x, n) ==
  {[x EXCEPT !.surveyor[n].state = IF @ = "STOPPING" THEN "IDLE" ELSE "PASSIVE"]}
DeadlineStopped(x, n) ==
  CASE x.surveyor[n].state = "CANCELLING" -> StartSurvey(x, n)
    [] x.surveyor[n].state = "STOPPING_TIMER" -> {[x EXCEPT !.surveyor[n].state = "PASSIVE"]}
    [] x.surveyor[n].state = "STOPPING" -> {[x EXCEPT !.surveyor[n].state = "IDLE"]}
    [] OTHER -> {Abort(x, TRUE)}

(* nn_surveyor_shutdown                                                    *)
nn_surveyor_stop(x, n) ==
  LET y == nn_timer_stop(x, n)
  IN [y EXCEPT !.surveyor[n].state = IF y.surveyor[n].timer = "IDLE" THEN "IDLE" ELSE "STOPPING"]

-----------------------------------------------------------------------------
(* What nn_send and nn_recv of a socket may end in.  A call that would     *)
(* block has no outcome.                                                   *)
Send(x, n, m) ==
  CASE type(n) = "xpair" -> nn_xpair_send(x, n, m)
    [] type(n) = "xpush" -> nn_xpush_send(x, n, m)
    [] type(n) = "xpub" -> nn_xpub_send(x, n, m)
    [] type(n) = "bus" -> nn_bus_send(x, n, m)
    [] type(n) = "xbus" -> nn_xbus_send(x, n, m)
    [] type(n) = "xreq" -> nn_xreq_send(x, n, m)
    [] type(n) = "xsurveyor" -> nn_xsurveyor_send(x, n, m)
    [] type(n) = "xrep" -> nn_xrep_send(x, n, m)
    [] type(n) = "xrespondent" -> nn_xrespondent_send(x, n, m)
    [] type(n) = "rep" -> nn_rep_send(x, n, m)
    [] type(n) = "respondent" -> nn_respondent_send(x, n, m)
    [] type(n) = "surveyor" -> nn_surveyor_send(x, n)

Recv(x, n) ==
  CASE type(n) = "xpair" -> nn_xpair_recv(x, n)
    [] type(n) = "xpull" -> nn_xpull_recv(x, n)
    [] type(n) = "xsub" -> nn_xsub_recv(x, n)
    [] type(n) = "bus" -> nn_bus_recv(x, n)
    [] type(n) = "xbus" -> nn_xbus_recv(x, n)
    [] type(n) = "xreq" -> nn_xreq_recv(x, n)
    [] type(n) = "xsurveyor" -> nn_xsurveyor_recv(x, n)
    [] type(n) = "xrep" -> nn_xrep_recv(x, n)
    [] type(n) = "xrespondent" -> nn_xrespondent_recv(x, n)
    [] type(n) = "rep" -> nn_rep_recv(x, n)
    [] type(n) = "respondent" -> nn_respondent_recv(x, n)
    [] type(n) = "surveyor" -> nn_surveyor_recv(x, n)
    [] OTHER -> {}

(* What nn_sock_onleave learns of the socket (module SockIo).              *)
Events(x, n) ==
  CASE type(n) = "xpair" -> nn_xpair_events(x, n)
    [] type(n) = "xpush" -> nn_xpush_events(x, n)
    [] type(n) = "xpull" -> nn_xpull_events(x, n)
    [] type(n) = "xpub" -> nn_xpub_events(x, n)
    [] type(n) = "xsub" -> nn_xsub_events(x, n)
    [] type(n) \in {"bus", "xbus"} -> nn_xbus_events(x, n)
    [] type(n) = "xreq" -> nn_xreq_events(x, n)
    [] type(n) = "xsurveyor" -> nn_xsurveyor_events(x, n)
    [] type(n) = "surveyor" -> nn_surveyor_events(x, n)
    [] type(n) = "xrep" -> nn_xrep_events(x, n)
    [] type(n) = "rep" -> nn_rep_events(x, n)
    [] type(n) = "xrespondent" -> nn_xrespondent_events(x, n)
    [] type(n) = "respondent" -> nn_respondent_events(x, n)
-----------------------------------------------------------------------------
(* Connections.  Each end has a pipe, which a PAIR socket that has a peer  *)
(* refuses: the other end does not know until the connection is closed,    *)
(* and what it sends is lost.  A refused pipe is not removed.              *)
nn_pipebase_start(x, n, p) ==
  IF Refuses(x, n, p) THEN [x EXCEPT !.cut = TRUE] ELSE Out(Add(x, n, p), n, p)
nn_pipebase_stop(x, n, p) == IF p \in x.sock[n].pipes THEN Rm(x, n, p) ELSE x
Connect(l) ==
  LET n == l[1]  p == l[2]
  IN /\ ~ w.aborted /\ ~ Up(l) /\ w.links < net.connects /\ n \notin w.closed
     /\ w' = [nn_pipebase_start(nn_pipebase_start(w, n, p), p, n) EXCEPT !.links = @ + 1]
     /\ UNCHANGED net

Unlink(x, l) ==
  [nn_pipebase_stop(nn_pipebase_stop(x, l[1], l[2]), l[2], l[1]) EXCEPT !.cut = TRUE]
Disconnect(l) ==
  /\ ~ w.aborted /\ Up(l)
  /\ w' = Unlink(w, l)
  /\ UNCHANGED net

(* The transport has a message for the socket, or has sent its last one.   *)
PipeIn(n, p) ==
  /\ ~ w.aborted /\ w.instate[n, p] = "ASYNC" /\ w.chan[p, n] # <<>>
  /\ w' = In([w EXCEPT !.instate[n, p] = "IDLE"], n, p)
  /\ UNCHANGED net
PipeOut(n, p) ==
  /\ ~ w.aborted /\ w.outstate[n, p] = "ASYNC" /\ Len(w.chan[n, p]) < Room
  /\ w' = Out([w EXCEPT !.outstate[n, p] = "IDLE"], n, p)
  /\ UNCHANGED net

(* Applications.  One that uses a raw XREQ socket may forget the header.   *)
Unasked(n) == n \in Sources \/ type(n) \in {"bus", "xpair"}
MaySend(n) ==
  LET all == IF n \in Sources THEN Sources ELSE Sinks
  IN FoldSet(LAMBDA p, k : k + w.sent[p], 0, all)
       < IF n \in Sources THEN net.sends ELSE net.answers
AppSend(n) ==
  LET k == w.sent[n] + 1
  IN /\ ~ w.aborted /\ n \notin w.closed /\ Unasked(n) /\ MaySend(n)
     /\ \E t \in IF pattern = "pubsub" THEN Topics ELSE {Plain} :
        \E hdr \in IF type(n) = "xreq" THEN {<<-k>>, <<>>} ELSE {<<>>} :
        \E x \in Send([w EXCEPT !.sent[n] = k], n, Msg(hdr, <<>>, Body(n, k, t))) : w' = x
     /\ UNCHANGED net

Answer(n) ==
  /\ ~ w.aborted /\ w.request[n] # Nothing
  /\ \E x \in Send(w, n, Msg(<<>>, <<>>, [w.request[n] EXCEPT !.by = n])) : w' = x
  /\ UNCHANGED net

(* What the application knows of a message: its body, and what it answers. *)
Deliver(r, n) ==
  LET hdr == IF type(n) = "surveyor" THEN <<-r.w.surveyor[n].surveyid>> ELSE r.msg.hdr
      e == [body |-> r.msg.body, hdr |-> hdr, words |-> r.msg.words]
  IN IF r.msg = EAGAIN THEN r.w
     ELSE [r.w EXCEPT !.got[n] = @ \cup {e},
                      !.twice = @ \/ \E d \in r.w.got[n] : d.body = e.body]
AppRecv(n) ==
  /\ ~ w.aborted /\ n \notin w.closed
  /\ \E r \in Recv(w, n) : w' = Deliver(r, n)
  /\ UNCHANGED net

(* nn_device_mvmsg, in its two halves.                                     *)
DeviceRecv(d) ==
  /\ ~ w.aborted /\ w.hand[d] = Nothing
  /\ \E r \in Recv(w, d[1]) :
       w' = IF r.msg = EAGAIN THEN r.w ELSE [r.w EXCEPT !.hand[d] = r.msg]
  /\ UNCHANGED net
(* A forwarder that does not wait until it can send.                       *)
DeviceSend_NoWait(d) ==
  /\ ~ w.aborted /\ w.hand[d] # Nothing
  /\ \E x \in Send(w, d[2], w.hand[d]) \cup {w} : w' = [x EXCEPT !.hand[d] = Nothing]
  /\ UNCHANGED net
DeviceSend(d) ==
  /\ ~ w.aborted /\ w.hand[d] # Nothing
  /\ \E x \in Send(w, d[2], w.hand[d]) : w' = [x EXCEPT !.hand[d] = Nothing]
  /\ UNCHANGED net

(* The deadline timer of a surveyor.                                       *)
TimerFires(n) ==
  /\ ~ w.aborted /\ w.surveyor[n].timer = "ACTIVE"
  /\ w' = DeadlineTimeout(w, n)
  /\ UNCHANGED net
TimerStopped(n) ==
  /\ ~ w.aborted /\ w.surveyor[n].timer = "STOPPING"
  /\ \E x \in DeadlineStopped([w EXCEPT !.surveyor[n].timer = "IDLE"], n) : w' = x
  /\ UNCHANGED net

(* nn_close: the pipes go, the protocol stops; what it keeps of its pipes  *)
(* must be empty when it is terminated.                                    *)
Close(n) ==
  LET x == IF Up(<<n, "f">>) THEN Unlink(w, <<n, "f">>) ELSE w
      y == IF type(n) = "surveyor" THEN nn_surveyor_stop(x, n) ELSE x
  IN /\ ~ w.aborted /\ n \notin w.closed
     /\ w' = Abort([y EXCEPT !.closed = @ \cup {n}], y.sock[n].in # {} \/ y.sock[n].out # {})
     /\ UNCHANGED net

Next ==
  \/ \E l \in net.links : Connect(l) \/ Disconnect(l)
  \/ \E l \in Pipes : PipeIn(l[1], l[2]) \/ PipeOut(l[1], l[2])
  \/ \E n \in Users \ {"f", "b"} : AppSend(n) \/ AppRecv(n)
  \/ \E n \in Sinks \cap Users : Answer(n)
  \/ \E d \in DOMAIN w.hand : DeviceRecv(d) \/ DeviceSend(d)
  \/ \E n \in Sources \cap Users : TimerFires(n) \/ TimerStopped(n) \/ Close(n)

Spec == Init /\ [][Next]_vars

(* Workers and the threads of the device run, and sinks receive: as long   *)
(* as one of them has something to do, one of them does something.  (Weak  *)
(* fairness of Internal: Busy says when it is enabled.)                    *)
Internal ==
  \/ \E l \in Pipes : PipeIn(l[1], l[2]) \/ PipeOut(l[1], l[2])
  \/ \E d \in DOMAIN w.hand : DeviceRecv(d) \/ DeviceSend(d)
  \/ \E n \in Sources : TimerFires(n) \/ TimerStopped(n)
  \/ \E n \in Sinks : AppRecv(n)
Busy ==
  /\ ~ w.aborted
  /\ \/ \E l \in Pipes : (w.instate[l] = "ASYNC" /\ w.chan[l[2], l[1]] # <<>>)
                        \/ (w.outstate[l] = "ASYNC" /\ Len(w.chan[l]) < Room)
     \/ \E d \in DOMAIN w.hand :
          IF w.hand[d] = Nothing THEN "IN" \in Events(w, d[1]) ELSE "OUT" \in Events(w, d[2])
     \/ \E n \in Sources : w.surveyor[n].timer # "IDLE"
     \/ \E n \in Sinks \cap Users : "IN" \in Events(w, n)
Fairness == []<> ~ Busy \/ []<> <<Internal>>_vars
FairSpec == Spec /\ Fairness

-----------------------------------------------------------------------------
(* Properties.                                                             *)

(* No assertion of the protocols, the distributor or the exclusive pipe    *)
(* fails: no pipe is sent to while it is busy or listed twice (dist.c:63,  *)
(* excl.c:69), and nothing is left of the pipes of a socket that is        *)
(* closed (dist.c:40).                                                     *)
NoAssertionFails == ~ w.aborted

(* A socket keeps exactly the pipes that are ready: what nn_pipebase       *)
(* thinks of a pipe and what the lists of the protocol say agree, for any  *)
(* history of connections.                                                 *)
ListsExact ==
  \A n \in Users :
     LET ready(state) == {p \in Nodes : <<n, p>> \in Pipes /\ state[n, p] = "IDLE"}
     IN /\ type(n) \notin {"xpush", "xpub"} => w.sock[n].in = ready(w.instate)
        /\ type(n) \notin {"xpull", "xsub"} => w.sock[n].out = ready(w.outstate)

(* The events a protocol reports are what its send and recv then do: a     *)
(* call that nn_sock_onleave puts to sleep would fail, and one that it     *)
(* wakes up does not find that nothing has changed.                        *)
EventsExact ==
  \A n \in Users \ w.closed :
     LET ev == Events(w, n)
         got == Recv(w, n)
         blocks == type(n) \in {"xpair", "xpush", "xreq"}   \* never for the other types
                     /\ Send(w, n, Msg(<<>>, <<>>, Body(n, 0, Plain))) = {}
     IN /\ IF "IN" \in ev
           THEN got # {} /\ \A r \in got : r.msg = EAGAIN /\ r.w = w => type(n) = "surveyor"
           ELSE \A r \in got : r.msg = EAGAIN
        /\ type(n) \notin {"xpull", "xsub"} =>
             ("OUT" \notin ev <=>
                blocks \/ (type(n) \in {"rep", "respondent"} /\ w.request[n] = Nothing))

(* No assertion of a protocol fails, the lists of a socket hold exactly    *)
(* the pipes that are ready, whatever the history of connections, and the  *)
(* events it reports are what send and recv do.                            *)
Sound == NoAssertionFails /\ ListsExact /\ EventsExact

(* An answer reaches the one who asked, through a device that serves       *)
(* several, with the number of the question it answers and nothing else in *)
(* its header, and a surveyor hands over answers to its current survey     *)
(* only (xrep.c:169, surveyor.c:268).                                      *)
AnswersReachAsker ==
  pattern \in {"reqrep", "survey"} =>
     \A n \in Sources : \A e \in w.got[n] :
        e.body.from = n /\ e.hdr = <<-e.body.n>> /\ e.words = <<>> /\ e.body.by \in Sinks

(* No application gets a message twice, or the one it sent itself; a       *)
(* request and a message of a pipeline go to one sink only (dist.c:88,     *)
(* xbus.c:163, lb.c).                                                      *)
DeliveredOnce ==
  /\ ~ w.twice
  /\ pattern \in {"bus", "loop", "pair"} => \A n \in Nodes : \A e \in w.got[n] : e.body.from # n
  /\ pattern \in {"reqrep", "pipeline"} =>
       \A n, p \in Sinks : n = p \/ {e.body : e \in w.got[n]} \cap {e.body : e \in w.got[p]} = {}

(* As long as no connection is lost or refused, every message that is      *)
(* pushed through the device is received in the end: neither the device    *)
(* nor the sockets lose or keep one.                                       *)
PushedArrives ==
  []<>(pattern \in {"pipeline", "pair"} =>
         \/ w.cut \/ w.sock["b"].pipes = {}
         \/ \A n \in Sources : \A k \in 1 .. w.sent[n] :
              \E p \in Sinks : \E e \in w.got[p] : e.body = Body(n, k, Plain))

(* A surveyor comes to rest with its last survey sent, also one that had   *)
(* to wait for the timer of the one before it (and took the place of those *)
(* that waited before), and ended; one that is closed stops.               *)
SurveysEnd ==
  []<>(pattern = "survey" => \A n \in Sources :
         LET s == w.surveyor[n]
         IN IF n \in w.closed THEN s.state = "IDLE"
            ELSE s.state = "PASSIVE" /\ s.asked = s.surveyid)
=============================================================================
