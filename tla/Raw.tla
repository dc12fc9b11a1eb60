-------------------------------- MODULE Raw ---------------------------------
(***************************************************************************)
(* The raw protocols (protocols/*/x*.c) with what they share: the          *)
(* distributor (utils/dist.c), the exclusive pipe (utils/excl.c), and the  *)
(* fair queuer and load balancer, which here may pick any pipe that is     *)
(* ready (module Priolist says which one).                                 *)
(*                                                                         *)
(* A pipe of a socket is named after the node at its other end.  Its       *)
(* transport takes one message at a time and then makes the pipe busy      *)
(* (NN_PIPEBASE_RELEASE); it hands over the messages of the channel.  What *)
(* travels are header words and a body: a word is a pipe key (not          *)
(* negative) or, with the high bit set, the number of a request (negative).*)
(***************************************************************************)
EXTENDS Integers, Sequences, SequencesExt, FiniteSetsExt

CONSTANTS Sources,   \* nodes that ask, publish or push
          Sinks,     \* nodes that answer, subscribe or pull
          MaxTtl     \* NN_MAXTTL

ASSUME RawAssumption == MaxTtl \in Nat /\ Sources \cap Sinks = {}
                        /\ {"f", "b"} \cap (Sources \cup Sinks) = {}

Nodes == Sources \cup Sinks \cup {"f", "b"}   \* "f" and "b": the sockets of a device

(* A socket: its pipes, the pipes it may receive from or send to, the keys *)
(* of its pipes and the next one, and the backtrace of the request or      *)
(* survey it has received (NN_REP_INPROGRESS when there is one).           *)
Socket == [pipes : SUBSET Nodes, in : SUBSET Nodes, out : SUBSET Nodes,
           key : [Nodes -> Nat], next : Nat, backtrace : Seq(Int)]
NewSocket == [pipes |-> {}, in |-> {}, out |-> {}, key |-> [n \in Nodes |-> 0], next |-> 0,
              backtrace |-> <<>>]

(* The header of a message, the words its body starts with, and the rest.  *)
Msg(hdr, words, body) == [hdr |-> hdr, words |-> words, body |-> body]

EAGAIN == [error |-> "EAGAIN"]
EISCONN == [error |-> "EISCONN"]
Abort(x, bad) == [x EXCEPT !.aborted = @ \/ bad]

-----------------------------------------------------------------------------
(* nn_pipe_send: header and body travel as one.                            *)
nn_pipe_send(x, n, p, m) ==
  Abort([x EXCEPT !.chan[n, p] = Append(@, Msg(<<>>, m.hdr \o m.words, m.body)),
                  !.outstate[n, p] = "ASYNC"],
        x.outstate[n, p] # "IDLE")

(* nn_pipe_recv; more: the transport has the next message at hand.         *)
nn_pipe_recv(x, n, p, more) ==
  Abort([x EXCEPT !.chan[p, n] = Tail(@), !.instate[n, p] = IF more THEN "IDLE" ELSE "ASYNC"],
        x.instate[n, p] # "IDLE")

(* A new pipe is known to the socket and not ready for anything.           *)
Known(x, n, p) == [x EXCEPT !.sock[n].pipes = @ \cup {p}]

(* The distributor.  A pipe that is excluded stays in the list.            *)
nn_dist_add(x, n, p) == Known(x, n, p)
nn_dist_rm(x, n, p) == [x EXCEPT !.sock[n].out = @ \ {p}]
nn_dist_out(x, n, p) == Abort([x EXCEPT !.sock[n].out = @ \cup {p}], p \in x.sock[n].out)
nn_dist_send(x, n, m, exclude) ==
  LET to == x.sock[n].out \ exclude
      y == FoldSet(LAMBDA p, z : nn_pipe_send(z, n, p, m), x, to)
  IN [y EXCEPT !.sock[n].out = @ \ to]

(* The fair queuer and the load balancer.                                  *)
nn_fq_add(x, n, p) == Known(x, n, p)
nn_fq_rm(x, n, p) == [x EXCEPT !.sock[n].in = @ \ {p}]
nn_fq_in(x, n, p) == Abort([x EXCEPT !.sock[n].in = @ \cup {p}], p \in x.sock[n].in)
nn_fq_can_recv(x, n) == IF x.sock[n].in # {} THEN {"IN"} ELSE {}
nn_lb_add(x, n, p) == Known(x, n, p)
nn_lb_rm(x, n, p) == [x EXCEPT !.sock[n].out = @ \ {p}]
nn_lb_out(x, n, p) == Abort([x EXCEPT !.sock[n].out = @ \cup {p}], p \in x.sock[n].out)
nn_lb_can_send(x, n) == IF x.sock[n].out # {} THEN {"OUT"} ELSE {}
nn_lb_send(x, n, m) ==
  {[nn_pipe_send(x, n, p, m) EXCEPT !.sock[n].out = @ \ {p}] : p \in x.sock[n].out}

(* Everything nn_fq_recv may return: the socket after it, the message, the *)
(* pipe.                                                                   *)
nn_fq_recv(x, n) ==
  UNION {LET m == Head(x.chan[p, n])
             y(more) == IF more THEN nn_pipe_recv(x, n, p, TRUE)
                        ELSE nn_fq_rm(nn_pipe_recv(x, n, p, FALSE), n, p)
         IN {[w |-> y(more), msg |-> m, pipe |-> p] :
               more \in {b \in BOOLEAN : b => Len(x.chan[p, n]) > 1}} : p \in x.sock[n].in}

Result(r, m) == [r EXCEPT !.msg = m]
Dropped(r) == Result(r, EAGAIN)

-----------------------------------------------------------------------------
(* PAIR: one pipe at a time.                                               *)
nn_excl_add(x, n, p) == IF x.sock[n].pipes # {} THEN EISCONN ELSE Known(x, n, p)
nn_excl_rm(x, n) == [x EXCEPT !.sock[n].in = {}, !.sock[n].out = {}]
nn_excl_in(x, n, p) ==
  Abort([x EXCEPT !.sock[n].in = {p}], x.sock[n].in # {} \/ x.sock[n].pipes # {p})
nn_excl_out(x, n, p) ==
  Abort([x EXCEPT !.sock[n].out = {p}], x.sock[n].out # {} \/ x.sock[n].pipes # {p})
nn_excl_send(x, n, m) == nn_lb_send(x, n, m)
nn_excl_recv(x, n) == nn_fq_recv(x, n)
nn_excl_can_recv(x, n) == IF x.sock[n].in # {} THEN {"IN"} ELSE {}
nn_excl_can_send(x, n) == IF x.sock[n].out # {} THEN {"OUT"} ELSE {}

nn_xpair_add(x, n, p) == nn_excl_add(x, n, p)
nn_xpair_rm(x, n) == nn_excl_rm(x, n)
nn_xpair_in(x, n, p) == nn_excl_in(x, n, p)
nn_xpair_out(x, n, p) == nn_excl_out(x, n, p)
nn_xpair_events(x, n) == nn_excl_can_recv(x, n) \cup nn_excl_can_send(x, n)
nn_xpair_send(x, n, m) == nn_excl_send(x, n, m)
nn_xpair_recv(x, n) == nn_excl_recv(x, n)

(* PUSH and PULL.                                                          *)
nn_xpush_add(x, n, p) == nn_lb_add(x, n, p)
nn_xpush_rm(x, n, p) == nn_lb_rm(x, n, p)
nn_xpush_out(x, n, p) == nn_lb_out(x, n, p)
nn_xpush_in(x, n, p) == x
nn_xpush_events(x, n) == nn_lb_can_send(x, n)
nn_xpush_send(x, n, m) == nn_lb_send(x, n, m)
nn_xpull_add(x, n, p) == nn_fq_add(x, n, p)
nn_xpull_rm(x, n, p) == nn_fq_rm(x, n, p)
nn_xpull_in(x, n, p) == nn_fq_in(x, n, p)
nn_xpull_out(x, n, p) == x
nn_xpull_events(x, n) == nn_fq_can_recv(x, n)
nn_xpull_recv(x, n) == nn_fq_recv(x, n)

(* PUB and SUB.  A SUB socket goes on until a message matches one of its   *)
(* subscriptions (nn_trie_match, module Trie) or there is none left.       *)
nn_xpub_add(x, n, p) == nn_dist_add(x, n, p)
nn_xpub_rm(x, n, p) == nn_dist_rm(x, n, p)
nn_xpub_in(x, n, p) == Abort(x, TRUE)
nn_xpub_out(x, n, p) == nn_dist_out(x, n, p)
nn_xpub_events(x, n) == {"OUT"}
nn_xpub_send(x, n, m) == {nn_dist_send(x, n, m, {})}

RECURSIVE nn_xsub_recv(_, _)
nn_xsub_recv(x, n) ==
  UNION {IF r.msg.body.topic \in x.topics[n] THEN {r}
         ELSE IF r.w.sock[n].in = {} THEN {Dropped(r)} ELSE nn_xsub_recv(r.w, n)
         : r \in nn_fq_recv(x, n)}
nn_xsub_add(x, n, p) == nn_fq_add(x, n, p)
nn_xsub_rm(x, n, p) == nn_fq_rm(x, n, p)
nn_xsub_in(x, n, p) == nn_fq_in(x, n, p)
nn_xsub_out(x, n, p) == x
nn_xsub_events(x, n) == nn_fq_can_recv(x, n)

(* BUS.  The raw socket keeps the pipe a message came from in its header   *)
(* and does not send it back there; the full socket drops the header.      *)
nn_xbus_add(x, n, p) == nn_dist_add(nn_fq_add(x, n, p), n, p)
nn_xbus_rm(x, n, p) == nn_dist_rm(nn_fq_rm(x, n, p), n, p)
nn_xbus_in(x, n, p) == nn_fq_in(x, n, p)
nn_xbus_out(x, n, p) == nn_dist_out(x, n, p)
nn_xbus_events(x, n) == nn_fq_can_recv(x, n) \cup {"OUT"}
(* The message goes back where it came from.                               *)
nn_xbus_send_Echo(x, n, m) == {nn_dist_send(x, n, Msg(<<>>, m.words, m.body), {})}
nn_xbus_send(x, n, m) == {nn_dist_send(x, n, Msg(<<>>, m.words, m.body), ToSet(m.hdr))}
nn_xbus_recv(x, n) ==
  {Result(r, Msg(<<r.pipe>>, r.msg.words, r.msg.body)) : r \in nn_fq_recv(x, n)}
nn_bus_send(x, n, m) == {Abort(y, m.hdr # <<>>) : y \in nn_xbus_send(x, n, m)}
nn_bus_recv(x, n) ==
  {Result(r, Msg(<<>>, r.msg.words, r.msg.body)) : r \in nn_xbus_recv(x, n)}

-----------------------------------------------------------------------------
(* XREQ and XSURVEYOR: the header of a reply is its first word.  One       *)
(* without is dropped.                                                     *)
nn_xreq_add(x, n, p) == nn_lb_add(nn_fq_add(x, n, p), n, p)
nn_xreq_rm(x, n, p) == nn_fq_rm(nn_lb_rm(x, n, p), n, p)
nn_xreq_in(x, n, p) == nn_fq_in(x, n, p)
nn_xreq_out(x, n, p) == nn_lb_out(x, n, p)
nn_xreq_events(x, n) == nn_fq_can_recv(x, n) \cup nn_lb_can_send(x, n)
nn_xreq_send(x, n, m) == nn_lb_send(x, n, m)

SplitReply(r) ==
  IF r.msg.words = <<>> THEN Dropped(r)
  ELSE Result([r EXCEPT !.w.aborted = @ \/ r.msg.hdr # <<>>],
              Msg(<<Head(r.msg.words)>>, Tail(r.msg.words), r.msg.body))
nn_xreq_recv(x, n) == {SplitReply(r) : r \in nn_fq_recv(x, n)}

nn_xsurveyor_add(x, n, p) == nn_dist_add(nn_fq_add(x, n, p), n, p)
nn_xsurveyor_rm(x, n, p) == nn_dist_rm(nn_fq_rm(x, n, p), n, p)
nn_xsurveyor_in(x, n, p) == nn_fq_in(x, n, p)
nn_xsurveyor_out(x, n, p) == nn_dist_out(x, n, p)
nn_xsurveyor_events(x, n) == nn_fq_can_recv(x, n) \cup {"OUT"}
nn_xsurveyor_send(x, n, m) == {nn_dist_send(x, n, m, {})}
nn_xsurveyor_recv(x, n) == {SplitReply(r) : r \in nn_fq_recv(x, n)}

(* XREP and XRESPONDENT: the words up to the number of the request are the *)
(* header; the key of the pipe is put before them.  Without a number, or   *)
(* with too many words, the message is dropped.                            *)
Bottom(words) == {i \in DOMAIN words : words[i] < 0}
Backtrace(r, n) ==
  LET words == r.msg.words
      i == Min(Bottom(words))
  IN IF Bottom(words) = {} THEN Dropped(r)
     ELSE IF i > MaxTtl THEN Dropped(r)
     ELSE Result([r EXCEPT !.w.aborted = @ \/ r.msg.hdr # <<>>],
                 Msg(<<r.w.sock[n].key[r.pipe]>> \o SubSeq(words, 1, i),
                     SubSeq(words, i + 1, Len(words)), r.msg.body))

(* The pipe the first word of the header names gets the rest; if there is  *)
(* none, or it is busy, the message is dropped.                            *)
SendBack(x, n, m) ==
  LET to == {p \in x.sock[n].out : x.sock[n].key[p] = Head(m.hdr)}
  IN IF m.hdr = <<>> \/ to = {} THEN {x}
     ELSE {[nn_pipe_send(x, n, p, Msg(Tail(m.hdr), m.words, m.body))
              EXCEPT !.sock[n].out = @ \ {p}] : p \in to}

(* The keys of pipes that are gone are used again.                         *)
AddKey_Reused(x, n, p) ==
  [nn_fq_add(x, n, p) EXCEPT !.sock[n].key[p] = Cardinality(x.sock[n].pipes)]

(* Every pipe gets a key of its own.                                       *)
AddKey(x, n, p) ==
  [nn_fq_add(x, n, p) EXCEPT !.sock[n].key[p] = x.sock[n].next, !.sock[n].next = @ + 1]

(* The pipe can still be sent to.                                          *)
RmKey_Out(x, n, p) == nn_fq_rm(x, n, p)
RmKey(x, n, p) == [nn_fq_rm(x, n, p) EXCEPT !.sock[n].out = @ \ {p}]

nn_xrep_add(x, n, p) == AddKey(x, n, p)
nn_xrep_rm(x, n, p) == RmKey(x, n, p)
nn_xrep_in(x, n, p) == nn_fq_in(x, n, p)
nn_xrep_out(x, n, p) == [x EXCEPT !.sock[n].out = @ \cup {p}]
nn_xrep_events(x, n) == nn_fq_can_recv(x, n) \cup {"OUT"}
nn_xrep_send(x, n, m) == SendBack(x, n, m)
nn_xrep_recv(x, n) == {Backtrace(r, n) : r \in nn_fq_recv(x, n)}

nn_xrespondent_add(x, n, p) == AddKey(x, n, p)
nn_xrespondent_rm(x, n, p) == RmKey(x, n, p)
nn_xrespondent_in(x, n, p) == nn_fq_in(x, n, p)
nn_xrespondent_out(x, n, p) == [x EXCEPT !.sock[n].out = @ \cup {p}]
nn_xrespondent_events(x, n) == nn_fq_can_recv(x, n) \cup {"OUT"}
nn_xrespondent_send(x, n, m) == SendBack(x, n, m)
nn_xrespondent_recv(x, n) == {Backtrace(r, n) : r \in nn_fq_recv(x, n)}
=============================================================================
