# A TLA+ model of nanomsg

This directory holds TLA+ specifications of the nanomsg library, the TLC
configurations that check them on small instances, and TLAPS proofs of the
results that hold for every instance. All paths below are relative to
`src/src/`, unless they start with `doc/` or `tests/`, which are beside it.

## The system

nanomsg is a C library of message sockets. An application thread calls the API
(`core/global.c`), which finds the socket in a global table, takes a *hold* on
it and runs the call. Everything inside one socket (its endpoints, pipes, the
protocol and the transports' state machines) is serialised by the socket's
*context* (`aio/ctx.c`): a thread enters it, runs a handler, feeds every event
the handlers raised and leaves. One worker thread (`aio/worker_posix.inc`)
enters the contexts for timers, tasks and I/O. Stopping is asynchronous: an
object asked to stop reports later that it has stopped, and may be freed only
then.

| Part | Source | Modules | State |
|------|--------|---------|-------|
| Global table, `nn_close`, `nn_term`, `nn_init` | `core/global.c` | `Global` | checked, proved |
| Socket and endpoint life cycle | `core/sock.c`, `core/ep.c`, `aio/ctx.c`, `aio/fsm.c` | `Sock` | checked, proved, refinement of `Global` proved |
| Blocking send, receive, poll | `core/sock.c`, `core/poll.c`, `utils/efd.c` | `SockIo` | checked, proved |
| Choice of the pipe | `protocols/utils/priolist.c`, `fq.c`, `lb.c`, `core/pipe.c` | `Priolist` | checked, proved |
| Timers and worker thread | `aio/timer.c`, `aio/timerset.c`, `aio/worker_posix.inc`, `utils/queue.c` | `Timer`, `TimerAbs` | checked, proved, refinement proved |
| REQ | `protocols/reqrep/req.c`, `xreq.c`, `task.c` | `Req` | checked, proved |
| Raw protocols, `dist`, `excl` | `protocols/*/x*.c`, `protocols/utils/dist.c`, `excl.c` | `Raw` | checked in `Network` |
| REP, SURVEYOR, RESPONDENT, BUS, device | `protocols/reqrep/rep.c`, `protocols/survey/*.c`, `protocols/bus/bus.c`, `devices/device.c` | `Network` | checked |
| Subscriptions | `protocols/pubsub/trie.c`, `sub.c`, `xsub.c` | `Trie` | checked against a multiset |
| OS socket, resolver, header exchange, connecting endpoints and sessions of TCP, IPC and WebSocket | `aio/usock_posix.inc`, `transports/tcp`, `ipc`, `ws`, `transports/utils` | `Usock`, `Sws`, `Stream` | checked, refines `Session` |
| Listening endpoints of TCP, IPC and WebSocket | `transports/tcp/btcp.c`, `atcp.c`, `ipc/bipc.c`, `aipc.c`, `ws/bws.c`, `aws.c` | `Listen` (over `Session`) | checked |
| inproc transport | `transports/inproc` | `Inproc` | checked |

How the modules fit together: `Sock` implements `Global`; `Timer` implements
`TimerAbs`, and the timers of `Req`, `Stream` and `Network` are used as `TimerAbs`
allows; the sessions of `Stream` implement `Session`, which is all that `Listen`
assumes of them; `Network` is built on `Raw`, whose choice among ready pipes is
any choice, of which `Priolist` is one.

## Conventions

* One stay in a context (or one critical section of the global lock) is one
  action, with every state change of the handlers that run in it; in `Sock`,
  `Stream` and `Listen` one event of the stay is.
* `nn_assert`, `errnum_assert` and the `nn_fsm_bad_*` calls set `aborted` (`failed`,
  `broken`), as part of the action that reaches them; an aborted model stops (the
  action `Dead` stands for it where deadlock is checked).
* Where the code does fail an assertion, or uses what it has freed, the model does
  too. A history variable (`late`, `hasty`, `refused`, `astray`) or the value of
  `aborted` then says what led to it, and the invariant is that nothing else does:
  nothing is assumed that the code does not enforce. Progress is stated as "or the
  process has aborted", for these causes.
* Variables and fields have the names of the C fields; the comment beside each
  says which.
* An operator `Name_Variant` is a faulty version of `Name`. It is used by no
  specification; it documents which mistake the named property rules out.
* `Sound` is the conjunction of the safety invariants of a module.

## Modules

**Global.** `socks`, `holds`, `unused`, `nsocks` and `flags` are the fields of
`struct nn_global` and of the sockets; `pc`, `fd`, `idx` say where each thread
is. `nn_close` is four actions because it gives the lock up to wait on
`termsem` and `relesem`. What a socket does between `nn_sock_stop` and the post
of `termsem` is the action `nn_sock_fini`.

**Sock.** One socket in detail. `events` is the queue of the context, and
`nn_ctx_leave` feeds its first event, so that the order of the events is
the order of the code; an operation enters the context only when the queue is
empty. Transports and protocols may stop at once or later. `ImplementsGlobal`
maps the detailed states to the states of `Global` and shows that every step is
a step of `Global` or invisible to it, which is what justifies `nn_sock_fini`.
A `nn_bind` whose hold was taken before `nn_close` may run after it, as in the code;
`late` remembers the endpoints added so, which nobody stops but a `nn_shutdown`.

**SockIo.** `nn_sock_send` and `nn_sock_recv` are one piece of code in two
directions. `ready` is what the protocol's `events` reports, and may become anything
whenever a handler runs, an attempt to send or receive included, whose outcome
it does not decide (`Network` checks how the two are related in the protocols); `flags`
is what the socket believes of its two event descriptors, `efd` what they are. `nn_efd_wait` happens
outside of the context.

**Priolist.** The lists, their cursors and the readiness state of the pipes.
`Kinds` selects the fair queuer over stream pipes, over inproc pipes (which may
stay readable after a receive) and the load balancer. A pipe may be stopped
while an event it raised is still queued; the protocol then gets an event of a pipe whose
data it has freed, and `broken` is `"freed"`.

**Timer, TimerAbs.** `TimerAbs` is the promise of `nn_timer` to its owner: at most
one timeout per start, none after a stop, then a stopped event. `Timer` is the
code: two tasks per timer travel to the worker, which keeps a private batch and
holds, in `hand`, what it has taken off a list and not yet fed.

**Req.** The state machine of the REQ socket with the timer of `TimerAbs`, the
pipes that can be written (`outp`), the peers' memories of unanswered requests,
and the reply buffer with the ownership of its message.

**Usock, Sws, Stream.** The endpoint that `nn_connect` makes, down to the
descriptor: the connecter `c`, the OS socket `u` with its owner and its entry in
the pollset, the resolver `d`, the two timers, the session `s`, the opening
exchange `h` and the pipe. All of it is in the context of the socket, so the state
is one record `w` and each handler is an operator from `w` to `w`; the actions are
the event the context delivers next, a task, a timer or a descriptor event in the
worker, the resolver's thread, and the calls of the application. `rc` is the
outcome of the system call, or the answer of the peer or the protocol, that the
handler meets. The worker's batch is outside of the context, as in the code;
`inworker` says that the worker itself is the thread in the context, when it
cannot take tasks. `Usock` has the shared objects; `Sws` the WebSocket session
(frames, fragments, control frames, the close handshake) with both sides of its
opening handshake; `Stream` the header exchange and sessions of TCP and IPC, the
three connecters, and everything that moves. TCP and IPC share the operators where
their code is the same up to names. The fourth kind, `"aws"`, is a connection that
a WebSocket listener has accepted. A protocol may send from its handler of
`NN_PIPE_OUT`, as REQ does with a delayed request. `aborted` is `"bind"`, `"cut"`,
`"status"` or `"delayed"` for the four situations that the code does not survive (see
*Disagreements*), and `"other"`, which does not happen, for any other failed assertion.

**Session.** What a session promises its owner: it holds the socket until it has
stopped, and reports one end at most. `Stream!KeepsPromise` is the refinement.

**Listen.** The endpoint that `nn_bind` makes: the listener and the acceptors, one
of which waits for a connection with the listening socket borrowed from the
listener. `Slots` are the acceptors that memory has room for; the listening and
accepting states of `aio/usock_posix.inc` are here.

**Inproc.** Two endpoints in two contexts. The sessions of a connection talk by
events between contexts (`nn_fsm_raiseto`), which the thread that leaves the one
context carries to the other; a thread may be overtaken between two of them. The
register of names, both endpoints, both sessions with their flags, and the message
queues are in the record `w`. Calls overlap with these events as they like, and an
event that was taken out of its queue (`th[t].ev`) but has not entered the other
context is known to nobody. `hasty` remembers the connections of which a session was
stopped while an event of its opening or a message was on its way, or used while an
event of its opening or its end was; `refused` those of which a protocol refused the pipe.

**Raw, Network.** A pipe is named after the node at its other end; a message is
header words (pipe keys and request numbers) and a body. `Raw` has an operator for
each function of each raw protocol (`_add`, `_rm`, `_in`, `_out`, `_events`,
`_send`, `_recv`), `Network` puts sources and sinks on the two sides of a device, whose
two forwarders receive and send in two steps, as the code does; which forwarders
there are is computed by `nn_device_entry`. Connections come and go with whatever
is under way on them; a protocol may refuse a connection at one end
(`nn_pipebase_start`), and the other end has its pipe until it notices. The full REP, RESPONDENT, SURVEYOR and BUS sockets are here.

**Trie.** A node is a value: reference count, prefix, children, sparse or dense.
Subscribing, unsubscribing and matching are recursive operators with the
splitting, joining and conversions of the code; `count` is the multiset of strings that
the application is subscribed to, which is the reference. Any string may be
cancelled. `astray` remembers, in terms of `count` alone, the two kinds of calls after
which the trie is no longer exact. Matching yields a set, both answers where the code
reads beyond the end of the message.

## Runs

| Run | Instance | Checks |
|-----|----------|--------|
| `global` | 3 threads, 2 descriptors | descriptors, holds, closers, worker pool; `nn_close` returns, `nn_init` wakes |
| `sock` | 3 threads, 2 endpoints | assertions (late endpoints apart), endpoint lists, order of the shutdown; refinement of `Global`; termination, endpoints freed |
| `sockio` | 3 threads, both directions | descriptors exact, no failed unsignal; no lost wakeup, close unblocks |
| `priolist` | 3 pipes, 2 priorities | cursor, best priority, ready pipes listed; no starvation of stream pipes |
| `timer` | 2 timers | assertions, idle timers unknown to the worker, signalling; refinement of `TimerAbs` with its fairness |
| `req` | 2 pipes, 3 requests | assertions, `sent_to`, delay, timer; requests answered, close completes |
| `stream` | 1 endpoint or accepted connection of each kind | assertions (up to the four causes), pipe and session agree, nothing left after the endpoint is freed; no lost wakeup; the promise of `Session`; stop, opening exchange and wait end |
| `listen` | 3 acceptors, each transport | assertions, nothing left; always one acceptor waiting; stop completes, a lost connection is freed |
| `inproc` | 2 threads, 2 connections, 2 + 1 messages, queue limit 3 | assertions (hasty and refused connections apart), sessions in pairs; no message lost, no lost wakeup; stop completes |
| `network` | 12 networks of 2 to 3 peers around a device, 1 message under way per connection | assertions, lists of ready pipes exact, `events` agrees with send and receive (a receive that drops what it finds apart); answers reach who asked; nothing is delivered twice or to its sender; pushed messages arrive if no connection is lost or refused, surveys end |
| `trie` | 9 strings of up to 5 of 4 characters, prefixes of up to 3, sparse up to 2 | a message of any length matches iff a subscription is its prefix, up to `astray` and to messages read past their end; nodes are well formed |
| `trie_dense` | 5 strings, one the prefix of four | messages that match a subscription are delivered: violated |

Bounds. Three threads are a caller, a closer and one more that reuses the
descriptor or runs `nn_term`; two descriptors are the least for which the stack of
free ones has an order. Two endpoints show an endpoint that stops while another
has stopped. Three pipes are needed for a cursor with a pipe before and behind
it. Three requests allow a reply to be stale by one and by two. `Stream` has no
bound but `Room`, the pieces in which the opening handshake of WebSocket arrives: one
endpoint has finitely many states, and it reconnects for ever. Three acceptors
are one that waits, one that is connected and one that is being dismantled. In
`Inproc` the second message does not fit a queue of limit 3 and waits until there
is room; the second connection meets what the first has left. In `Network` two
sources on one sink show answers that could be mixed up, two sinks on one source show
distribution, and the connection to spare shows the keys of a pipe that comes back.
The constants of the trie are 10 and 8 in the code; with 3 and 2 the same
conversions happen on strings that TLC can enumerate; the messages are all that the
strings start with, and these with one more character. `MaxEid`, `MaxRequests`, `Rounds`, `Messages`, `Replies`, `Room`, `MaxCount` and `MaxSubs` are
bounds of the models, not of the code. Deadlock is not checked where the bounds
or the application let the system come to rest (`req`, `sockio`, `inproc`, `network`).

Fairness. The worker thread runs (weak fairness of its steps, strong fairness where
the context may be busy in between); a transport, protocol or session that was asked to
stop does; a call on a socket that is closed returns; a woken thread runs; a thread
that holds a context delivers its events, and one that carries events between
contexts (`Inproc`) carries on; an application that uses a socket goes on using it
(`Priolist` only); a peer that is asked again and again in the end answers within
the re-send interval (`Req` only); the C library answers a lookup (`Stream`); pipes,
timers and the threads of the device do not stop for ever while there is something to do
(`Network`). Nothing is assumed of the peer or the network in `Stream` and
`Listen`, and nothing of calls on open sockets, which may block.

## Disagreements

One run shows a violation. `trie_dense`: when a node that is itself a subscription gets
one child more than a sparse node holds, `nn_trie_subscribe` builds the dense node
with a reference count of zero (`protocols/pubsub/trie.c:382`), and the subscription is lost, against
`doc/nn_pubsub.adoc:36`. The conversion back loses it as well (`trie.c:607`).

The next ones are in the models as they are in the code: the invariant of the module
excepts them by name, and fails when the exception is taken out.

| Where | What happens | Exception |
|-------|--------------|-----------|
| `core/sock.c:495` | an endpoint is added to a socket that has been stopped, and `nn_close` does not stop it: the assertions that there is none left fail (`:898`, `nn_sock_term`), or, once it is shut down, its last event meets a state without endpoints | `late` in `Sock` |
| `core/pipe.c:94` | a pipe is stopped while its readiness event is queued; the event then reaches the protocol with the pipe's freed data | `broken = "freed"` in `Priolist` |
| `transports/tcp/ctcp.c:609` | after a failed `bind` the next attempt starts a usock that is already started | `aborted = "bind"` in `Stream` |
| `transports/ws/sws.c:351` | a connection lost in the middle of a message leaves chunks to the next one, whose start asserts that there are none | `"cut"` |
| `transports/ws/ws_handshake.c:679` and `:1340` | a status or request line that is not understood meets an assertion | `"status"` |
| `protocols/reqrep/req.c:230`, `transports/tcp/stcp.c:421` | a request delayed until `NN_PIPE_OUT` is sent while what ends the connection is already queued: events meet a session or a pipe that does not expect them | `"delayed"` |
| `transports/inproc/sinproc.c:301` and the other states | a session is stopped, or used, while events of its opening, of a message or of its end are on their way between the contexts: they meet a state that excludes them, or a session or endpoint that has been freed (`aio/ctx.c:86`) | `hasty` in `Inproc` |
| `transports/inproc/sinproc.c:365`, `:392` | the protocol refuses the pipe (a second peer of a PAIR; the test is under `#if 0` in `tests/inproc.c:124`): an assertion fails | `refused` in `Inproc` |
| `protocols/pubsub/trie.c:382`, `:607` | a node that is a subscription is converted, see above | `"converted"` in `Trie` |
| `protocols/pubsub/trie.c:488`, `:510` | cancelling a string that is not subscribed to dereferences the empty trie or the hole of a dense array, or takes a subscription away | `"absent"` in `Trie` |
| `protocols/pubsub/trie.c:465` | a message that ends inside a prefix is read beyond its end | second disjunct of `Exact` in `Trie` |

The last ones are definitions that no run checks; added to the configuration they fail.

| Where | What happens | How to see it |
|-------|--------------|---------------|
| `protocols/utils/priolist.c:114` | the fair queuer starves a pipe while others become ready again (`fq.h:30` says round-robin) | `Priolist.cfg`, property `RoundRobin` |
| `protocols/reqrep/req.c:156` | a stale reply overwrites the one that waits for the application | `Req.cfg`, invariant `DoneHoldsReply` |
| `transports/utils/streamhdr.c:294`, likewise `ws/ws_handshake.c` | a connection lost while the timer of a successful exchange is being stopped is forgotten; only a shutdown of the endpoint helps | `Stream.cfg`, property `LostConnectionLeft` |
| `transports/ws/sws.c:918` | a handshake that fails or times out counts as a close by the peer, and the connecter does not try again (`doc/nn_connect.adoc:43`) | `Stream.cfg`, `RetryComes` without `~ w.peer_gone` |
| `transports/ws/ws_handshake.c:560` | a client that was refused ("we expect connection to be rejected as incompatible", `:1055`) becomes a peer once the refusal is sent | `Stream.cfg`, invariant `RefusedStaysOut` |

Seen while reading and outside of the models: `nn_recv` on a REP or RESPONDENT socket
gives up the request in progress even when it then returns `EAGAIN`; a code point split
between two WebSocket frames is checked byte by byte (`sws.c:600`); `bipc` and `bws`
leak the endpoint when `bind` fails, and a TCP listener on port 0 is bound without listening;
`nn_get_statistic` returns bind errors for `NN_STAT_ACCEPT_ERRORS`
(`core/global.c:1038`).

## Proofs

`GlobalProofs`, `SockProofs`, `SockIoProofs`, `PriolistProofs`, `TimerProofs` and
`ReqProofs` prove, for any number of threads, descriptors, endpoints, timers, pipes,
priorities and requests, the safety invariants of the six modules. Each rests on one inductive invariant `IInv` and one lemma per action.

* `GlobalProofs`: the properties do not say why a hold count of zero means that
  nobody is inside; `IInv` adds that `holds` is the number of callers plus one
  while the socket is open, which semaphore has been posted at which place of the
  closer, and that the free part of `unused` is injective. Counting uses the
  cardinality theorems for finite sets; `Threads` is assumed finite and
  `MaxSockets` positive.
* `SockProofs`: `IInv` adds to `Sound` what each queued event says of the machine that
  raised it (so that a handler meets the state it expects), that `holds` counts the
  calls in progress, and which semaphore the closer has passed; late endpoints are
  the only ones in a list that the state of the socket says is empty.
  `SockImplementsGlobal` is the refinement of `Global`, by the same invariant.
* `SockIoProofs`: `nn_sock_onleave` goes by the flags of the socket, so `IInv` adds to
  `Sound` that they are what the descriptors are; the lemma `LeaveInv` is used for
  every way out of the context.
* `PriolistProofs`: a pipe whose event is still in the queue of the context is appended
  to its list without a look at it, so `IInv` adds that such a pipe is ready or has been
  stopped since, and that its event is queued once. Lemmas about a list (`EraseItems`, `AppendItems`,
  `CursorMoves`) and about the loop over the slots (`FirstNonEmptyFacts`, by the
  well-ordering of the naturals) give one lemma for each operation of `nn_priolist`.
  `NSlots` is assumed positive.
* `TimerProofs`: `IInv` says for each timer, state by state, in which of the
  worker's places its two tasks and its expiry may be, and that a task is queued at
  most once. `Refinement` proves that `Timer` implements the safety part of
  `TimerAbs`, every step being a step of `TimerAbs` or a stutter.
* `ReqProofs`: the properties are almost inductive together; `IInv` adds the
  phase of the socket and that a request in progress has a number.

Only proved, in no run: the type invariants of `Global`, `Timer` and `Req`, and
`SemsPostedOnce`.

Only model-checked: everything under fairness (liveness, and the fairness part of
`TimerAbs`), and the modules `Usock`, `Sws`, `Stream`, `Listen`,
`Inproc`, `Raw`, `Network` and `Trie`. What the recursive operators of `Trie` compute for
every input is beyond the prover, which has no induction over data.

## Not modelled

* The Windows back ends (`aio/usock_win.inc`, `worker_win.inc`) implement the
  interfaces of usock and worker a second time, on completion ports; the kqueue and
  poll pollers are alternatives to epoll.
* Texts: parsing of addresses, HTTP fields, base64 and SHA-1, UTF-8, masks. Where a
  text is refused, the models have the refusal as an outcome.
* Options: setters and getters, except that which sockets have `NN_SNDFD` and
  `NN_RCVFD` is used by the device. The values of intervals are time, which the models
  have as timers that may fire.
* Statistics, logging, error reports of endpoints.
* Messages are values, so that the reference counts of chunks (`utils/chunk.c`,
  `chunkref.c`) do not appear; neither do allocation failures, which abort.
* The end of the worker thread with the last socket, the end of a device on an
  error, control messages (`nn_sendmsg`, `nn_recvmsg` with `NN_MSG` headers).
