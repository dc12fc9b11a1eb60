------------------------------ MODULE Priolist ------------------------------
(***************************************************************************)
(* How a socket picks the pipe of its next message: the priority lists     *)
(* (protocols/utils/priolist.c) behind the fair queuer (fq.c) and the load *)
(* balancer (lb.c), together with the half of nn_pipebase (core/pipe.c)    *)
(* that tells them when a pipe is ready.                                   *)
(*                                                                         *)
(* The inbound half (nn_fq, NN_PIPE_IN) and the outbound half (nn_lb,      *)
(* NN_PIPE_OUT) are the same code; they differ in how a pipe starts:       *)
(* waiting for its first message, or writable at once.  A pipe of a stream *)
(* transport is busy again after every operation (NN_PIPEBASE_RELEASE); an *)
(* inproc pipe with a backlog can be read again at once.                   *)
(*                                                                         *)
(* nn_pipebase_stop does not look whether an event of the pipe is still in *)
(* the queue of the context.  When that event is fed the socket has freed  *)
(* what it kept of the pipe; the model goes up to that point.              *)
(***************************************************************************)
EXTENDS Integers, Sequences, SequencesExt

CONSTANTS Pipes,
          NSlots,    \* NN_PRIOLIST_SLOTS
          Kinds      \* what is modelled, a subset of "fq" (fair queuer over
                     \* stream pipes), "fq_inproc" and "lb" (load balancer)

NULL == "NULL"

ASSUME PriolistAssumption ==
  NSlots \in Nat \ {0} /\ Kinds \subseteq {"fq", "fq_inproc", "lb"} /\ NULL \notin Pipes

Prios == 1 .. NSlots

VARIABLES
  kind,     \* which of Kinds this is
  prio,     \* priority of a pipe known to the socket, 0 when it is not
  pst,      \* nn_pipebase.instate / outstate: DEACTIVATED, IDLE or ASYNC
  raised,   \* NN_PIPE_IN / NN_PIPE_OUT events in the queue of the context
  slots,    \* nn_priolist.slots[k].pipes
  cur,      \* nn_priolist.slots[k].current
  current,  \* nn_priolist.current, the priority in use or -1
  broken    \* "assertion": one of them failed; "freed": an event was fed to
            \* a pipe that the socket has removed; else "no"

vars == <<kind, prio, pst, raised, slots, cur, current, broken>>

Listed(p) == \E k \in Prios : \E i \in 1 .. Len(slots[k]) : slots[k][i] = p

TypeOK ==
  /\ kind \in Kinds
  /\ prio \in [Pipes -> 0 .. NSlots]
  /\ pst \in [Pipes -> {"DEACTIVATED", "IDLE", "ASYNC"}]
  /\ raised \in Seq(Pipes)
  /\ slots \in [Prios -> Seq(Pipes)]
  /\ cur \in [Prios -> Pipes \cup {NULL}]
  /\ current \in {-1} \cup Prios
  /\ broken \in {"no", "assertion", "freed"}

(* nn_priolist_init                                                        *)
Init ==
  /\ kind \in Kinds
  /\ prio = [p \in Pipes |-> 0]
  /\ pst = [p \in Pipes |-> "DEACTIVATED"]
  /\ raised = <<>>
  /\ slots = [k \in Prios |-> <<>>]
  /\ cur = [k \in Prios |-> NULL]
  /\ current = -1
  /\ broken = "no"

-----------------------------------------------------------------------------
(* The items of a list: nn_list_next, which is also the result of          *)
(* nn_list_erase, nn_list_begin and nn_list_erase.                         *)
At(q, p) == CHOOSE i \in 1 .. Len(q) : q[i] = p
After(q, p) == IF At(q, p) = Len(q) THEN NULL ELSE q[At(q, p) + 1]
Begin(q) == IF q = <<>> THEN NULL ELSE q[1]
Erase(q, p) == RemoveAt(q, At(q, p))

(* The loop that goes from slot k to the next slot with a pipe in it.      *)
FirstNonEmpty(lists, k) ==
  IF \E j \in k .. NSlots : lists[j] # <<>>
    THEN CHOOSE j \in k .. NSlots : lists[j] # <<>> /\ \A i \in k .. j - 1 : lists[i] = <<>>
    ELSE -1

(* nn_priolist_rm leaving the cursor where it was.                         *)
nn_priolist_rm_KeepCursor(p) ==
  LET k == prio[p]
      lists == IF Listed(p) THEN [slots EXCEPT ![k] = Erase(@, p)] ELSE slots
  IN  /\ slots' = lists
      /\ UNCHANGED cur
      /\ current' = IF Listed(p) /\ current = k THEN FirstNonEmpty(lists, k) ELSE current

(* nn_priolist_rm: nothing to do for a pipe that is not listed; the cursor *)
(* of the slot moves on (with wrap-over) only if it was on the pipe.       *)
nn_priolist_rm(p) ==
  LET k == prio[p]
      q == Erase(slots[k], p)
      lists == [slots EXCEPT ![k] = q]
      next == After(slots[k], p)
  IN  \/ /\ ~ Listed(p)
         /\ UNCHANGED <<slots, cur, current>>
      \/ /\ Listed(p) /\ cur[k] # p
         /\ slots' = lists
         /\ UNCHANGED <<cur, current>>
      \/ /\ Listed(p) /\ cur[k] = p
         /\ slots' = lists
         /\ cur' = [cur EXCEPT ![k] = IF next = NULL THEN Begin(q) ELSE next]
         /\ current' = IF current = k THEN FirstNonEmpty(lists, k) ELSE current

(* nn_priolist_activate that never takes over from a lower priority.       *)
nn_priolist_activate_NoPreempt(p) ==
  LET k == prio[p] IN
  /\ slots' = [slots EXCEPT ![k] = Append(@, p)]
  /\ cur' = IF slots[k] = <<>> THEN [cur EXCEPT ![k] = p] ELSE cur
  /\ current' = IF current = -1 THEN k ELSE current

(* nn_priolist_activate that serves the newcomer first.                    *)
nn_priolist_activate_TakeCursor(p) ==
  LET k == prio[p] IN
  /\ slots' = [slots EXCEPT ![k] = Append(@, p)]
  /\ cur' = [cur EXCEPT ![k] = p]
  /\ current' = IF current = -1 \/ current > k THEN k ELSE current

(* nn_priolist_activate: append; the first pipe of a slot becomes its      *)
(* cursor, and the slot becomes current if it is better than the current.  *)
nn_priolist_activate(p) ==
  LET k == prio[p] IN
  /\ slots' = [slots EXCEPT ![k] = Append(@, p)]
  /\ IF slots[k] # <<>>
       THEN UNCHANGED <<cur, current>>
       ELSE /\ cur' = [cur EXCEPT ![k] = p]
            /\ current' = IF current = -1 \/ current > k THEN k ELSE current

(* nn_priolist_advance: the cursor goes to the next pipe, the pipe just    *)
(* used leaves the list if it was released.                                *)
nn_priolist_advance(release) ==
  LET k == current
      next == After(slots[k], cur[k])
      q == IF release THEN Erase(slots[k], cur[k]) ELSE slots[k]
      lists == [slots EXCEPT ![k] = q]
  IN  /\ slots' = lists
      /\ cur' = [cur EXCEPT ![k] = IF next = NULL THEN Begin(q) ELSE next]
      /\ current' = FirstNonEmpty(lists, k)

-----------------------------------------------------------------------------
Queued(p) == \E i \in 1 .. Len(raised) : raised[i] = p

(* The process ends here, or does something the code does not determine.   *)
Break(how) == broken' = how /\ UNCHANGED <<kind, prio, pst, raised, slots, cur, current>>

(* nn_pipebase_start: the socket adds the pipe to the list under the       *)
(* priority of its endpoint; an outbound pipe is ready at once.  A pipe    *)
(* that was stopped is started again after the worker has closed its       *)
(* connection, and until then the queue of the context has run empty.      *)
nn_pipebase_start(p, k) ==
  /\ prio[p] = 0 /\ ~ Queued(p) /\ broken = "no"
  /\ prio' = [prio EXCEPT ![p] = k]
  /\ pst' = [pst EXCEPT ![p] = IF kind = "lb" THEN "IDLE" ELSE "ASYNC"]
  /\ raised' = IF kind = "lb" THEN Append(raised, p) ELSE raised
  /\ UNCHANGED <<kind, slots, cur, current, broken>>

(* nn_pipebase_received / nn_pipebase_sent called by the transport after   *)
(* the operation that returned NN_PIPEBASE_RELEASE.                        *)
nn_pipebase_ready(p) ==
  /\ prio[p] # 0 /\ pst[p] = "ASYNC" /\ broken = "no"
  /\ pst' = [pst EXCEPT ![p] = "IDLE"]
  /\ raised' = Append(raised, p)
  /\ UNCHANGED <<kind, prio, slots, cur, current, broken>>

(* The context feeds NN_PIPE_IN or NN_PIPE_OUT: nn_fq_in, nn_lb_out.       *)
(* nn_list_insert asserts that the pipe is in no list.                     *)
FeedPipeEvent ==
  /\ raised # <<>> /\ broken = "no"
  /\ IF prio[Head(raised)] = 0 THEN Break("freed")
     ELSE IF Listed(Head(raised)) THEN Break("assertion")
     ELSE /\ nn_priolist_activate(Head(raised))
          /\ raised' = Tail(raised)
          /\ UNCHANGED <<kind, prio, pst, broken>>

(* nn_fq_recv and nn_lb_send: use the pipe under the cursor of the current *)
(* slot.  nn_pipe_recv and nn_pipe_send assert that it is IDLE.  If the    *)
(* transport called nn_pipebase_received within the call the pipe is not   *)
(* released; no transport completes a send within the call.                *)
Use(release) ==
  LET p == cur[current] IN
  /\ current # -1 /\ broken = "no"
  /\ IF pst[p] # "IDLE" THEN Break("assertion")
     ELSE /\ pst' = [pst EXCEPT ![p] = IF release THEN "ASYNC" ELSE "IDLE"]
          /\ nn_priolist_advance(release)
          /\ UNCHANGED <<kind, prio, raised, broken>>

nn_fq_recv == kind # "lb" /\ \E release \in {TRUE, kind = "fq"} : Use(release)

nn_lb_send == kind = "lb" /\ Use(TRUE)

(* nn_pipebase_stop, whether or not an event of the pipe is in the queue.  *)
nn_pipebase_stop(p) ==
  /\ prio[p] # 0 /\ broken = "no"
  /\ nn_priolist_rm(p)
  /\ prio' = [prio EXCEPT ![p] = 0]
  /\ UNCHANGED <<kind, pst, raised, broken>>

(* Nothing more is said of a process that has used freed memory.           *)
Dead == broken # "no" /\ UNCHANGED vars

Next ==
  \/ \E p \in Pipes, k \in Prios : nn_pipebase_start(p, k)
  \/ \E p \in Pipes : nn_pipebase_ready(p) \/ nn_pipebase_stop(p)
  \/ FeedPipeEvent
  \/ nn_fq_recv
  \/ nn_lb_send
  \/ Dead

Spec == Init /\ [][Next]_vars

(* The application keeps sending or receiving, and a thread leaves the     *)
(* context only after it has fed all events.                               *)
FairSpec == Spec /\ WF_vars(FeedPipeEvent) /\ SF_vars(nn_fq_recv) /\ SF_vars(nn_lb_send)

-----------------------------------------------------------------------------
(* nn_setsockopt.adoc, NN_SNDPRIO: "peers with high priority take          *)
(* precedence": the current slot is the best one that has a ready pipe.    *)
(* The cursor of a slot is on one of its pipes, never on one that has left.*)
CurrentIsBest ==
  /\ current = -1 <=> \A k \in Prios : slots[k] = <<>>
  /\ current # -1 => /\ slots[current] # <<>>
                     /\ \A k \in 1 .. current - 1 : slots[k] = <<>>
  /\ \A k \in Prios : IF slots[k] = <<>> THEN cur[k] = NULL
                      ELSE \E i \in 1 .. Len(slots[k]) : slots[k][i] = cur[k]

(* A pipe is listed, once and under its own priority, exactly when it can  *)
(* be used: no ready pipe is forgotten, none that is busy or gone stays in *)
(* a list, also when it was stopped with its event still queued.           *)
ReadyPipesListed ==
  /\ \A p \in Pipes : Listed(p) <=> prio[p] # 0 /\ pst[p] = "IDLE" /\ ~ Queued(p)
  /\ \A k \in Prios : \A i, j \in 1 .. Len(slots[k]) :
       prio[slots[k][i]] = k /\ (slots[k][i] = slots[k][j] => i = j)

(* The list of priorities is consistent: the best slot is the current one, *)
(* its cursor is on a pipe of it, and exactly the pipes that are ready are *)
(* listed; so the assertions of nn_pipe_recv, nn_pipe_send and             *)
(* nn_list_insert hold, in any order of starts, events, uses and stops.    *)
Sound == TypeOK /\ CurrentIsBest /\ ReadyPipesListed /\ broken # "assertion"

(* The cursor gets to every ready pipe of the current priority.            *)
Served(p) ==
  Listed(p) /\ prio[p] = current ~>
    ~ Listed(p) \/ prio[p] # current \/ cur[prio[p]] = p \/ broken = "freed"

(* As long as every operation releases its pipe, no ready pipe is passed   *)
(* over for ever.                                                          *)
StreamPipesServed == \A p \in Pipes : kind = "fq_inproc" \/ Served(p)

(* fq.h: "Retrieves messages from a set of pipes in round-robin manner":   *)
(* the same for pipes that stay readable after a receive.                  *)
RoundRobin == \A p \in Pipes : Served(p)
=============================================================================
