------------------------------- MODULE Timer --------------------------------
(***************************************************************************)
(* Timers (aio/timer.c) and the worker thread that runs them               *)
(* (aio/worker_posix.inc, aio/timerset.c).  A state machine starts and     *)
(* stops its timer under its own context; both requests travel to the      *)
(* worker as tasks, so the timer and the worker may disagree for a while.  *)
(*                                                                         *)
(* One stay in the context of the owner is one step.  Between taking a     *)
(* task or an expired timer off its list and entering the context of its   *)
(* owner the worker can be overtaken by the owner: "hand" is what it holds.*)
(***************************************************************************)
EXTENDS Naturals, Sequences

CONSTANT Timers

START == "START"      \* nn_timer.start_task
STOP == "STOP"        \* nn_timer.stop_task
TIMEOUT == "TIMEOUT"  \* NN_WORKER_TIMER_TIMEOUT
Tasks == Timers \X {START, STOP}
NONE == <<>>

VARIABLES
  state,     \* nn_timer.state: IDLE, ACTIVE or STOPPING
  timeout,   \* nn_timer.timeout holds an interval, that is, is not -1
  tasks,     \* nn_worker.tasks
  efd,       \* nn_worker.efd is signalled
  batch,     \* nn_worker_routine's local copy of the tasks
  tset,      \* nn_worker.timerset
  hand,      \* what the worker is about to feed, NONE at other times
  wpc,       \* where the worker is: processing timers, or a batch of tasks
  aborted    \* an assertion has failed

vars == <<state, timeout, tasks, efd, batch, tset, hand, wpc, aborted>>

In(q, x) == \E i \in 1 .. Len(q) : q[i] = x

TypeOK ==
  /\ state \in [Timers -> {"IDLE", "ACTIVE", "STOPPING"}]
  /\ timeout \in [Timers -> BOOLEAN]
  /\ tasks \in Seq(Tasks)
  /\ efd \in BOOLEAN
  /\ batch \in Seq(Tasks)
  /\ tset \subseteq Timers
  /\ hand \in {NONE} \cup Tasks \cup Timers \X {TIMEOUT}
  /\ wpc \in {"timers", "tasks", "batch"}
  /\ aborted \in BOOLEAN

Init ==
  /\ state = [t \in Timers |-> "IDLE"]
  /\ timeout = [t \in Timers |-> FALSE]
  /\ tasks = <<>> /\ efd = FALSE /\ batch = <<>>
  /\ tset = {} /\ hand = NONE /\ wpc = "timers"
  /\ aborted = FALSE

-----------------------------------------------------------------------------

(* nn_worker_execute; nn_queue_push asserts that the task is in no queue.  *)
nn_worker_execute(x) ==
  /\ tasks' = Append(tasks, x)
  /\ efd' = TRUE
Queued(x) == In(tasks, x) \/ In(batch, x)

(* nn_timer_start: nn_fsm_start, handled in IDLE state.                    *)
nn_timer_start(t) ==
  /\ ~ aborted /\ state[t] = "IDLE"
  /\ state' = [state EXCEPT ![t] = "ACTIVE"]
  /\ timeout' = [timeout EXCEPT ![t] = TRUE]
  /\ nn_worker_execute(<<t, START>>)
  /\ aborted' = Queued(<<t, START>>)
  /\ UNCHANGED <<batch, tset, hand, wpc>>

(* nn_timer_stop that takes a timer the worker does not run for stopped.   *)
nn_timer_stop_AtOnce(t) ==
  /\ ~ aborted /\ state[t] = "ACTIVE"
  /\ IF t \in tset
       THEN state' = [state EXCEPT ![t] = "STOPPING"] /\ nn_worker_execute(<<t, STOP>>)
       ELSE state' = [state EXCEPT ![t] = "IDLE"] /\ UNCHANGED <<tasks, efd>>
  /\ UNCHANGED <<timeout, batch, tset, hand, wpc, aborted>>

(* nn_timer_stop: nn_fsm_stop does nothing unless the timer is active.     *)
nn_timer_stop(t) ==
  /\ ~ aborted /\ state[t] = "ACTIVE"
  /\ state' = [state EXCEPT ![t] = "STOPPING"]
  /\ nn_worker_execute(<<t, STOP>>)
  /\ aborted' = Queued(<<t, STOP>>)
  /\ UNCHANGED <<timeout, batch, tset, hand, wpc>>

-----------------------------------------------------------------------------
(* nn_timerset_event: an expired timer leaves the set.  Any timer of the   *)
(* set may have expired.                                                   *)
nn_timerset_event(t) ==
  /\ ~ aborted /\ wpc = "timers" /\ hand = NONE
  /\ t \in tset
  /\ tset' = tset \ {t}
  /\ hand' = <<t, TIMEOUT>>
  /\ UNCHANGED <<state, timeout, tasks, efd, batch, wpc, aborted>>

(* No more expired timers: on to the events of the poller.                 *)
TimersDone ==
  /\ ~ aborted /\ wpc = "timers" /\ hand = NONE
  /\ wpc' = "tasks"
  /\ UNCHANGED <<state, timeout, tasks, efd, batch, tset, hand, aborted>>

(* The poller reports the efd: unsignal it and copy the queue.             *)
FetchTasks ==
  /\ ~ aborted /\ wpc = "tasks" /\ efd
  /\ efd' = FALSE
  /\ batch' = tasks /\ tasks' = <<>>
  /\ wpc' = "batch"
  /\ UNCHANGED <<state, timeout, tset, hand, aborted>>

(* No more events: nn_poller_wait returns for a timer, or blocks until the *)
(* efd is signalled.                                                       *)
nn_poller_wait ==
  /\ ~ aborted /\ wpc = "tasks" /\ ~ efd
  /\ tset # {}
  /\ wpc' = "timers"
  /\ UNCHANGED <<state, timeout, tasks, efd, batch, tset, hand, aborted>>

(* nn_queue_pop of the local copy.                                         *)
nn_queue_pop ==
  /\ ~ aborted /\ wpc = "batch" /\ hand = NONE /\ batch # <<>>
  /\ hand' = Head(batch) /\ batch' = Tail(batch)
  /\ UNCHANGED <<state, timeout, tasks, efd, tset, wpc, aborted>>

BatchDone ==
  /\ ~ aborted /\ wpc = "batch" /\ hand = NONE /\ batch = <<>>
  /\ wpc' = "timers"
  /\ UNCHANGED <<state, timeout, tasks, efd, batch, tset, hand, aborted>>

(* The worker enters the context and feeds the start task.  A timer that   *)
(* is being stopped ignores it.                                            *)
FeedStart(t) ==
  /\ ~ aborted /\ hand = <<t, START>>
  /\ IF state[t] = "STOPPING"
       THEN UNCHANGED <<tset, timeout>>
       ELSE tset' = tset \cup {t} /\ timeout' = [timeout EXCEPT ![t] = FALSE]
  /\ aborted' = (state[t] = "IDLE" \/ (state[t] = "ACTIVE" /\ (~ timeout[t] \/ t \in tset)))
  /\ hand' = NONE
  /\ UNCHANGED <<state, tasks, efd, batch, wpc>>

(* The expiry: the owner gets NN_TIMER_TIMEOUT unless it is stopping.      *)
FeedTimeout(t) ==
  /\ ~ aborted /\ hand = <<t, TIMEOUT>>
  /\ aborted' = (state[t] = "IDLE" \/ (state[t] = "ACTIVE" /\ timeout[t]))
  /\ hand' = NONE
  /\ UNCHANGED <<state, timeout, tasks, efd, batch, tset, wpc>>

(* FeedStop that forgets nn_worker_rm_timer.                               *)
FeedStop_KeepTimer(t) ==
  /\ ~ aborted /\ hand = <<t, STOP>>
  /\ state' = [state EXCEPT ![t] = "IDLE"]
  /\ hand' = NONE
  /\ UNCHANGED <<timeout, tasks, efd, batch, tset, wpc, aborted>>

(* The stop task: nn_worker_rm_timer, and the owner gets NN_TIMER_STOPPED. *)
FeedStop(t) ==
  /\ ~ aborted /\ hand = <<t, STOP>>
  /\ tset' = tset \ {t}
  /\ state' = [state EXCEPT ![t] = "IDLE"]
  /\ aborted' = (state[t] # "STOPPING")
  /\ hand' = NONE
  /\ UNCHANGED <<timeout, tasks, efd, batch, wpc>>

Worker ==
  \/ \E t \in Timers : nn_timerset_event(t) \/ FeedStart(t) \/ FeedTimeout(t) \/ FeedStop(t)
  \/ TimersDone
  \/ FetchTasks
  \/ nn_poller_wait
  \/ nn_queue_pop
  \/ BatchDone

Next ==
  \/ \E t \in Timers : nn_timer_start(t) \/ nn_timer_stop(t)
  \/ Worker

Spec == Init /\ [][Next]_vars

(* The worker thread keeps running, and time passes: a timer that stays in *)
(* the set is eventually found expired.                                    *)
FairSpec ==
  /\ Spec
  /\ WF_vars(Worker)
  /\ \A t \in Timers : SF_vars(nn_timerset_event(t))

-----------------------------------------------------------------------------
(* None of the assertions of the timer and of the lists it is put on fails *)
(* (nn_queue_push, nn_timerset_add, nn_timer_handler, nn_timer_shutdown).  *)
NoAssertionFails == ~ aborted

(* An idle timer is unknown to the worker: nn_timer_term may free it, and  *)
(* nn_queue_item_term and nn_timerset_hndl_term find it in no list.        *)
IdleIsQuiet ==
  \A t \in Timers : state[t] = "IDLE" =>
    /\ t \notin tset
    /\ \A x \in {START, STOP, TIMEOUT} : hand # <<t, x>> /\ ~ Queued(<<t, x>>)

(* The efd is signalled exactly while there is something to fetch, so      *)
(* nn_efd_unsignal never finds it unsignalled and no task is left behind.  *)
EfdExact == efd <=> tasks # <<>>

(* The timer and the worker agree: no assertion fails, the worker knows    *)
(* nothing of an idle timer, and a signalled worker has something to do.   *)
Sound == NoAssertionFails /\ IdleIsQuiet /\ EfdExact

(* The timers seen from their owners.                                      *)
Fired(t) == ~ timeout[t] /\ t \notin tset /\ hand # <<t, TIMEOUT>>
OwnersView == [t \in Timers |-> IF state[t] = "ACTIVE" /\ Fired(t) THEN "FIRED" ELSE state[t]]

A == INSTANCE TimerAbs WITH timer <- OwnersView

(* nn_timer with the worker keeps the promise of nn_timer: at most one     *)
(* timeout per start, none after a stop, and always a stopped event.       *)
ImplementsTimerAbs == A!FairSpec
=============================================================================
