---------------------------- MODULE TimerProofs -----------------------------
(***************************************************************************)
(* Timers are safe for any set of timers sharing a worker, and implement   *)
(* TimerAbs (its safety part; the fairness part is model-checked).         *)
(*                                                                         *)
(* The argument is about where the two tasks of a timer are.  A stop task  *)
(* exists only while the timer is stopping, and a start task is always     *)
(* ahead of it, so that nothing of the timer is left with the worker when  *)
(* the stop task is fed.                                                   *)
(***************************************************************************)
EXTENDS Timer, TLAPS

Unique(q) == \A i, j \in 1 .. Len(q) : q[i] = q[j] => i = j

(* x never comes before y in q.                                            *)
NotBefore(q, x, y) == \A i, j \in 1 .. Len(q) : q[i] = x /\ q[j] = y => j < i

(* A task is queued at most once, and the local copy of the queue and the  *)
(* task in hand belong to the batch being processed.                       *)
QueueInv ==
  /\ wpc # "batch" => batch = <<>>
  /\ \A t \in Timers : hand \in {<<t, START>>, <<t, STOP>>} => wpc = "batch"
  /\ \A t \in Timers : hand = <<t, TIMEOUT>> => wpc = "timers"
  /\ Unique(tasks) /\ Unique(batch)
  /\ \A x \in Tasks : ~ (In(tasks, x) /\ In(batch, x)) /\ (hand = x => ~ Queued(x))

Pending(x) == hand = x \/ Queued(x)

(* Where the tasks and the expiry of a timer can be, by its state.         *)
TimerAt(t) ==
  /\ Pending(<<t, STOP>>) => state[t] = "STOPPING"
  /\ Pending(<<t, START>>) => /\ state[t] # "IDLE"
                              /\ state[t] = "ACTIVE" => timeout[t]
                              /\ t \notin tset /\ hand # <<t, TIMEOUT>>
  /\ t \in tset \/ hand = <<t, TIMEOUT>> => /\ state[t] # "IDLE"
                                            /\ state[t] = "ACTIVE" => ~ timeout[t]
  /\ hand = <<t, TIMEOUT>> => t \notin tset
  /\ hand = <<t, STOP>> => ~ Queued(<<t, START>>)
  /\ In(batch, <<t, STOP>>) => ~ In(tasks, <<t, START>>)
  /\ NotBefore(batch, <<t, STOP>>, <<t, START>>)
  /\ NotBefore(tasks, <<t, STOP>>, <<t, START>>)

TimerInv == \A t \in Timers : TimerAt(t)

IInv == TypeOK /\ ~ aborted /\ EfdExact /\ QueueInv /\ TimerInv

USE DEF START, STOP, TIMEOUT, NONE

-----------------------------------------------------------------------------
(* What nn_queue_push does to a queue.                                     *)
LEMMA PushFacts ==
  ASSUME NEW q \in Seq(Tasks), NEW x \in Tasks
  PROVE  /\ Append(q, x) \in Seq(Tasks) /\ Append(q, x) # <<>>
         /\ \A y : In(Append(q, x), y) <=> In(q, y) \/ y = x
         /\ Unique(q) /\ ~ In(q, x) => Unique(Append(q, x))
         /\ \A y, z : NotBefore(q, y, z) /\ (z = x => ~ In(q, y)) /\ y # z
                        => NotBefore(Append(q, x), y, z)
<1>1. Append(q, x) \in Seq(Tasks) /\ Len(Append(q, x)) = Len(q) + 1 /\ Len(q) \in Nat
  OBVIOUS
<1>2. \A i \in 1 .. Len(q) : Append(q, x)[i] = q[i]
  OBVIOUS
<1>3. Append(q, x)[Len(q) + 1] = x
  OBVIOUS
<1>4. \A y : In(Append(q, x), y) <=> In(q, y) \/ y = x
  BY <1>1, <1>2, <1>3 DEF In
<1>5. Unique(q) /\ ~ In(q, x) => Unique(Append(q, x))
  BY <1>1, <1>2, <1>3 DEF In, Unique
<1>6. \A y, z : NotBefore(q, y, z) /\ (z = x => ~ In(q, y)) /\ y # z
                  => NotBefore(Append(q, x), y, z)
  BY <1>1, <1>2, <1>3 DEF In, NotBefore
<1> QED
  BY <1>1, <1>4, <1>5, <1>6

(* What nn_queue_pop does to a queue.                                      *)
LEMMA PopFacts ==
  ASSUME NEW q \in Seq(Tasks), q # <<>>
  PROVE  /\ Head(q) \in Tasks /\ Tail(q) \in Seq(Tasks)
         /\ \A y : In(q, y) <=> y = Head(q) \/ In(Tail(q), y)
         /\ Unique(q) => Unique(Tail(q)) /\ ~ In(Tail(q), Head(q))
         /\ \A y, z : NotBefore(q, y, z) => /\ NotBefore(Tail(q), y, z)
                                            /\ Head(q) = y => ~ In(Tail(q), z)
<1>1. Len(q) \in Nat \ {0} /\ Tail(q) \in Seq(Tasks) /\ Len(Tail(q)) = Len(q) - 1
  OBVIOUS
<1>2. Head(q) = q[1] /\ Head(q) \in Tasks
  OBVIOUS
<1>3. \A i \in 1 .. Len(q) - 1 : Tail(q)[i] = q[i + 1]
  OBVIOUS
<1>4. \A y : In(q, y) <=> y = Head(q) \/ In(Tail(q), y)
  <2> TAKE y
  <2>1. ASSUME In(q, y), y # Head(q) PROVE In(Tail(q), y)
    <3>1. PICK i \in 1 .. Len(q) : q[i] = y
      BY <2>1 DEF In
    <3>2. i # 1 /\ i - 1 \in 1 .. Len(q) - 1
      BY <3>1, <2>1, <1>1, <1>2
    <3>3. Tail(q)[i - 1] = y
      BY <3>1, <3>2, <1>3, <1>1
    <3> QED
      BY <3>2, <3>3, <1>1 DEF In
  <2>2. In(Tail(q), y) => In(q, y)
    BY <1>1, <1>3 DEF In
  <2>3. In(q, Head(q))
    BY <1>1, <1>2 DEF In
  <2> QED
    BY <2>1, <2>2, <2>3
<1>5. Unique(q) => Unique(Tail(q)) /\ ~ In(Tail(q), Head(q))
  BY <1>1, <1>2, <1>3 DEF Unique, In
<1>6. \A y, z : NotBefore(q, y, z) => /\ NotBefore(Tail(q), y, z)
                                      /\ Head(q) = y => ~ In(Tail(q), z)
  BY <1>1, <1>2, <1>3 DEF NotBefore, In
<1> QED
  BY <1>1, <1>2, <1>4, <1>5, <1>6

(* An empty queue.                                                         *)
LEMMA EmptyFacts ==
  /\ <<>> \in Seq(Tasks) /\ Unique(<<>>)
  /\ \A y : ~ In(<<>>, y)
  /\ \A y, z : NotBefore(<<>>, y, z)
BY DEF Unique, In, NotBefore

-----------------------------------------------------------------------------
(* Initially the worker knows of no timer.                                 *)
LEMMA InitInv == Init => IInv
<1> SUFFICES ASSUME Init PROVE IInv
  OBVIOUS
<1>1. aborted \in BOOLEAN /\ ~ aborted /\ efd = FALSE
  BY DEF Init
<1>2. TypeOK
  BY <1>1, EmptyFacts DEF Init, TypeOK
<1>3. QueueInv
  BY EmptyFacts DEF Init, QueueInv, Queued, Tasks
<1>4. TimerInv
  BY EmptyFacts DEF Init, TimerInv, TimerAt, Pending, Queued
<1> QED
  BY <1>1, <1>2, <1>3, <1>4 DEF IInv, EfdExact, Init

(* nn_timer_start: an idle timer has no tasks with the worker.             *)
LEMMA StartInv == ASSUME IInv, NEW t \in Timers, nn_timer_start(t) PROVE IInv'
<1> DEFINE x == <<t, START>>
<1>0. x \in Tasks /\ ~ Queued(x) /\ tasks \in Seq(Tasks)
  BY DEF IInv, TypeOK, TimerInv, TimerAt, Pending, nn_timer_start, Tasks
<1>1. /\ tasks' \in Seq(Tasks) /\ tasks' # <<>>
      /\ \A y : In(tasks', y) <=> In(tasks, y) \/ y = x
      /\ Unique(tasks')
      /\ \A y, z : NotBefore(tasks, y, z) /\ (z = x => ~ In(tasks, y)) /\ y # z
                     => NotBefore(tasks', y, z)
  <2>1. tasks' = Append(tasks, x) /\ ~ In(tasks, x) /\ Unique(tasks)
    BY <1>0 DEF nn_timer_start, nn_worker_execute, Queued, IInv, QueueInv
  <2> HIDE DEF x
  <2> QED
    BY <1>0, <2>1, PushFacts
<1>2. aborted' \in BOOLEAN /\ ~ aborted' /\ efd' = TRUE
  BY <1>0 DEF nn_timer_start, nn_worker_execute, Queued, In
<1>3. TypeOK'
  BY <1>1, <1>2 DEF IInv, TypeOK, nn_timer_start
<1>4. EfdExact'
  BY <1>1, <1>2 DEF EfdExact
<1>5. QueueInv'
  <2>1. hand # x /\ ~ In(batch, x)
    BY <1>0 DEF IInv, TimerInv, TimerAt, Pending, nn_timer_start, Queued
  <2>2. UNCHANGED <<batch, hand, wpc>>
    BY DEF nn_timer_start
  <2>3. Unique(batch') /\ \A y : In(batch', y) <=> In(batch, y)
    BY <2>2 DEF IInv, QueueInv
  <2>4. \A y \in Tasks : ~ (In(tasks', y) /\ In(batch', y)) /\ (hand' = y => ~ (In(tasks', y) \/ In(batch', y)))
    BY <1>1, <2>1, <2>2, <2>3 DEF IInv, QueueInv, Queued
  <2> QED
    BY <1>1, <2>2, <2>3, <2>4 DEF IInv, QueueInv, Queued
<1>6. TimerInv'
  <2> SUFFICES ASSUME NEW u \in Timers PROVE TimerAt(u)'
    BY DEF TimerInv
  <2>1. TimerAt(u)
    BY DEF IInv, TimerInv
  <2>2. CASE u = t
    BY <1>0, <1>1, <2>1, <2>2 DEF IInv, TypeOK, TimerAt, Pending, Queued, nn_timer_start, Tasks
  <2>3. CASE u # t
    <3>1. <<u, START>> # x /\ <<u, STOP>> # x
      BY <2>3
    <3>2. NotBefore(tasks', <<u, STOP>>, <<u, START>>)
      BY <1>1, <2>1, <3>1 DEF TimerAt
    <3> QED
      BY <1>0, <1>1, <2>1, <2>3, <3>1, <3>2 DEF IInv, TypeOK, TimerAt, Pending, Queued, nn_timer_start
  <2> QED
    BY <2>2, <2>3
<1> QED
  BY <1>2, <1>3, <1>4, <1>5, <1>6 DEF IInv

(* nn_timer_stop: an active timer has no stop task.                        *)
LEMMA StopInv == ASSUME IInv, NEW t \in Timers, nn_timer_stop(t) PROVE IInv'
<1> DEFINE x == <<t, STOP>>
<1>0. x \in Tasks /\ ~ Queued(x) /\ tasks \in Seq(Tasks)
  BY DEF IInv, TypeOK, TimerInv, TimerAt, Pending, nn_timer_stop, Tasks
<1>1. /\ tasks' \in Seq(Tasks) /\ tasks' # <<>>
      /\ \A y : In(tasks', y) <=> In(tasks, y) \/ y = x
      /\ Unique(tasks')
      /\ \A y, z : NotBefore(tasks, y, z) /\ (z = x => ~ In(tasks, y)) /\ y # z
                     => NotBefore(tasks', y, z)
  <2>1. tasks' = Append(tasks, x) /\ ~ In(tasks, x) /\ Unique(tasks)
    BY <1>0 DEF nn_timer_stop, nn_worker_execute, Queued, IInv, QueueInv
  <2> HIDE DEF x
  <2> QED
    BY <1>0, <2>1, PushFacts
<1>2. aborted' \in BOOLEAN /\ ~ aborted' /\ efd' = TRUE
  BY <1>0 DEF nn_timer_stop, nn_worker_execute, Queued, In
<1>3. TypeOK'
  BY <1>1, <1>2 DEF IInv, TypeOK, nn_timer_stop
<1>4. EfdExact'
  BY <1>1, <1>2 DEF EfdExact
<1>5. QueueInv'
  <2>1. hand # x /\ ~ In(batch, x)
    BY <1>0 DEF IInv, TimerInv, TimerAt, Pending, nn_timer_stop, Queued
  <2>2. UNCHANGED <<batch, hand, wpc>>
    BY DEF nn_timer_stop
  <2>3. Unique(batch') /\ \A y : In(batch', y) <=> In(batch, y)
    BY <2>2 DEF IInv, QueueInv
  <2>4. \A y \in Tasks : ~ (In(tasks', y) /\ In(batch', y)) /\ (hand' = y => ~ (In(tasks', y) \/ In(batch', y)))
    BY <1>1, <2>1, <2>2, <2>3 DEF IInv, QueueInv, Queued
  <2> QED
    BY <1>1, <2>2, <2>3, <2>4 DEF IInv, QueueInv, Queued
<1>6. TimerInv'
  <2> SUFFICES ASSUME NEW u \in Timers PROVE TimerAt(u)'
    BY DEF TimerInv
  <2>1. TimerAt(u)
    BY DEF IInv, TimerInv
  <2>2. CASE u = t
    BY <1>0, <1>1, <2>1, <2>2 DEF IInv, TypeOK, TimerAt, Pending, Queued, nn_timer_stop, Tasks
  <2>3. CASE u # t
    <3>1. <<u, START>> # x /\ <<u, STOP>> # x
      BY <2>3
    <3>2. NotBefore(tasks', <<u, STOP>>, <<u, START>>)
      BY <1>1, <2>1, <3>1 DEF TimerAt
    <3> QED
      BY <1>0, <1>1, <2>1, <2>3, <3>1, <3>2 DEF IInv, TypeOK, TimerAt, Pending, Queued, nn_timer_stop
  <2> QED
    BY <2>2, <2>3
<1> QED
  BY <1>2, <1>3, <1>4, <1>5, <1>6 DEF IInv


(* An expired timer leaves the set.                                        *)
LEMMA EventInv == ASSUME IInv, NEW t \in Timers, nn_timerset_event(t) PROVE IInv'
<1>2. aborted' \in BOOLEAN /\ ~ aborted'
  BY DEF IInv, TypeOK, TimerInv, TimerAt, Pending, nn_timerset_event
<1>3. TypeOK'
  BY <1>2 DEF IInv, TypeOK, nn_timerset_event, Tasks
<1>4. EfdExact'
  BY DEF IInv, EfdExact, nn_timerset_event
<1>5. QueueInv'
  BY DEF IInv, TypeOK, QueueInv, Queued, nn_timerset_event, Tasks
<1>6. TimerInv'
  BY DEF IInv, TypeOK, QueueInv, TimerInv, TimerAt, Pending, Queued, nn_timerset_event
<1> QED
  BY <1>2, <1>3, <1>4, <1>5, <1>6 DEF IInv

(* The worker goes on to its tasks.                                        *)
LEMMA TimersDoneInv == IInv /\ TimersDone => IInv'
<1> SUFFICES ASSUME IInv, TimersDone PROVE IInv'
  OBVIOUS
<1>2. aborted' \in BOOLEAN /\ ~ aborted'
  BY DEF IInv, TypeOK, TimerInv, TimerAt, Pending, TimersDone
<1>3. TypeOK'
  BY <1>2 DEF IInv, TypeOK, TimersDone, Tasks
<1>4. EfdExact'
  BY DEF IInv, EfdExact, TimersDone
<1>5. QueueInv'
  BY DEF IInv, TypeOK, QueueInv, Queued, TimersDone, Tasks
<1>6. TimerInv'
  BY DEF IInv, TypeOK, QueueInv, TimerInv, TimerAt, Pending, Queued, TimersDone
<1> QED
  BY <1>2, <1>3, <1>4, <1>5, <1>6 DEF IInv

(* The worker copies its queue.                                            *)
LEMMA FetchInv == IInv /\ FetchTasks => IInv'
<1> SUFFICES ASSUME IInv, FetchTasks PROVE IInv'
  OBVIOUS
<1>1. batch = <<>> /\ batch' = tasks /\ tasks' = <<>> /\ hand' = hand
  BY DEF IInv, QueueInv, FetchTasks
<1>2. aborted' \in BOOLEAN /\ ~ aborted'
  BY DEF IInv, TypeOK, TimerInv, TimerAt, Pending, FetchTasks
<1>3. TypeOK'
  BY <1>2, EmptyFacts DEF IInv, TypeOK, FetchTasks, Tasks
<1>4. EfdExact'
  BY DEF IInv, EfdExact, FetchTasks
<1>5. QueueInv'
  BY <1>1, EmptyFacts DEF IInv, TypeOK, QueueInv, Queued, FetchTasks, Tasks
<1>6. TimerInv'
  BY <1>1, EmptyFacts DEF IInv, TypeOK, QueueInv, TimerInv, TimerAt, Pending, Queued, FetchTasks
<1> QED
  BY <1>2, <1>3, <1>4, <1>5, <1>6 DEF IInv

(* The worker goes back to its timers.                                     *)
LEMMA WaitInv == IInv /\ nn_poller_wait => IInv'
<1> SUFFICES ASSUME IInv, nn_poller_wait PROVE IInv'
  OBVIOUS
<1>2. aborted' \in BOOLEAN /\ ~ aborted'
  BY DEF IInv, TypeOK, TimerInv, TimerAt, Pending, nn_poller_wait
<1>3. TypeOK'
  BY <1>2 DEF IInv, TypeOK, nn_poller_wait, Tasks
<1>4. EfdExact'
  BY DEF IInv, EfdExact, nn_poller_wait
<1>5. QueueInv'
  BY DEF IInv, TypeOK, QueueInv, Queued, nn_poller_wait, Tasks
<1>6. TimerInv'
  BY DEF IInv, TypeOK, QueueInv, TimerInv, TimerAt, Pending, Queued, nn_poller_wait
<1> QED
  BY <1>2, <1>3, <1>4, <1>5, <1>6 DEF IInv

(* The worker takes a task.                                                *)
LEMMA PopInv == IInv /\ nn_queue_pop => IInv'
<1> SUFFICES ASSUME IInv, nn_queue_pop PROVE IInv'
  OBVIOUS
<1>1. /\ hand' \in Tasks /\ batch' \in Seq(Tasks)
      /\ \A y : In(batch, y) <=> y = hand' \/ In(batch', y)
      /\ Unique(batch') /\ ~ In(batch', hand')
      /\ \A y, z : NotBefore(batch, y, z) => /\ NotBefore(batch', y, z)
                                             /\ hand' = y => ~ In(batch', z)
  <2>1. batch \in Seq(Tasks) /\ batch # <<>> /\ Unique(batch)
    BY DEF IInv, TypeOK, QueueInv, nn_queue_pop
  <2>2. hand' = Head(batch) /\ batch' = Tail(batch)
    BY DEF nn_queue_pop
  <2> QED
    BY <2>1, <2>2, PopFacts
<1>2. aborted' \in BOOLEAN /\ ~ aborted'
  BY DEF IInv, TypeOK, TimerInv, TimerAt, Pending, nn_queue_pop
<1>3. TypeOK'
  BY <1>2, <1>1 DEF IInv, TypeOK, nn_queue_pop, Tasks
<1>4. EfdExact'
  BY DEF IInv, EfdExact, nn_queue_pop
<1>5. QueueInv'
  BY <1>1 DEF IInv, TypeOK, QueueInv, Queued, nn_queue_pop, Tasks
<1>6. TimerInv'
  <2> SUFFICES ASSUME NEW u \in Timers PROVE TimerAt(u)'
    BY DEF TimerInv
  <2>1. TimerAt(u) /\ hand = NONE /\ UNCHANGED <<state, timeout, tasks, tset>>
    BY DEF IInv, TimerInv, nn_queue_pop
  <2>2. <<u, START>> \in Tasks /\ <<u, STOP>> \in Tasks /\ <<u, TIMEOUT>> \notin Tasks
    BY DEF Tasks
  <2>3. \A y \in Tasks : ~ (In(tasks, y) /\ In(batch, y))
    BY DEF IInv, QueueInv
  <2> QED
    BY <1>1, <2>1, <2>2, <2>3 DEF TimerAt, Pending, Queued
<1> QED
  BY <1>2, <1>3, <1>4, <1>5, <1>6 DEF IInv

(* The worker has done its batch.                                          *)
LEMMA BatchDoneInv == IInv /\ BatchDone => IInv'
<1> SUFFICES ASSUME IInv, BatchDone PROVE IInv'
  OBVIOUS
<1>2. aborted' \in BOOLEAN /\ ~ aborted'
  BY DEF IInv, TypeOK, TimerInv, TimerAt, Pending, BatchDone
<1>3. TypeOK'
  BY <1>2 DEF IInv, TypeOK, BatchDone, Tasks
<1>4. EfdExact'
  BY DEF IInv, EfdExact, BatchDone
<1>5. QueueInv'
  BY DEF IInv, TypeOK, QueueInv, Queued, BatchDone, Tasks
<1>6. TimerInv'
  BY DEF IInv, TypeOK, QueueInv, TimerInv, TimerAt, Pending, Queued, BatchDone
<1> QED
  BY <1>2, <1>3, <1>4, <1>5, <1>6 DEF IInv

(* The start task.                                                         *)
LEMMA FeedStartInv == ASSUME IInv, NEW t \in Timers, FeedStart(t) PROVE IInv'
<1>2. aborted' \in BOOLEAN /\ ~ aborted'
  BY DEF IInv, TypeOK, TimerInv, TimerAt, Pending, FeedStart
<1>3. TypeOK'
  <2>1. timeout' \in [Timers -> BOOLEAN]
    BY DEF IInv, TypeOK, FeedStart
  <2>2. tset' \subseteq Timers
    BY DEF IInv, TypeOK, FeedStart
  <2> QED
    BY <1>2, <2>1, <2>2 DEF IInv, TypeOK, FeedStart
<1>4. EfdExact'
  BY DEF IInv, EfdExact, FeedStart
<1>5. QueueInv'
  BY DEF IInv, TypeOK, QueueInv, Queued, FeedStart, Tasks
<1>6. TimerInv'
  BY DEF IInv, TypeOK, QueueInv, TimerInv, TimerAt, Pending, Queued, FeedStart
<1> QED
  BY <1>2, <1>3, <1>4, <1>5, <1>6 DEF IInv

(* The expiry.                                                             *)
LEMMA FeedTimeoutInv == ASSUME IInv, NEW t \in Timers, FeedTimeout(t) PROVE IInv'
<1>2. aborted' \in BOOLEAN /\ ~ aborted'
  BY DEF IInv, TypeOK, TimerInv, TimerAt, Pending, FeedTimeout
<1>3. TypeOK'
  BY <1>2 DEF IInv, TypeOK, FeedTimeout, Tasks
<1>4. EfdExact'
  BY DEF IInv, EfdExact, FeedTimeout
<1>5. QueueInv'
  BY DEF IInv, TypeOK, QueueInv, Queued, FeedTimeout, Tasks
<1>6. TimerInv'
  BY DEF IInv, TypeOK, QueueInv, TimerInv, TimerAt, Pending, Queued, FeedTimeout
<1> QED
  BY <1>2, <1>3, <1>4, <1>5, <1>6 DEF IInv

(* The stop task.                                                          *)
LEMMA FeedStopInv == ASSUME IInv, NEW t \in Timers, FeedStop(t) PROVE IInv'
<1>2. aborted' \in BOOLEAN /\ ~ aborted'
  BY DEF IInv, TypeOK, TimerInv, TimerAt, Pending, FeedStop
<1>3. TypeOK'
  BY <1>2 DEF IInv, TypeOK, FeedStop, Tasks
<1>4. EfdExact'
  BY DEF IInv, EfdExact, FeedStop
<1>5. QueueInv'
  BY DEF IInv, TypeOK, QueueInv, Queued, FeedStop, Tasks
<1>6. TimerInv'
  BY DEF IInv, TypeOK, QueueInv, TimerInv, TimerAt, Pending, Queued, FeedStop
<1> QED
  BY <1>2, <1>3, <1>4, <1>5, <1>6 DEF IInv


-----------------------------------------------------------------------------
(* Every step of the timers and of the worker preserves the invariant.     *)
LEMMA NextInv == IInv /\ [Next]_vars => IInv'
<1> SUFFICES ASSUME IInv, [Next]_vars PROVE IInv'
  OBVIOUS
<1>1. CASE UNCHANGED vars
  BY <1>1 DEF vars, IInv, TypeOK, EfdExact, QueueInv, TimerInv, TimerAt, Pending, Queued
<1>2. CASE Next
  BY <1>2, StartInv, StopInv, EventInv, TimersDoneInv, FetchInv, WaitInv, PopInv, BatchDoneInv,
     FeedStartInv, FeedTimeoutInv, FeedStopInv DEF Next, Worker
<1> QED
  BY <1>1, <1>2

(* The timers and the worker keep their invariant for ever.                *)
THEOREM Inductive == Spec => []IInv
  BY InitInv, NextInv, PTL DEF Spec

(* The variables of the timers and of the worker keep their types.         *)
THEOREM TypeCorrect == Spec => []TypeOK
<1>1. IInv => TypeOK
  BY DEF IInv
<1> QED
  BY <1>1, Inductive, PTL

(* No assertion of nn_timer, nn_queue_push or nn_timerset_add fails.       *)
THEOREM AssertionsHold == Spec => []NoAssertionFails
<1>1. IInv => NoAssertionFails
  BY DEF IInv, NoAssertionFails
<1> QED
  BY <1>1, Inductive, PTL

(* The worker holds nothing of an idle timer, which may be freed.          *)
THEOREM IdleSafe == Spec => []IdleIsQuiet
<1>1. IInv => IdleIsQuiet
  <2> SUFFICES ASSUME IInv, NEW t \in Timers, state[t] = "IDLE"
               PROVE  /\ t \notin tset
                      /\ \A x \in {START, STOP, TIMEOUT} : hand # <<t, x>> /\ ~ Queued(<<t, x>>)
    BY DEF IdleIsQuiet
  <2>1. TimerAt(t)
    BY DEF IInv, TimerInv
  <2>2. ~ Queued(<<t, TIMEOUT>>)
    <3>1. \A i \in 1 .. Len(tasks) : tasks[i] \in Tasks
      BY DEF IInv, TypeOK
    <3>2. \A i \in 1 .. Len(batch) : batch[i] \in Tasks
      BY DEF IInv, TypeOK
    <3>3. <<t, TIMEOUT>> \notin Tasks
      BY DEF Tasks
    <3> QED
      BY <3>1, <3>2, <3>3 DEF Queued, In
  <2> QED
    BY <2>1, <2>2 DEF TimerAt, Pending
<1> QED
  BY <1>1, Inductive, PTL

(* The efd is signalled exactly while tasks wait for the worker.           *)
THEOREM EfdSafe == Spec => []EfdExact
<1>1. IInv => EfdExact
  BY DEF IInv
<1> QED
  BY <1>1, Inductive, PTL

-----------------------------------------------------------------------------
(* What the owner of timer t sees.                                         *)
View(t) == IF state[t] = "ACTIVE" /\ Fired(t) THEN "FIRED" ELSE state[t]

(* A step of nn_timer or of the worker is a step of TimerAbs, or leaves    *)
(* what the owners see unchanged.                                          *)
LEMMA StepSimulation == IInv /\ [Next]_vars => [A!Next]_OwnersView
<1> SUFFICES ASSUME IInv, [Next]_vars PROVE [A!Next]_OwnersView
  OBVIOUS
<1> DEFINE V == [t \in Timers |-> View(t)]
<1>0. OwnersView = V /\ OwnersView' = V'
  BY DEF OwnersView, View
<1>1. CASE UNCHANGED vars
  BY <1>0, <1>1 DEF vars, View, Fired
<1>2. ASSUME NEW t \in Timers, nn_timer_start(t) PROVE A!Start(t)
  <2>1. state[t] = "IDLE" /\ state' = [state EXCEPT ![t] = "ACTIVE"]
    BY <1>2 DEF nn_timer_start
  <2>2. timeout' = [timeout EXCEPT ![t] = TRUE] /\ UNCHANGED <<tset, hand>>
    BY <1>2 DEF nn_timer_start
  <2> QED
    BY <2>1, <2>2 DEF IInv, TypeOK, View, Fired, A!Start, OwnersView
<1>3. ASSUME NEW t \in Timers, nn_timer_stop(t) PROVE A!Stop(t)
  <2>1. state[t] = "ACTIVE" /\ state' = [state EXCEPT ![t] = "STOPPING"]
    BY <1>3 DEF nn_timer_stop
  <2>2. UNCHANGED <<timeout, tset, hand>>
    BY <1>3 DEF nn_timer_stop
  <2> QED
    BY <2>1, <2>2 DEF IInv, TypeOK, View, Fired, A!Stop, OwnersView
<1>4. ASSUME NEW t \in Timers, nn_timerset_event(t) PROVE UNCHANGED V
  BY <1>4 DEF IInv, TypeOK, View, Fired, nn_timerset_event
<1>5. ASSUME NEW t \in Timers, FeedStart(t) PROVE UNCHANGED V
  BY <1>5 DEF IInv, TypeOK, TimerInv, TimerAt, Pending, View, Fired, FeedStart
<1>6. ASSUME NEW t \in Timers, FeedTimeout(t) PROVE A!Timeout(t) \/ UNCHANGED V
  <2>1. hand = <<t, TIMEOUT>> /\ hand' = NONE /\ UNCHANGED <<state, timeout, tset>>
    BY <1>6 DEF FeedTimeout
  <2>2. t \notin tset /\ (state[t] = "ACTIVE" => ~ timeout[t])
    BY <2>1 DEF IInv, TimerInv, TimerAt
  <2>3. \A u \in Timers \ {t} : View(u)' = View(u)
    BY <2>1 DEF View, Fired
  <2>4. CASE state[t] = "ACTIVE"
    <3>1. View(t) = "ACTIVE" /\ View(t)' = "FIRED"
      BY <2>1, <2>2, <2>4 DEF View, Fired
    <3>2. V' = [V EXCEPT ![t] = "FIRED"]
      BY <3>1, <2>3
    <3> QED
      BY <3>1, <3>2 DEF A!Timeout, View, OwnersView
  <2>5. CASE state[t] # "ACTIVE"
    BY <2>1, <2>3, <2>5 DEF View
  <2> QED
    BY <2>4, <2>5
<1>7. ASSUME NEW t \in Timers, FeedStop(t) PROVE A!Stopped(t)
  BY <1>7 DEF IInv, TypeOK, TimerInv, TimerAt, Pending, View, Fired, FeedStop, A!Stopped, OwnersView
<1>8. ASSUME TimersDone \/ FetchTasks \/ nn_poller_wait \/ BatchDone PROVE UNCHANGED V
  BY <1>8 DEF View, Fired, TimersDone, FetchTasks, nn_poller_wait, BatchDone
<1>9. ASSUME nn_queue_pop PROVE UNCHANGED V
  <2>1. hand = NONE /\ hand' \in Tasks /\ UNCHANGED <<state, timeout, tset>>
    BY <1>9, PopFacts DEF IInv, TypeOK, nn_queue_pop
  <2> QED
    BY <2>1 DEF View, Fired, Tasks
<1> QED
  BY <1>0, <1>1, <1>2, <1>3, <1>4, <1>5, <1>6, <1>7, <1>8, <1>9 DEF Next, Worker, A!Next

(* nn_timer with its worker implements TimerAbs: at most one timeout per   *)
(* start, none between a stop and the next start.                          *)
THEOREM Refinement == Spec => A!Spec
<1>1. Init => A!Init
  BY DEF Init, A!Init, OwnersView
<1> QED
  BY <1>1, Inductive, StepSimulation, PTL DEF Spec, A!Spec

(* The timer and the worker agree for any number of timers (Sound of       *)
(* module Timer).                                                          *)
THEOREM SoundSafe == Spec => []Sound
  BY AssertionsHold, IdleSafe, EfdSafe, PTL DEF Sound
=============================================================================
