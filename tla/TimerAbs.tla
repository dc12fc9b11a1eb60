------------------------------ MODULE TimerAbs ------------------------------
(***************************************************************************)
(* What nn_timer (aio/timer.h) promises to the state machine that owns it. *)
(* A started timer fires at most once.  A timer asked to stop never fires  *)
(* any more, reports NN_TIMER_STOPPED once, and can then be started again. *)
(***************************************************************************)
CONSTANT Timers

VARIABLE timer   \* what the owner can expect of each of its timers

Init == timer = [t \in Timers |-> "IDLE"]

(* nn_timer_start *)
Start(t) == timer[t] = "IDLE" /\ timer' = [timer EXCEPT ![t] = "ACTIVE"]

(* The owner gets NN_TIMER_TIMEOUT *)
Timeout(t) == timer[t] = "ACTIVE" /\ timer' = [timer EXCEPT ![t] = "FIRED"]

(* nn_timer_stop *)
Stop(t) == timer[t] \in {"ACTIVE", "FIRED"} /\ timer' = [timer EXCEPT ![t] = "STOPPING"]

(* The owner gets NN_TIMER_STOPPED *)
Stopped(t) == timer[t] = "STOPPING" /\ timer' = [timer EXCEPT ![t] = "IDLE"]

Next == \E t \in Timers : Start(t) \/ Timeout(t) \/ Stop(t) \/ Stopped(t)

Spec == Init /\ [][Next]_timer

(* The owner need not stop a timer; the worker thread does the rest.       *)
FairSpec == Spec /\ \A t \in Timers : WF_timer(Timeout(t)) /\ WF_timer(Stopped(t))
=============================================================================
