------------------------------ MODULE Session ------------------------------
(***************************************************************************)
(* What a session (tcp/stcp.c, ipc/sipc.c, ws/sws.c) promises to the state *)
(* machine that owns it, a connecter or an acceptor.  It is started with a *)
(* connected socket, which it owns until it has stopped; it reports the    *)
(* end of the connection at most once; it is over only when its owner has  *)
(* stopped it.  Module Stream shows that the sessions keep the promise;    *)
(* module Listen relies on it.                                             *)
(***************************************************************************)
VARIABLES
  ses,    \* "IDLE", "RUNNING", "DONE" (the end was reported) or "STOPPING"
  held    \* the session owns the socket

Init == ses = "IDLE" /\ held = FALSE

Start == ses = "IDLE" /\ ses' = "RUNNING" /\ held' = TRUE

Report == ses = "RUNNING" /\ ses' = "DONE" /\ UNCHANGED held

Stop == ses \in {"RUNNING", "DONE"} /\ ses' = "STOPPING" /\ UNCHANGED held

(* A session with nothing to wait for stops at once.                       *)
Stopped == ses # "IDLE" /\ ses' = "IDLE" /\ held' = FALSE

Next == Start \/ Report \/ Stop \/ Stopped
Spec == Init /\ [][Next]_<<ses, held>>
=============================================================================
