------------------------------- MODULE Global -------------------------------
(***************************************************************************)
(* The global socket table of nanomsg (core/global.c) and the life of the  *)
(* sockets in it as that table sees it: nn_socket, the hold every API call *)
(* takes on its socket, nn_close, nn_term and nn_init, called by several   *)
(* application threads at once.                                            *)
(*                                                                         *)
(* Every critical section of the global lock (self.lock) is one action.    *)
(* nn_close leaves the lock while it waits for the two semaphores of the   *)
(* socket, so it is four actions: stop, termsem, relesem, remove.  What    *)
(* the socket itself does between nn_sock_stop and the post of termsem is  *)
(* modelled in module Sock; here it is the single action nn_sock_fini.     *)
(* The state of the library starts after nn_lib_init (the nn_do_once).     *)
(***************************************************************************)
EXTENDS Naturals, FiniteSets

CONSTANTS MaxSockets,  \* NN_MAX_SOCKETS
          Threads      \* the application threads

ASSUME MaxSocketsAssumption == MaxSockets \in Nat \ {0}
ASSUME ThreadsAssumption == IsFiniteSet(Threads)

VARIABLES
  up,       \* self.socks # NULL: table allocated, transports and pool running
  socks,    \* state of the socket in a slot, "NULL" when the slot is free
  holds,    \* nn_sock.holds of the socket in a slot
  termsem,  \* posts not yet waited for of nn_sock.termsem
  relesem,  \* posts not yet waited for of nn_sock.relesem
  unused,   \* self.unused, the stack of free descriptors
  nsocks,   \* self.nsocks
  flags,    \* self.flags
  pc,       \* where each thread is
  fd,       \* the descriptor the thread's current call is about
  idx       \* loop index of nn_term, or Outside when not in nn_term

table == <<up, socks, holds, termsem, relesem, unused, nsocks>>
vars == <<up, socks, holds, termsem, relesem, unused, nsocks, flags, pc, fd, idx>>

Slots == 0 .. MaxSockets - 1
Outside == MaxSockets + 1
TERM == {"TERMED", "TERMING"}          \* NN_CTX_FLAG_TERM

SockStates == {"NULL", "ACTIVE", "STOPPING", "FINI"}
Closing == {"termsem", "relesem", "remove"}
Locations == {"ready", "call", "loop", "initwait", "initwoken"} \cup Closing

Live == {s \in Slots : socks[s] # "NULL"}
Callers(s) == {t \in Threads : pc[t] = "call" /\ fd[t] = s}
InTerm(t) == idx[t] # Outside

TypeOK ==
  /\ up \in BOOLEAN
  /\ socks \in [Slots -> SockStates]
  /\ holds \in [Slots -> Nat]
  /\ termsem \in [Slots -> Nat]
  /\ relesem \in [Slots -> Nat]
  /\ unused \in [Slots -> Slots]
  /\ nsocks \in 0 .. MaxSockets
  /\ flags \in SUBSET TERM
  /\ pc \in [Threads -> Locations]
  /\ fd \in [Threads -> Slots]
  /\ idx \in [Threads -> 0 .. Outside]

FreshUnused == [k \in Slots |-> MaxSockets - k - 1]

Init ==
  /\ up = FALSE
  /\ socks = [s \in Slots |-> "NULL"]
  /\ holds = [s \in Slots |-> 0]
  /\ termsem = [s \in Slots |-> 0]
  /\ relesem = [s \in Slots |-> 0]
  /\ unused = FreshUnused
  /\ nsocks = 0
  /\ flags = {}
  /\ pc = [t \in Threads |-> "ready"]
  /\ fd = [t \in Threads |-> 0]
  /\ idx = [t \in Threads |-> Outside]

-----------------------------------------------------------------------------
(* nn_global_init: allocates and fills the table unless it is there.       *)
UnusedAfterInit == IF up THEN unused ELSE FreshUnused
NsocksAfterInit == IF up THEN nsocks ELSE 0

(* nn_global_create_socket with a supported domain and protocol.           *)
nn_socket(t) ==
  /\ pc[t] = "ready"
  /\ flags \cap TERM = {}
  /\ NsocksAfterInit < MaxSockets
  /\ LET s == UnusedAfterInit[MaxSockets - NsocksAfterInit - 1] IN
       /\ socks' = [socks EXCEPT ![s] = "ACTIVE"]
       /\ holds' = [holds EXCEPT ![s] = 1]
       /\ termsem' = [termsem EXCEPT ![s] = 0]
       /\ relesem' = [relesem EXCEPT ![s] = 0]
  /\ up' = TRUE
  /\ unused' = UnusedAfterInit
  /\ nsocks' = NsocksAfterInit + 1
  /\ UNCHANGED <<flags, pc, fd, idx>>

(* The error returns of nn_socket behind nn_global_init (EAFNOSUPPORT,     *)
(* EMFILE, ENOMEM, EINVAL): nn_global_term tears an empty table down again.*)
nn_socket_fail(t) ==
  /\ pc[t] = "ready"
  /\ flags \cap TERM = {}
  /\ unused' = UnusedAfterInit
  /\ nsocks' = NsocksAfterInit
  /\ up' = (NsocksAfterInit > 0)
  /\ UNCHANGED <<socks, holds, termsem, relesem, flags, pc, fd, idx>>

(* nn_sock_hold without the test of the state of the socket.               *)
CanHold_AnyState(s) == up /\ socks[s] # "NULL"

(* nn_global_hold_socket_locked succeeds only on a socket nn_sock_hold     *)
(* accepts; in every other case the call returns EBADF and changes nothing.*)
CanHold(s) == up /\ socks[s] = "ACTIVE"

(* The first thing nn_send, nn_recv, nn_bind, nn_setsockopt... do.         *)
nn_global_hold_socket(t, s) ==
  /\ pc[t] = "ready"
  /\ CanHold(s)
  /\ holds' = [holds EXCEPT ![s] = @ + 1]
  /\ pc' = [pc EXCEPT ![t] = "call"]
  /\ fd' = [fd EXCEPT ![t] = s]
  /\ UNCHANGED <<up, socks, termsem, relesem, unused, nsocks, flags, idx>>

(* nn_sock_rele n times on socket s.                                       *)
Rele(s, n) ==
  /\ holds' = [holds EXCEPT ![s] = @ - n]
  /\ relesem' = [relesem EXCEPT ![s] = IF holds[s] = n THEN @ + 1 ELSE @]

(* The last thing those calls do.                                          *)
nn_global_rele_socket(t) ==
  /\ pc[t] = "call"
  /\ Rele(fd[t], 1)
  /\ pc' = [pc EXCEPT ![t] = "ready"]
  /\ UNCHANGED <<up, socks, termsem, unused, nsocks, flags, fd, idx>>

-----------------------------------------------------------------------------
(* Where nn_close returns to: the application, or the loop of nn_term.     *)
CloseReturn(t) ==
  /\ pc' = [pc EXCEPT ![t] = IF InTerm(t) THEN "loop" ELSE "ready"]
  /\ idx' = [idx EXCEPT ![t] = IF InTerm(t) THEN @ + 1 ELSE @]

(* nn_close keeping the hold of the application.                           *)
CloseStop_KeepHold(t, s) ==
  /\ CanHold(s)
  /\ socks' = [socks EXCEPT ![s] = "STOPPING"]
  /\ Rele(s, 0)
  /\ pc' = [pc EXCEPT ![t] = "termsem"]
  /\ fd' = [fd EXCEPT ![t] = s]
  /\ UNCHANGED <<up, termsem, unused, nsocks, flags, idx>>

(* nn_close up to the unlock: hold, nn_sock_stop, rele twice.  A socket    *)
(* with nothing to shut down reaches FINI inside nn_sock_stop.             *)
CloseStop(t, s) ==
  /\ CanHold(s)
  /\ \E st \in {"STOPPING", "FINI"} :
       /\ socks' = [socks EXCEPT ![s] = st]
       /\ termsem' = [termsem EXCEPT ![s] = IF st = "FINI" THEN @ + 1 ELSE @]
  /\ Rele(s, 1)                \* one hold taken, two released
  /\ pc' = [pc EXCEPT ![t] = "termsem"]
  /\ fd' = [fd EXCEPT ![t] = s]
  /\ UNCHANGED <<up, unused, nsocks, flags, idx>>

nn_close(t, s) ==
  /\ pc[t] = "ready"
  /\ CloseStop(t, s)

(* nn_sock_shutdown gets to its end and posts termsem (module Sock).       *)
nn_sock_fini(s) ==
  /\ socks[s] = "STOPPING"
  /\ socks' = [socks EXCEPT ![s] = "FINI"]
  /\ termsem' = [termsem EXCEPT ![s] = @ + 1]
  /\ UNCHANGED <<up, holds, relesem, unused, nsocks, flags, pc, fd, idx>>

(* nn_sock_term: the two uninterruptible waits, termsem first.             *)
nn_sock_term_ended(t) ==
  /\ pc[t] = "termsem"
  /\ termsem[fd[t]] > 0
  /\ termsem' = [termsem EXCEPT ![fd[t]] = @ - 1]
  /\ pc' = [pc EXCEPT ![t] = "relesem"]
  /\ UNCHANGED <<up, socks, holds, relesem, unused, nsocks, flags, fd, idx>>

nn_sock_term_released(t) ==
  /\ pc[t] = "relesem"
  /\ relesem[fd[t]] > 0
  /\ relesem' = [relesem EXCEPT ![fd[t]] = @ - 1]
  /\ pc' = [pc EXCEPT ![t] = "remove"]
  /\ UNCHANGED <<up, socks, holds, termsem, unused, nsocks, flags, fd, idx>>

(* nn_close writing the descriptor back one entry too low.                 *)
CloseRemove_OffByOne(t) ==
  /\ pc[t] = "remove"
  /\ socks' = [socks EXCEPT ![fd[t]] = "NULL"]
  /\ unused' = [unused EXCEPT ![MaxSockets - nsocks - 1] = fd[t]]
  /\ nsocks' = nsocks - 1
  /\ up' = (nsocks - 1 > 0)
  /\ CloseReturn(t)
  /\ UNCHANGED <<holds, termsem, relesem, flags, fd>>

(* nn_close after nn_sock_term, then nn_global_term.                       *)
CloseRemove(t) ==
  /\ pc[t] = "remove"
  /\ socks' = [socks EXCEPT ![fd[t]] = "NULL"]
  /\ unused' = [unused EXCEPT ![MaxSockets - nsocks] = fd[t]]
  /\ nsocks' = nsocks - 1
  /\ up' = (nsocks - 1 > 0)
  /\ CloseReturn(t)
  /\ UNCHANGED <<holds, termsem, relesem, flags, fd>>

-----------------------------------------------------------------------------
(* nn_term: raise TERMING, nn_close every descriptor, raise TERMED.        *)
TermBegin(t) ==
  /\ pc[t] = "ready"
  /\ flags' = flags \cup {"TERMING"}
  /\ pc' = [pc EXCEPT ![t] = "loop"]
  /\ idx' = [idx EXCEPT ![t] = 0]
  /\ UNCHANGED <<table, fd>>

TermClose(t) ==
  /\ pc[t] = "loop"
  /\ idx[t] < MaxSockets
  /\ \/ CloseStop(t, idx[t])
     \/ /\ ~ CanHold(idx[t])              \* nn_close returns EBADF
        /\ CloseReturn(t)
        /\ UNCHANGED <<table, flags, fd>>

(* The end of nn_term without the broadcast.                               *)
TermEnd_NoBroadcast(t) ==
  /\ pc[t] = "loop"
  /\ idx[t] = MaxSockets
  /\ flags' = (flags \cup {"TERMED"}) \ {"TERMING"}
  /\ pc' = [pc EXCEPT ![t] = "ready"]
  /\ idx' = [idx EXCEPT ![t] = Outside]
  /\ UNCHANGED <<table, fd>>

(* nn_condvar_broadcast wakes every thread waiting in nn_init.             *)
TermEnd(t) ==
  /\ pc[t] = "loop"
  /\ idx[t] = MaxSockets
  /\ flags' = (flags \cup {"TERMED"}) \ {"TERMING"}
  /\ pc' = [u \in Threads |-> IF u = t THEN "ready"
                              ELSE IF pc[u] = "initwait" THEN "initwoken"
                              ELSE pc[u]]
  /\ idx' = [idx EXCEPT ![t] = Outside]
  /\ UNCHANGED <<table, fd>>

(* nn_init, on entry or back from nn_condvar_wait.                         *)
nn_init(t) ==
  /\ pc[t] \in {"ready", "initwoken"}
  /\ \/ /\ "TERMING" \in flags
        /\ pc' = [pc EXCEPT ![t] = "initwait"]
        /\ UNCHANGED flags
     \/ /\ "TERMING" \notin flags
        /\ flags' = flags \ {"TERMED"}
        /\ pc' = [pc EXCEPT ![t] = "ready"]
  /\ UNCHANGED <<table, fd, idx>>

-----------------------------------------------------------------------------
Next ==
  \/ \E t \in Threads :
       \/ nn_socket(t)
       \/ nn_socket_fail(t)
       \/ \E s \in Slots : nn_global_hold_socket(t, s)
       \/ nn_global_rele_socket(t)
       \/ \E s \in Slots : nn_close(t, s)
       \/ nn_sock_term_ended(t)
       \/ nn_sock_term_released(t)
       \/ CloseRemove(t)
       \/ TermBegin(t)
       \/ TermClose(t)
       \/ TermEnd(t)
       \/ nn_init(t)
  \/ \E s \in Slots : nn_sock_fini(s)

Spec == Init /\ [][Next]_vars

(* A call on a socket that is being closed returns: nn_sock_stop wakes it  *)
(* and it finds the socket not ACTIVE.  A call on an open socket may block *)
(* for ever, so nothing is assumed of it.                                  *)
CallReturns(t) == socks[fd[t]] # "ACTIVE" /\ nn_global_rele_socket(t)

Fairness ==
  /\ \A s \in Slots : WF_vars(nn_sock_fini(s))
  /\ \A t \in Threads :
       /\ WF_vars(CallReturns(t))
       /\ WF_vars(nn_sock_term_ended(t))
       /\ WF_vars(nn_sock_term_released(t))
       /\ WF_vars(CloseRemove(t))
       /\ WF_vars(TermClose(t))
       /\ WF_vars(TermEnd(t))
       /\ WF_vars(pc[t] = "initwoken" /\ nn_init(t))

FairSpec == Spec /\ Fairness
-----------------------------------------------------------------------------
(* The first MaxSockets - nsocks entries of unused are exactly the free    *)
(* descriptors, each once: nn_global_create_socket never hands out a       *)
(* descriptor that is still in use or still being closed, and none is lost.*)
FreeStack == {unused[k] : k \in 0 .. MaxSockets - nsocks - 1}
DescriptorsExact ==
  up => /\ nsocks = Cardinality(Live)
        /\ FreeStack = Slots \ Live

(* nn_global_term tears the worker pool and the table down when, and only  *)
(* when, no socket is left: a socket always has its worker, and the pool   *)
(* does not outlive the last socket.                                       *)
PoolWithSockets == up <=> Live # {}

(* "The socket itself will not be freed while the hold is active"          *)
(* (global.c, nn_global_hold_socket_locked): while a call runs, its socket *)
(* is in the table and nobody has begun to take it apart.                  *)
HoldKeepsSocket ==
  \A t \in Threads : pc[t] = "call" =>
    /\ socks[fd[t]] # "NULL"
    /\ \A u \in Threads : ~ (pc[u] = "remove" /\ fd[u] = fd[t])

(* "two instances of nn_close can't access the same socket" (nn_close).    *)
OneCloser ==
  \A t, u \in Threads :
    pc[t] \in Closing /\ pc[u] \in Closing /\ fd[t] = fd[u] => t = u

(* The table of sockets agrees with itself: the counter, the stack of free *)
(* slots and the worker pool follow the sockets that live, through any     *)
(* overlap of nn_socket, nn_close, nn_init and nn_term, and a socket is    *)
(* closed by one thread only.                                              *)
Registry == DescriptorsExact /\ PoolWithSockets /\ OneCloser

(* The semaphores of a socket are posted at most once in its life: nobody  *)
(* waits for a second post of termsem or relesem.                          *)
SemsPostedOnce ==
  \A s \in Live :
    /\ termsem[s] <= 1 /\ relesem[s] <= 1
    /\ \A t \in Threads : fd[t] = s =>
         /\ pc[t] \in {"relesem", "remove"} => termsem[s] = 0
         /\ pc[t] = "remove" => relesem[s] = 0

(* nn_close terminates once it has stopped the socket, whatever calls were *)
(* in progress on it.                                                      *)
CloseReturns ==
  \A t \in Threads : pc[t] = "termsem" ~> pc[t] \in {"ready", "loop"}

(* A thread that nn_init put to sleep is woken by the nn_term it waits for.*)
InitWaiterWoken ==
  \A t \in Threads : pc[t] = "initwait" ~> pc[t] # "initwait"
=============================================================================
