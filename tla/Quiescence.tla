----------------------------- MODULE Quiescence -----------------------------
(***************************************************************************)
(* What the gateway promises its embedding shell about suspension, without *)
(* threads, locks, counters or a registry: which handlers execute, which   *)
(* clients are talked to, and which calls of suspend() have yet to return. *)
(* Gateway is shown to implement it.                                       *)
(***************************************************************************)
CONSTANTS Conns, Callers

VARIABLES
  phase,      \* as in Gateway
  executing,  \* connections whose handler runs
  talking,    \* connections with an open socket and a thread serving it
  pending     \* callers whose suspend() has not closed connections yet

qVars == <<phase, executing, talking, pending>>

Init == phase = "Running" /\ executing = {} /\ talking = {} /\ pending = {}

\* Whether a runtime that must not dispatch has come to rest.
Rest(left) == IF left = {} THEN "Suspended" ELSE "Suspending"

Begin(c) ==
  /\ phase = "Running" /\ c \notin executing
  /\ executing' = executing \cup {c}
  /\ UNCHANGED <<phase, talking, pending>>

End(c) ==
  /\ c \in executing
  /\ executing' = executing \ {c}
  /\ phase' = IF phase = "Suspending" THEN Rest(executing') ELSE phase
  /\ UNCHANGED <<talking, pending>>

Talk(c) ==
  /\ phase = "Running"
  /\ talking' = talking \cup {c}
  /\ UNCHANGED <<phase, executing, pending>>

HangUp ==
  /\ talking' \subseteq talking
  /\ UNCHANGED <<phase, executing, pending>>

Suspend(k) ==
  /\ k \notin pending
  /\ phase' = IF phase = "Running" THEN Rest(executing) ELSE phase
  /\ pending' = pending \cup {k}
  /\ UNCHANGED <<executing, talking>>

\* The call closes every connection there is, and then returns.
Sever(k) ==
  /\ k \in pending
  /\ talking' = {}
  /\ pending' = pending \ {k}
  /\ UNCHANGED <<phase, executing>>

Resume ==
  /\ phase # "Stopping"
  /\ phase' = "Running"
  /\ UNCHANGED <<executing, talking, pending>>

Stop ==
  /\ pending = {}
  /\ phase' = "Stopping"
  /\ UNCHANGED <<executing, talking, pending>>

Next ==
  \/ \E c \in Conns : Begin(c) \/ End(c) \/ Talk(c)
  \/ HangUp
  \/ \E k \in Callers : Suspend(k) \/ Sever(k)
  \/ Resume
  \/ Stop

Spec == Init /\ [][Next]_qVars
=============================================================================
