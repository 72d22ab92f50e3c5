----------------------------- MODULE RenewalTimer -----------------------------
(***************************************************************************)
(* When certificates are renewed (tokamak/src/certificates.rs): the        *)
(* background thread of Renewal, which sleeps until the server leaf is due *)
(* or an hour after an error, the shell's resume(), which refreshes too,   *)
(* and the end of the thread when the runtime is dropped.                  *)
(*                                                                         *)
(* There are two clocks.  Certificates are compared with the wall clock    *)
(* (now_utc); the thread sleeps by a monotonic one (recv_timeout), which   *)
(* stands still while the machine sleeps.  Both are finer than a second:   *)
(* certificates carry whole seconds, and renewal_delay drops the fraction. *)
(* The wall clock is not set back.  What a refresh does to the files is    *)
(* CertificateCache; here it is one step.                                  *)
(***************************************************************************)
EXTENDS Integers

CONSTANTS
  Fraction,      \* ticks in a second
  RenewalAge,    \* seconds after which a leaf is due (LEAF_RENEWAL_DAYS)
  LeafLife,      \* seconds for which a leaf is valid
  AuthorityLife, \* seconds for which the authority is valid
  RetryDelay,    \* RETRY_DELAY, in seconds
  MaxTime        \* bound: the wall clock, in ticks

ASSUME FractionPositive == Fraction \in Nat \ {0}
ASSUME TimerNaturals == /\ {LeafLife, AuthorityLife, RetryDelay, MaxTime} \subseteq Nat
                        /\ RenewalAge \in Nat \ {0}

VARIABLES
  now,       \* the wall clock, in ticks
  leaf,      \* when the server leaf in memory was made
  authority, \* when its authority was made
  thread,    \* the renewal thread: "delay", "wait", "refresh", "emit", "gone"
  remaining, \* ticks of the monotonic clock until the thread's sleep ends
  retrying,
  result,    \* what the last refresh did
  event,     \* the event the shell is being told
  stop,      \* a message in the stop channel
  runtime,   \* "running", "dropping" or "dropped"
  excused    \* history: ticks since the thread last refreshed with success in
             \* which the machine slept, the thread was late, or it waited to
             \* try again

material == <<leaf, authority>>
vars == <<now, material, thread, remaining, retrying, result, event, stop,
          runtime, excused>>

Seconds(t) == t \div Fraction
IsLive(made, life) == Seconds(now) < Seconds(made) + life

\* leaf_renewal_is_due, to the fraction of a second.
DueAt(made) == Fraction * (Seconds(made) + RenewalAge)

\* A bug: the sleep lasts until the leaf expires.
UntilExpiry(made) == Seconds(Fraction * (Seconds(made) + LeafLife) - now)

\* renewal_delay: whole seconds.
RenewalDelay(made) ==
  IF DueAt(made) > now THEN Seconds(DueAt(made) - now) ELSE 0

\* A launch has just made the certificates, or found them good.
Init ==
  /\ now \in 0..MaxTime /\ leaf = 0
  /\ now < DueAt(leaf)
  /\ authority = 0
  /\ thread = "delay" /\ remaining = 0 /\ retrying = FALSE
  /\ result = "none" /\ event = "none"
  /\ stop = FALSE /\ runtime = "running" /\ excused = 0

-----------------------------------------------------------------------------
\* ensure, for a cache that is whole.
Ensures ==
  /\ authority' = IF IsLive(authority, AuthorityLife) THEN authority ELSE now
  /\ leaf' = IF authority' = authority /\ now < DueAt(leaf) /\ IsLive(leaf, LeafLife)
               THEN leaf ELSE now

\* The loop computes how long to sleep: by the wall clock, or an hour.
Delays ==
  /\ thread = "delay"
  /\ remaining' = Fraction * (IF retrying THEN RetryDelay ELSE RenewalDelay(leaf))
  /\ thread' = "wait" /\ event' = "none"
  /\ UNCHANGED <<now, material, retrying, result, stop, runtime, excused>>

Wakes ==
  /\ thread = "wait" /\ ~stop /\ remaining = 0
  /\ thread' = "refresh"
  /\ UNCHANGED <<now, material, remaining, retrying, result, event, stop,
                 runtime, excused>>

\* A bug: the thread looks for the message only when its sleep is over.
StopsLate ==
  /\ thread = "wait" /\ stop /\ remaining = 0
  /\ thread' = "gone"
  /\ UNCHANGED <<now, material, remaining, retrying, result, event, stop,
                 runtime, excused>>

Stops ==
  /\ thread = "wait" /\ stop
  /\ thread' = "gone"
  /\ UNCHANGED <<now, material, remaining, retrying, result, event, stop,
                 runtime, excused>>

Refreshes ==
  /\ thread = "refresh"
  /\ \/ /\ Ensures
        /\ result' = IF UNCHANGED material THEN "kept" ELSE "renewed"
        /\ excused' = 0
     \/ result' = "failed" /\ UNCHANGED <<material, excused>>
  /\ thread' = "emit"
  /\ UNCHANGED <<now, remaining, retrying, event, stop, runtime>>

Emits ==
  /\ thread = "emit"
  /\ retrying' = (result = "failed")
  /\ event' = IF result = "failed" THEN "Failed" ELSE "CertificatesRenewed"
  /\ thread' = "delay"
  /\ UNCHANGED <<now, material, remaining, result, stop, runtime, excused>>

\* The shell resumes the runtime.
Resumes ==
  /\ runtime = "running" /\ Ensures
  /\ UNCHANGED <<now, thread, remaining, retrying, result, event, stop, runtime,
                 excused>>

\* Renewal is dropped: the message is sent, the thread joined.
Drops ==
  /\ runtime = "running" /\ runtime' = "dropping" /\ stop' = TRUE
  /\ UNCHANGED <<now, material, thread, remaining, retrying, result, event, excused>>

Joins ==
  /\ runtime = "dropping" /\ thread = "gone" /\ runtime' = "dropped"
  /\ UNCHANGED <<now, material, thread, remaining, retrying, result, event, stop,
                 excused>>

-----------------------------------------------------------------------------
(* Time. *)

PassesTime ==
  /\ now < MaxTime /\ now' = now + 1
  /\ UNCHANGED <<material, thread, retrying, result, event, stop, runtime>>

\* The thread sleeps until the leaf is due, and the machine is awake.
SleepsUntilDue == thread = "wait" /\ ~retrying /\ remaining > 0

Excuse == excused' = IF thread = "gone" THEN excused ELSE excused + 1

\* The machine is awake, and the thread may run as late as it likes.
Tick ==
  /\ PassesTime
  /\ remaining' = IF remaining > 0 THEN remaining - 1 ELSE 0
  /\ IF SleepsUntilDue THEN UNCHANGED excused ELSE Excuse

\* The machine sleeps.
MachineSleeps == PassesTime /\ Excuse /\ UNCHANGED remaining

-----------------------------------------------------------------------------
Renewing == Delays \/ Wakes \/ Stops \/ Refreshes \/ Emits
Next == Renewing \/ Resumes \/ Drops \/ Joins \/ Tick \/ MachineSleeps

Spec == Init /\ [][Next]_vars

\* The thread runs, and Drop returns once it has joined it.
FairSpec == Spec /\ WF_vars(Renewing) /\ WF_vars(Joins)

-----------------------------------------------------------------------------
(* Correctness. *)

\* The values of the variables.
TypeOK ==
  /\ now \in 0..MaxTime /\ leaf \in 0..MaxTime /\ authority \in 0..MaxTime
  /\ thread \in {"delay", "wait", "refresh", "emit", "gone"}
  /\ remaining \in 0..(Fraction * (RenewalAge + RetryDelay))
  /\ retrying \in BOOLEAN /\ stop \in BOOLEAN
  /\ result \in {"none", "kept", "renewed", "failed"}
  /\ event \in {"none", "Failed", "CertificatesRenewed"}
  /\ runtime \in {"running", "dropping", "dropped"}
  /\ excused \in 0..now

\* A running runtime holds an expired leaf only if, for as long as a leaf lives
\* on after it is due (sixty days), the machine slept, the thread could not run
\* or its refreshes failed: "renewed in the background before they expire"
\* (certificates.rs) is kept in every second in which the thread sleeps its
\* ordinary sleep, whatever resume() refreshes in between.  Since the thread's
\* clock stands still while the machine sleeps, sleep alone can let a leaf expire.
ExpiryIsExcused ==
  runtime = "running" /\ ~IsLive(leaf, LeafLife) =>
    excused >= Fraction * (LeafLife - RenewalAge)

\* Dropping the runtime ends background renewal without waiting for the end of
\* its sleep, in whatever state the thread is.
DropEndsRenewal == (runtime = "dropping") ~> (runtime = "dropped")
=============================================================================
