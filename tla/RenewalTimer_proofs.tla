-------------------------- MODULE RenewalTimer_proofs --------------------------
(***************************************************************************)
(* Proofs about RenewalTimer, for every length of the periods and every    *)
(* precision of the clocks.                                                *)
(***************************************************************************)
EXTENDS RenewalTimer, TLAPS

-----------------------------------------------------------------------------
(* The inductive invariant. *)

\* What the thread still has to sleep before it looks at the leaf.
Ahead == IF thread = "wait" /\ ~retrying THEN remaining ELSE 0

\* Leaving out the time that is excused, the thread has not slept past the time
\* the leaf is due, and will not.
DueInv == thread # "gone" => now + Ahead <= DueAt(leaf) + excused

\* Certificates were made in the past.
PastInv == leaf <= now /\ authority <= now

\* The thread goes only when it is told to, and it is told by Drop.
StopInv ==
  /\ stop <=> runtime # "running"
  /\ thread = "gone" => stop
  /\ runtime = "dropped" => thread = "gone"

IInv == TypeOK /\ PastInv /\ DueInv /\ StopInv
-----------------------------------------------------------------------------
(* Lemmas. *)

\* Dropping the fraction of a second loses less than a second, and keeps order.
LEMMA SecondsBounds ==
  ASSUME NEW t \in Nat
  PROVE  /\ Seconds(t) \in Nat
         /\ Fraction * Seconds(t) <= t /\ t < Fraction * Seconds(t) + Fraction
         /\ \A u \in Nat : u <= t => Seconds(u) <= Seconds(t)
  BY FractionPositive DEF Seconds

\* A leaf is due at a time of its own, later than it was made, and the later the
\* later it was made.
LEMMA DueAtBounds ==
  ASSUME NEW made \in Nat
  PROVE  /\ DueAt(made) \in Nat /\ made < DueAt(made)
         /\ \A earlier \in Nat : earlier <= made => DueAt(earlier) <= DueAt(made)
         /\ DueAt(made) <= made + Fraction * RenewalAge
<1>1. /\ Seconds(made) \in Nat /\ Fraction * Seconds(made) <= made
      /\ made < Fraction * Seconds(made) + Fraction
  BY SecondsBounds
<1>2. DueAt(made) = Fraction * Seconds(made) + Fraction * RenewalAge
  BY <1>1, FractionPositive, TimerNaturals DEF DueAt
<1>3. Fraction * RenewalAge \in Nat /\ Fraction * RenewalAge >= Fraction
  BY FractionPositive, TimerNaturals
<1>4. ASSUME NEW earlier \in Nat, earlier <= made PROVE DueAt(earlier) <= DueAt(made)
  <2>1. Seconds(earlier) \in Nat /\ Seconds(earlier) <= Seconds(made)
    BY <1>4, SecondsBounds
  <2>2. Fraction * (Seconds(earlier) + RenewalAge) <= Fraction * (Seconds(made) + RenewalAge)
    BY <2>1, <1>1, FractionPositive, TimerNaturals
  <2> QED
    BY <2>2 DEF DueAt
<1>5. Fraction * Seconds(made) \in Nat
  BY <1>1, FractionPositive
<1> QED
  BY <1>1, <1>2, <1>3, <1>4, <1>5, FractionPositive

\* A sleep until the leaf is due ends no later than that, and is shorter than
\* the age at which it is due.
LEMMA RenewalDelayBounds ==
  ASSUME NEW made \in Nat, now \in Nat, made <= now
  PROVE  /\ Fraction * RenewalDelay(made) \in Nat
         /\ \/ now + Fraction * RenewalDelay(made) <= DueAt(made)
            \/ Fraction * RenewalDelay(made) = 0
         /\ Fraction * RenewalDelay(made) <= Fraction * RenewalAge
<1>1. DueAt(made) \in Nat /\ DueAt(made) <= made + Fraction * RenewalAge
  BY DueAtBounds
<1>2. Fraction * RenewalAge \in Nat
  BY FractionPositive, TimerNaturals
<1>3. CASE DueAt(made) > now
  <2>1. DueAt(made) - now \in Nat
    BY <1>1, <1>3
  <2>2. /\ Seconds(DueAt(made) - now) \in Nat
        /\ Fraction * Seconds(DueAt(made) - now) <= DueAt(made) - now
    BY <2>1, SecondsBounds
  <2>3. Fraction * Seconds(DueAt(made) - now) \in Nat
    BY <2>2, FractionPositive
  <2> QED
    BY <1>1, <1>2, <1>3, <2>2, <2>3 DEF RenewalDelay
<1>4. CASE ~(DueAt(made) > now)
  <2>1. Fraction * RenewalDelay(made) = 0
    BY <1>4, FractionPositive DEF RenewalDelay
  <2> QED
    BY <2>1, <1>2
<1> QED
  BY <1>3, <1>4

\* A refresh that succeeds leaves a leaf that is not yet due, made no earlier
\* than the one before.
LEMMA EnsuresRenews ==
  ASSUME TypeOK, PastInv, Ensures, now' = now
  PROVE  /\ leaf' \in 0..MaxTime /\ authority' \in 0..MaxTime
         /\ leaf' \in Nat /\ DueAt(leaf') \in Nat
         /\ leaf <= leaf' /\ leaf' <= now /\ authority' <= now
         /\ now < DueAt(leaf') /\ DueAt(leaf) <= DueAt(leaf')
<1>1. /\ leaf \in Nat /\ now \in Nat /\ authority \in Nat /\ MaxTime \in Nat
      /\ now <= MaxTime /\ leaf <= now /\ authority <= now
  BY TimerNaturals DEF TypeOK, PastInv
<1>2. authority' \in {authority, now}
  BY DEF Ensures
<1>3. leaf' = now \/ (leaf' = leaf /\ now < DueAt(leaf))
  BY DEF Ensures
<1>4. leaf' \in Nat /\ leaf <= leaf' /\ leaf' <= now
  BY <1>1, <1>3
<1>5. DueAt(leaf') \in Nat /\ DueAt(leaf) <= DueAt(leaf') /\ now < DueAt(leaf')
  BY <1>1, <1>3, <1>4, DueAtBounds
<1> QED
  BY <1>1, <1>2, <1>4, <1>5

\* The times the constants give.
LEMMA Periods ==
  /\ Fraction * RetryDelay \in Nat /\ Fraction * RenewalAge \in Nat
  /\ Fraction * (RenewalAge + RetryDelay)
       = Fraction * RenewalAge + Fraction * RetryDelay
  BY FractionPositive, TimerNaturals

\* What the proof of every step uses of the constants and the state before it.
LEMMA Ranges ==
  ASSUME TypeOK
  PROVE  /\ now \in Nat /\ now <= MaxTime /\ leaf \in Nat /\ authority \in Nat
         /\ remaining \in Nat /\ Ahead \in Nat /\ excused \in Nat /\ excused <= now
         /\ DueAt(leaf) \in Nat /\ MaxTime \in Nat
<1>1. /\ now \in Nat /\ leaf \in Nat /\ authority \in Nat /\ now <= MaxTime
      /\ MaxTime \in Nat /\ excused \in Nat /\ excused <= now
  BY TimerNaturals DEF TypeOK
<1>2. Fraction * (RenewalAge + RetryDelay) \in Nat
  BY FractionPositive, TimerNaturals
<1>3. remaining \in Nat
  BY <1>2 DEF TypeOK
<1> QED
  BY <1>1, <1>3, DueAtBounds DEF Ahead

-----------------------------------------------------------------------------
(* The invariant holds initially and every step preserves it. *)

\* The runtime starts in a state of the invariant.
LEMMA InitIInv == Init => IInv
<1> SUFFICES ASSUME Init PROVE IInv
  OBVIOUS
<1>1. now \in 0..MaxTime /\ MaxTime \in Nat /\ Fraction * (RenewalAge + RetryDelay) \in Nat
  BY FractionPositive, TimerNaturals DEF Init
<1>2. TypeOK
  <2>1. retrying \in BOOLEAN /\ stop \in BOOLEAN
    BY DEF Init
  <2> QED
    BY <1>1, <2>1 DEF Init, TypeOK
<1>3. PastInv /\ StopInv
  BY <1>1 DEF Init, PastInv, StopInv
<1>4. DueInv
  <2>1. DueAt(leaf) \in Nat /\ now < DueAt(leaf)
    BY <1>1, DueAtBounds DEF Init
  <2>2. Ahead = 0 /\ excused = 0
    BY DEF Init, Ahead
  <2> QED
    BY <1>1, <2>1, <2>2 DEF DueInv
<1> QED
  BY <1>2, <1>3, <1>4 DEF IInv

\* The thread computes how long to sleep.
LEMMA DelaysPreserves ==
  ASSUME IInv, Delays
  PROVE  IInv'
<1> DEFINE pause == Fraction * (IF retrying THEN RetryDelay ELSE RenewalDelay(leaf))
<1>0. TypeOK /\ PastInv /\ DueInv
  BY DEF IInv
<1>1. /\ pause \in Nat
      /\ retrying => pause = Fraction * RetryDelay
      /\ ~retrying => /\ pause <= Fraction * RenewalAge
                      /\ now + pause <= DueAt(leaf) \/ pause = 0
  <2>1. now \in Nat /\ leaf \in Nat /\ leaf <= now
    BY <1>0, Ranges DEF PastInv
  <2> QED
    BY <2>1, Periods, RenewalDelayBounds
<1>2. remaining' = pause
  BY DEF Delays
<1> HIDE DEF pause
<1>3. pause \in 0..(Fraction * (RenewalAge + RetryDelay))
  <2> DEFINE age == Fraction * RenewalAge
             retry == Fraction * RetryDelay
  <2>1. age \in Nat /\ retry \in Nat /\ Fraction * (RenewalAge + RetryDelay) = age + retry
    BY Periods
  <2>2. pause \in Nat /\ (pause <= age \/ pause = retry)
    BY <1>1
  <2> HIDE DEF age, retry
  <2> QED
    BY <2>1, <2>2
<1>4. TypeOK' /\ StopInv' /\ PastInv'
  BY <1>2, <1>3 DEF Delays, IInv, TypeOK, StopInv, PastInv, material
<1>5. now + Ahead' <= DueAt(leaf) + excused
  <2>1. Ahead = 0 /\ now <= DueAt(leaf) + excused
    BY <1>0, Ranges DEF Delays, DueInv, Ahead
  <2>2. Ahead' = IF retrying THEN 0 ELSE pause
    BY <1>2 DEF Delays, Ahead
  <2> QED
    BY <1>0, <1>1, <2>1, <2>2, Ranges
<1>6. DueAt(leaf)' = DueAt(leaf) /\ now' = now /\ excused' = excused
  BY DEF Delays, material, DueAt, Seconds
<1>7. DueInv'
  BY <1>5, <1>6 DEF DueInv
<1> QED
  BY <1>4, <1>7 DEF IInv

\* A refresh, by the thread.
LEMMA RefreshesPreserves ==
  ASSUME IInv, Refreshes
  PROVE  IInv'
<1>0. TypeOK /\ PastInv /\ DueInv
  BY DEF IInv
<1>1. CASE Ensures /\ excused' = 0
           /\ result' = IF UNCHANGED material THEN "kept" ELSE "renewed"
  <2>1. /\ leaf' \in 0..MaxTime /\ authority' \in 0..MaxTime
        /\ leaf' <= now /\ authority' <= now
        /\ DueAt(leaf') \in Nat /\ now < DueAt(leaf')
    BY <1>0, <1>1, EnsuresRenews DEF Refreshes
  <2>2. result' \in {"kept", "renewed"}
    BY <1>1
  <2>3. TypeOK' /\ StopInv' /\ PastInv'
    BY <1>1, <2>1, <2>2, <1>0, Ranges DEF Refreshes, IInv, TypeOK, StopInv, PastInv
  <2>4. DueAt(leaf)' = DueAt(leaf')
    BY DEF DueAt, Seconds
  <2>5. Ahead' = 0 /\ now' = now
    BY DEF Refreshes, Ahead
  <2>6. DueInv'
    BY <1>0, <1>1, <2>1, <2>4, <2>5, Ranges DEF DueInv
  <2> QED
    BY <2>3, <2>6 DEF IInv
<1>2. CASE result' = "failed" /\ UNCHANGED <<material, excused>>
  <2>1. DueAt(leaf)' = DueAt(leaf) /\ now' = now /\ excused' = excused
    BY <1>2 DEF Refreshes, material, DueAt, Seconds
  <2>2. TypeOK' /\ StopInv' /\ PastInv'
    BY <1>2 DEF Refreshes, IInv, TypeOK, StopInv, PastInv, material
  <2>3. Ahead' = 0 /\ Ahead = 0
    BY DEF Refreshes, Ahead
  <2>4. DueInv'
    BY <1>0, <2>1, <2>3 DEF DueInv, Refreshes
  <2> QED
    BY <2>2, <2>4 DEF IInv
<1> QED
  BY <1>1, <1>2 DEF Refreshes

\* Every step of the thread preserves the invariant.
LEMMA RenewingPreserves ==
  ASSUME IInv, Renewing
  PROVE  IInv'
<1>0. TypeOK /\ PastInv /\ DueInv
  BY DEF IInv
<1>1. CASE Wakes
  <2>1. DueAt(leaf)' = DueAt(leaf) /\ now' = now /\ excused' = excused
    BY <1>1 DEF Wakes, material, DueAt, Seconds
  <2>2. TypeOK' /\ StopInv' /\ PastInv'
    BY <1>1 DEF Wakes, IInv, TypeOK, StopInv, PastInv, material
  <2>3. Ahead' = 0 /\ Ahead = 0
    BY <1>1 DEF Wakes, Ahead
  <2>4. DueInv'
    BY <1>0, <1>1, <2>1, <2>3 DEF DueInv, Wakes
  <2> QED
    BY <2>2, <2>4 DEF IInv
<1>2. CASE Stops
  BY <1>2 DEF Stops, IInv, TypeOK, StopInv, PastInv, DueInv, material
<1>3. CASE Emits
  <2>1. DueAt(leaf)' = DueAt(leaf) /\ now' = now /\ excused' = excused
    BY <1>3 DEF Emits, material, DueAt, Seconds
  <2>2. retrying' \in BOOLEAN /\ event' \in {"Failed", "CertificatesRenewed"}
    BY <1>3 DEF Emits
  <2>3. TypeOK' /\ StopInv' /\ PastInv'
    BY <1>3, <2>2 DEF Emits, IInv, TypeOK, StopInv, PastInv, material
  <2>4. Ahead' = 0 /\ Ahead = 0
    BY <1>3 DEF Emits, Ahead
  <2>5. DueInv'
    BY <1>0, <1>3, <2>1, <2>4 DEF DueInv, Emits
  <2> QED
    BY <2>3, <2>5 DEF IInv
<1> QED
  BY <1>1, <1>2, <1>3, DelaysPreserves, RefreshesPreserves DEF Renewing

\* What the shell does preserves the invariant.
LEMMA ShellPreserves ==
  ASSUME IInv, Resumes \/ Drops \/ Joins
  PROVE  IInv'
<1>0. TypeOK /\ PastInv /\ DueInv
  BY DEF IInv
<1>1. CASE Resumes
  <2>1. /\ leaf' \in 0..MaxTime /\ authority' \in 0..MaxTime
        /\ leaf' <= now /\ authority' <= now
        /\ DueAt(leaf') \in Nat /\ DueAt(leaf) <= DueAt(leaf')
    BY <1>0, <1>1, EnsuresRenews DEF Resumes
  <2>2. TypeOK' /\ StopInv' /\ PastInv'
    BY <1>1, <2>1 DEF Resumes, IInv, TypeOK, StopInv, PastInv
  <2>3. DueAt(leaf)' = DueAt(leaf')
    BY DEF DueAt, Seconds
  <2>4. Ahead' = Ahead /\ now' = now /\ excused' = excused /\ thread' = thread
    BY <1>1 DEF Resumes, Ahead
  <2>5. DueInv'
    BY <1>0, <2>1, <2>3, <2>4, Ranges DEF DueInv
  <2> QED
    BY <2>2, <2>5 DEF IInv
<1>2. ASSUME Drops \/ Joins PROVE IInv'
  <2>1. /\ DueAt(leaf)' = DueAt(leaf) /\ now' = now /\ excused' = excused
        /\ thread' = thread /\ Ahead' = Ahead
    BY <1>2 DEF Drops, Joins, material, DueAt, Seconds, Ahead
  <2>2. DueInv'
    BY <1>0, <2>1 DEF DueInv
  <2>3. ASSUME Drops PROVE TypeOK' /\ StopInv' /\ PastInv'
    <3>1. stop' \in BOOLEAN /\ stop' /\ runtime' = "dropping" /\ runtime = "running"
      BY <2>3 DEF Drops
    <3> QED
      BY <2>3, <3>1 DEF Drops, IInv, TypeOK, StopInv, PastInv, material
  <2>4. ASSUME Joins PROVE TypeOK' /\ StopInv' /\ PastInv'
    BY <2>4 DEF Joins, IInv, TypeOK, StopInv, PastInv, material
  <2> QED
    BY <1>2, <2>2, <2>3, <2>4 DEF IInv
<1> QED
  BY <1>1, <1>2

\* Time preserves the invariant, awake or asleep.
LEMMA TimePreserves ==
  ASSUME IInv, Tick \/ MachineSleeps
  PROVE  IInv'
<1>0. TypeOK /\ PastInv /\ DueInv
  BY DEF IInv
<1>1. /\ PassesTime /\ now' = now + 1 /\ now' \in 0..MaxTime
      /\ leaf' = leaf /\ authority' = authority
      /\ thread' = thread /\ retrying' = retrying
  BY <1>0, Ranges DEF Tick, MachineSleeps, PassesTime, material
<1>2. /\ remaining' \in Nat /\ remaining' <= remaining
      /\ excused' \in {excused, excused + 1}
      /\ thread # "gone" =>
           \/ SleepsUntilDue /\ remaining' = remaining - 1 /\ excused' = excused
           \/ /\ excused' = excused + 1
              /\ remaining' = remaining \/ ~SleepsUntilDue
  <2>1. ASSUME Tick
        PROVE  /\ remaining' = IF remaining > 0 THEN remaining - 1 ELSE 0
               /\ SleepsUntilDue => excused' = excused
               /\ ~SleepsUntilDue =>
                    excused' = IF thread = "gone" THEN excused ELSE excused + 1
    BY <2>1 DEF Tick, Excuse
  <2>2. ASSUME MachineSleeps
        PROVE  /\ remaining' = remaining
               /\ excused' = IF thread = "gone" THEN excused ELSE excused + 1
    BY <2>2 DEF MachineSleeps, Excuse
  <2>3. SleepsUntilDue => remaining > 0
    BY DEF SleepsUntilDue
  <2> QED
    BY <1>0, <2>1, <2>2, <2>3, Ranges
<1>3. TypeOK'
  <2> DEFINE most == Fraction * (RenewalAge + RetryDelay)
  <2>1. most \in Nat /\ remaining \in 0..most
    BY <1>0, FractionPositive, TimerNaturals DEF TypeOK
  <2> HIDE DEF most
  <2>2. remaining' \in 0..most
    BY <1>0, <1>2, <2>1, Ranges
  <2>3. excused' \in 0..now'
    BY <1>0, <1>1, <1>2, Ranges
  <2> QED
    BY <1>0, <1>1, <2>2, <2>3 DEF PassesTime, TypeOK, most
<1>4. StopInv' /\ PastInv'
  BY <1>0, <1>1, Ranges DEF PassesTime, IInv, StopInv, PastInv
<1>5. DueAt(leaf)' = DueAt(leaf)
  BY <1>1 DEF DueAt, Seconds
<1>6. ASSUME thread # "gone" PROVE now + 1 + Ahead' <= DueAt(leaf) + excused'
  <2>1. now + Ahead <= DueAt(leaf) + excused
    BY <1>0, <1>6 DEF DueInv
  <2>2. CASE SleepsUntilDue /\ remaining' = remaining - 1 /\ excused' = excused
    <3>1. Ahead = remaining /\ Ahead' = remaining - 1
      BY <1>1, <2>2 DEF Ahead, SleepsUntilDue
    <3> QED
      BY <1>0, <2>1, <2>2, <3>1, Ranges
  <2>3. CASE excused' = excused + 1 /\ (remaining' = remaining \/ ~SleepsUntilDue)
    <3>1. Ahead' \in Nat /\ Ahead' <= Ahead
      BY <1>0, <1>1, <1>2, <2>3, Ranges DEF Ahead, SleepsUntilDue
    <3> QED
      BY <1>0, <2>1, <2>3, <3>1, Ranges
  <2> QED
    BY <1>2, <1>6, <2>2, <2>3
<1>7. DueInv'
  BY <1>1, <1>5, <1>6 DEF DueInv
<1> QED
  BY <1>3, <1>4, <1>7 DEF IInv

\* Every state of a behaviour satisfies the invariant.
THEOREM Invariance == Spec => []IInv
<1>1. IInv /\ UNCHANGED vars => IInv'
  BY DEF IInv, TypeOK, PastInv, DueInv, StopInv, DueAt, Seconds, Ahead,
         vars, material
<1>2. IInv /\ [Next]_vars => IInv'
  BY <1>1, RenewingPreserves, ShellPreserves, TimePreserves DEF Next
<1> QED
  BY InitIInv, <1>2, PTL DEF Spec

-----------------------------------------------------------------------------
(* Theorems. *)

\* The variables keep to their values.
THEOREM TypeCorrect == Spec => []TypeOK
<1>1. IInv => TypeOK
  BY DEF IInv
<1> QED
  BY Invariance, <1>1, PTL

\* When a running runtime holds an expired server leaf, then since the thread
\* last refreshed with success the machine slept, the thread could not run or
\* waited to try again for at least as long as a leaf lives on after it is due:
\* no error of renewal_delay, of its rounding or of resume() beside the thread
\* adds to that (Renewal and renewal_delay, certificates.rs).
THEOREM ExpiryNeedsExcuse == Spec => []ExpiryIsExcused
<1>1. IInv => ExpiryIsExcused
  <2> SUFFICES ASSUME IInv, runtime = "running", ~IsLive(leaf, LeafLife)
               PROVE  excused >= Fraction * (LeafLife - RenewalAge)
    BY DEF ExpiryIsExcused
  <2>1. /\ now \in Nat /\ leaf \in Nat /\ excused \in Nat /\ Ahead \in Nat
        /\ DueAt(leaf) \in Nat /\ RenewalAge \in Nat /\ LeafLife \in Nat
        /\ Fraction \in Nat
    BY Ranges, FractionPositive, TimerNaturals DEF IInv
  <2>2. now + Ahead <= DueAt(leaf) + excused
    BY DEF IInv, StopInv, DueInv
  <2>3. /\ Seconds(now) \in Nat /\ Seconds(leaf) \in Nat
        /\ Fraction * Seconds(now) <= now
    BY <2>1, SecondsBounds
  <2>4. Seconds(now) >= Seconds(leaf) + LeafLife
    BY <2>1, <2>3 DEF IsLive
  <2>5. Fraction * Seconds(now) >= Fraction * (Seconds(leaf) + LeafLife)
    BY <2>1, <2>3, <2>4
  <2>6. /\ DueAt(leaf) = Fraction * Seconds(leaf) + Fraction * RenewalAge
        /\ Fraction * (Seconds(leaf) + LeafLife)
             = Fraction * Seconds(leaf) + Fraction * LeafLife
        /\ Fraction * (LeafLife - RenewalAge)
             = Fraction * LeafLife - Fraction * RenewalAge
    BY <2>1, <2>3 DEF DueAt
  <2>7. /\ Fraction * Seconds(leaf) \in Nat /\ Fraction * RenewalAge \in Nat
        /\ Fraction * LeafLife \in Nat /\ Fraction * Seconds(now) \in Nat
    BY <2>1, <2>3
  <2> DEFINE made == Fraction * Seconds(leaf)
             age == Fraction * RenewalAge
             life == Fraction * LeafLife
             seconds == Fraction * Seconds(now)
  <2>8. /\ made \in Nat /\ age \in Nat /\ life \in Nat /\ seconds \in Nat
        /\ seconds <= now /\ seconds >= made + life /\ DueAt(leaf) = made + age
        /\ Fraction * (LeafLife - RenewalAge) = life - age
    BY <2>3, <2>5, <2>6, <2>7
  <2> HIDE DEF made, age, life, seconds
  <2> QED
    BY <2>1, <2>2, <2>8
<1> QED
  BY Invariance, <1>1, PTL

=============================================================================
