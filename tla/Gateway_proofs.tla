---------------------------- MODULE Gateway_proofs ----------------------------
(***************************************************************************)
(* Proofs about Gateway, for any number of connections, callers, ports and *)
(* pool threads.                                                           *)
(***************************************************************************)
EXTENDS Gateway, FiniteSetTheorems, TLAPS

-----------------------------------------------------------------------------
(* The inductive invariant. *)

\* Shutdown: what each stage of Drop has established.
ShutdownInv ==
  /\ phase = "Stopping" <=> drop # "idle"
  /\ accepting <=> drop \in {"idle", "stopped"}
  /\ drop # "idle" => \A k \in Callers : caller[k] = "idle"
  /\ drop \in {"shutdown", "done"} => loop = "exited"

\* The accept loop: whom it holds, which port it uses, what it leaves.
LoopInv ==
  /\ loop # "publish" => port = listener
  /\ \A c \in Conns : conn[c] = "accepted" => loop \in {"gate", "parked"}
  /\ loop = "exited" => /\ ~alive
                        /\ \A c \in Conns : conn[c] \in {"outside", "done"}

\* The registry holds exactly the connections whose thread is past the push.
RegistryInv ==
  \A c \in Conns :
    c \in registered <=> conn[c] \in {"check", "gate", "parked"} \cup PastGate

\* A connection's job and reply agree with how far its thread is.
JobInv ==
  \A c \in Conns :
    /\ conn[c] \in {"outside", "backlog", "accepted", "spawned", "check",
                    "gate", "parked", "serving"}
         => job[c] = "none" /\ reply[c] = "none"
    /\ job[c] \in {"queued", "entering", "parked"}
         => conn[c] = "await" /\ reply[c] = "none"
    /\ job[c] = "running" /\ reply[c] = "none" => conn[c] = "await"

\* Everything but the count, which needs facts about cardinality.
ThreadsInv ==
  /\ TypeOK /\ NoLostWakeup /\ SuspendSevers /\ DropSevers /\ LoopIsWoken
  /\ ShutdownInv /\ LoopInv /\ RegistryInv /\ JobInv

IInv == ThreadsInv /\ ActiveCountsExecutions

-----------------------------------------------------------------------------
(* Lemmas. *)

\* The set of running handlers is finite, so its cardinality can be counted.
LEMMA RunningFinite == IsFiniteSet(Running)
  BY ConnsFinite, FS_Subset DEF Running

\* Waking sleepers neither starts nor ends a handler.
LEMMA NotifyKeepsRunning ==
  ASSUME NotifyAll
  PROVE  Running' = Running
  BY DEF NotifyAll, Woken, Running

\* An admission adds one to the number of running handlers.
LEMMA EnterCounts ==
  ASSUME NEW c \in Conns, TypeOK, JobEnters(c)
  PROVE  Cardinality(Running') = Cardinality(Running) + 1
<1>1. Running' = Running \cup {c} /\ c \notin Running
  BY DEF JobEnters, Running, TypeOK
<1> QED
  BY <1>1, RunningFinite, FS_AddElement

\* A return takes one from the number of running handlers.
LEMMA ReturnCounts ==
  ASSUME NEW c \in Conns, TypeOK, JobReturns(c)
  PROVE  /\ Cardinality(Running) \in Nat /\ Cardinality(Running') \in Nat
         /\ Cardinality(Running') = Cardinality(Running) - 1
<1>1. Running' = Running \ {c} /\ c \in Running
  BY DEF JobReturns, Running, TypeOK, Woken
<1>2. Cardinality(Running') = Cardinality(Running) - 1
  BY <1>1, RunningFinite, FS_RemoveElement
<1>3. IsFiniteSet(Running')
  BY <1>1, RunningFinite, FS_Subset
<1> QED
  BY <1>2, <1>3, RunningFinite, FS_CardinalityType

-----------------------------------------------------------------------------
(* The invariant holds initially and every step preserves it. *)

\* The gateway starts in a state of the invariant.
LEMMA InitIInv == Init => IInv
<1> SUFFICES ASSUME Init PROVE IInv
  OBVIOUS
<1>1. Running = {}
  BY DEF Init, Running
<1>2. Cardinality(Running) = 0
  BY <1>1, FS_EmptySet
<1>3. ActiveCountsExecutions
  BY <1>2 DEF Init, ActiveCountsExecutions
<1>4. /\ accepting \in BOOLEAN /\ accepting
      /\ alive \in BOOLEAN /\ alive
      /\ wake \in BOOLEAN /\ ~wake
  BY DEF Init
<1>5. TypeOK
  BY <1>4, MaxLossesNat DEF Init, TypeOK, Phases, LoopStates, ConnStates,
     ThreadStates, JobStates, PooledStates, Replies, CallerStates, DropStates
<1>6. /\ NoLostWakeup /\ SuspendSevers /\ DropSevers /\ LoopIsWoken
      /\ ShutdownInv /\ LoopInv /\ RegistryInv /\ JobInv
  BY <1>4 DEF Init, NoLostWakeup, SuspendSevers, DropSevers, LoopIsWoken,
     ShutdownInv, LoopInv, RegistryInv, JobInv, PastGate
<1> QED
  BY <1>3, <1>5, <1>6 DEF IInv, ThreadsInv

\* A client's connect and the loss of the listener preserve the invariant.
LEMMA EnvironmentStep ==
  ASSUME IInv,
         (\E c \in Conns : ClientConnects(c)) \/ LoseListener
  PROVE  IInv'
<1> USE DEF IInv, ThreadsInv, TypeOK, NoLostWakeup, SuspendSevers, DropSevers,
            LoopIsWoken, ShutdownInv, LoopInv, RegistryInv, JobInv,
            Phases, LoopStates, ConnStates, ThreadStates, PastGate, JobStates,
            PooledStates, Replies, CallerStates, DropStates, Joining,
            lifecycleVars, registryVars, socketVars
<1>1. ASSUME NEW c \in Conns, ClientConnects(c) PROVE ThreadsInv'
  BY <1>1 DEF ClientConnects
<1>2. ASSUME LoseListener PROVE ThreadsInv'
  <2>1. alive' \in BOOLEAN /\ ~alive' /\ wake' \in BOOLEAN /\ ~wake'
    BY <1>2 DEF LoseListener
  <2>2. losses' \in 0..MaxLosses
    BY <1>2, MaxLossesNat DEF LoseListener
  <2> QED
    BY <1>2, <2>1, <2>2 DEF LoseListener, ResetBacklog
<1>3. ActiveCountsExecutions'
  <2>1. Running' = Running /\ active' = active /\ phase' = phase
    BY DEF Running, ClientConnects, LoseListener
  <2> QED
    BY <2>1 DEF ActiveCountsExecutions
<1> QED
  BY <1>1, <1>2, <1>3

\* Every step of the accept loop preserves the invariant.
LEMMA LoopPreserves ==
  ASSUME IInv, LoopStep \/ LoopAcceptError
  PROVE  IInv'
<1> USE DEF IInv, ThreadsInv, TypeOK, NoLostWakeup, SuspendSevers, DropSevers,
            LoopIsWoken, ShutdownInv, LoopInv, RegistryInv, JobInv,
            Phases, LoopStates, ConnStates, ThreadStates, PastGate, JobStates,
            PooledStates, Replies, CallerStates, DropStates, Joining,
            lifecycleVars, registryVars, socketVars
<1>1. ASSUME LoopCheck PROVE ThreadsInv'
  BY <1>1 DEF LoopCheck
<1>2. ASSUME LoopAccept PROVE ThreadsInv'
  <2>1. wake' \in BOOLEAN /\ alive' \in BOOLEAN
    BY <1>2 DEF LoopAccept
  <2> QED
    BY <1>2, <2>1 DEF LoopAccept
<1>3. ASSUME LoopAcceptError PROVE ThreadsInv'
  BY <1>3 DEF LoopAcceptError
<1>4. ASSUME LoopReplaceListener PROVE ThreadsInv'
  <2>1. alive' \in BOOLEAN /\ wake' \in BOOLEAN /\ (alive' \/ (~alive' /\ loop' = "closing"))
    BY <1>4 DEF LoopReplaceListener
  <2> QED
    BY <1>4, <2>1 DEF LoopReplaceListener
<1>5. ASSUME LoopPublishPort PROVE ThreadsInv'
  BY <1>5 DEF LoopPublishPort
<1>6. ASSUME LoopSpawn PROVE ThreadsInv'
  BY <1>6 DEF LoopSpawn, Admits
<1>7. ASSUME LoopRefused PROVE ThreadsInv'
  BY <1>7 DEF LoopRefused, Refuses
<1>8. ASSUME LoopParks PROVE ThreadsInv'
  BY <1>8 DEF LoopParks, Sleeps, Admits, Refuses
<1>9. ASSUME LoopClosesConnections PROVE ThreadsInv'
  BY <1>9 DEF LoopClosesConnections, CloseConnections
<1>10. ASSUME LoopExits PROVE ThreadsInv'
  <2>1. alive' \in BOOLEAN /\ ~alive' /\ wake' \in BOOLEAN /\ ~wake'
    BY <1>10 DEF LoopExits
  <2> QED
    BY <1>10, <2>1 DEF LoopExits, LiveThreads, ResetBacklog
<1>11. ActiveCountsExecutions'
  <2>1. Running' = Running /\ active' = active /\ phase' = phase
    BY DEF Running, LoopStep, LoopCheck, LoopAccept, LoopAcceptError, LoopReplaceListener,
           LoopPublishPort, LoopSpawn, LoopRefused, LoopParks,
           LoopClosesConnections, LoopExits
  <2> QED
    BY <2>1 DEF ActiveCountsExecutions
<1> QED
  BY <1>1, <1>2, <1>3, <1>4, <1>5, <1>6, <1>7, <1>8, <1>9, <1>10, <1>11 DEF LoopStep

\* Every step of a connection's thread preserves the invariant.
LEMMA ConnPreserves ==
  ASSUME IInv,
         NEW c \in Conns, ConnProceeds(c) \/ ConnTalks(c)
  PROVE  IInv'
<1> USE DEF IInv, ThreadsInv, TypeOK, NoLostWakeup, SuspendSevers, DropSevers,
            LoopIsWoken, ShutdownInv, LoopInv, RegistryInv, JobInv,
            Phases, LoopStates, ConnStates, ThreadStates, PastGate, JobStates,
            PooledStates, Replies, CallerStates, DropStates, Joining,
            lifecycleVars, registryVars, socketVars
<1>1. ASSUME ConnRegister(c) PROVE ThreadsInv'
  BY <1>1 DEF ConnRegister, ConnEnds, ConnUnchanged
<1>2. ASSUME ConnCheck(c) PROVE ThreadsInv'
  BY <1>2 DEF ConnCheck, ConnEnds, ConnUnchanged
<1>3. ASSUME ConnGate(c) PROVE ThreadsInv'
  BY <1>3 DEF ConnGate, ConnEnds, Admits, Refuses, Sleeps, ConnUnchanged
<1>4. ASSUME ConnReceives(c) PROVE ThreadsInv'
  BY <1>4 DEF ConnReceives, ConnEnds, ConnUnchanged
<1>5. ASSUME ConnRejects(c) PROVE ThreadsInv'
  BY <1>5 DEF ConnRejects, ConnEnds, ConnUnchanged
<1>6. ASSUME ConnDispatches(c) PROVE ThreadsInv'
  BY <1>6 DEF ConnDispatches, ConnUnchanged
<1>7. ASSUME ConnResponds(c) PROVE ThreadsInv'
  BY <1>7 DEF ConnResponds, ConnEnds, ConnUnchanged
<1>8. ActiveCountsExecutions'
  <2>1. Running' = Running /\ active' = active /\ phase' = phase
    BY DEF Running, ConnProceeds, ConnTalks, ConnRegister, ConnCheck, ConnGate, ConnReceives,
           ConnRejects, ConnDispatches, ConnResponds, ConnUnchanged
  <2> QED
    BY <2>1 DEF ActiveCountsExecutions
<1> QED
  BY <1>1, <1>2, <1>3, <1>4, <1>5, <1>6, <1>7, <1>8 DEF ConnProceeds, ConnTalks

\* Every step of a job preserves the invariant; admissions and returns are
\* counted one by one.
LEMMA JobPreserves ==
  ASSUME IInv,
         NEW c \in Conns, JobProceeds(c) \/ JobWorks(c)
  PROVE  IInv'
<1> USE DEF IInv, ThreadsInv, TypeOK, NoLostWakeup, SuspendSevers, DropSevers,
            LoopIsWoken, ShutdownInv, LoopInv, RegistryInv, JobInv,
            Phases, LoopStates, ConnStates, ThreadStates, PastGate, JobStates,
            PooledStates, Replies, CallerStates, DropStates, Joining,
            lifecycleVars, registryVars, socketVars
<1>1. ASSUME JobStarts(c) PROVE ThreadsInv'
  BY <1>1 DEF JobStarts, JobUnchanged
<1>2. ASSUME JobEnters(c) PROVE ThreadsInv'
  BY <1>2 DEF JobEnters, Admits, JobUnchanged
<1>3. ASSUME JobParks(c) PROVE ThreadsInv'
  BY <1>3 DEF JobParks, Admits, Refuses, Sleeps, JobUnchanged
<1>4. ASSUME JobDropped(c) PROVE ThreadsInv'
  BY <1>4 DEF JobDropped, Refuses, JobUnchanged
<1>5. ASSUME JobAnswers(c) PROVE ThreadsInv'
  BY <1>5 DEF JobAnswers, JobUnchanged
<1>6. ASSUME JobReturns(c) PROVE ThreadsInv'
  <2>1. active' \in Nat
    BY <1>6, ReturnCounts DEF JobReturns, ActiveCountsExecutions
  <2> QED
    BY <1>6, <2>1 DEF JobReturns, Woken, JobUnchanged
<1>7. ActiveCountsExecutions'
  <2>1. CASE JobEnters(c)
    BY <2>1, EnterCounts DEF JobEnters, Admits, ActiveCountsExecutions
  <2>2. CASE JobReturns(c)
    BY <2>2, ReturnCounts DEF JobReturns, ActiveCountsExecutions
  <2>3. CASE ~JobEnters(c) /\ ~JobReturns(c)
    <3>1. Running' = Running /\ active' = active /\ phase' = phase
      BY <2>3 DEF Running, JobProceeds, JobWorks, JobStarts, JobParks,
         JobDropped, JobAnswers
    <3> QED
      BY <3>1 DEF ActiveCountsExecutions
  <2> QED
    BY <2>1, <2>2, <2>3
<1> QED
  BY <1>1, <1>2, <1>3, <1>4, <1>5, <1>6, <1>7 DEF JobProceeds, JobWorks

\* Every step of suspend() and resume() preserves the invariant.
LEMMA CallerPreserves ==
  ASSUME IInv,
         NEW k \in Callers,
         Suspend(k) \/ ResumeRefreshes(k) \/ CallerProceeds(k)
  PROVE  IInv'
<1> USE DEF IInv, ThreadsInv, TypeOK, NoLostWakeup, SuspendSevers, DropSevers,
            LoopIsWoken, ShutdownInv, LoopInv, RegistryInv, JobInv,
            Phases, LoopStates, ConnStates, ThreadStates, PastGate, JobStates,
            PooledStates, Replies, CallerStates, DropStates, Joining,
            lifecycleVars, registryVars, socketVars
<1>1. ASSUME Suspend(k) PROVE ThreadsInv'
  BY <1>1 DEF Suspend, NotifyAll, Woken, CallerUnchanged
<1>2. ASSUME SuspendCloses(k) PROVE ThreadsInv'
  BY <1>2 DEF SuspendCloses, CloseConnections, CallerUnchanged
<1>3. ASSUME EmitSuspended(k) PROVE ThreadsInv'
  BY <1>3 DEF EmitSuspended, CallerUnchanged
<1>4. ASSUME ResumeRefreshes(k) PROVE ThreadsInv'
  BY <1>4 DEF ResumeRefreshes, CallerUnchanged
<1>5. ASSUME Resume(k) PROVE ThreadsInv'
  BY <1>5 DEF Resume, NotifyAll, Woken, CallerUnchanged
<1>6. ASSUME EmitResumed(k) PROVE ThreadsInv'
  BY <1>6 DEF EmitResumed, CallerUnchanged
<1>7. ActiveCountsExecutions'
  <2>1. Running' = Running /\ active' = active
    BY NotifyKeepsRunning DEF Running, CallerProceeds, Suspend, SuspendCloses,
       EmitSuspended, ResumeRefreshes, Resume, EmitResumed
  <2>2. /\ phase' = "Suspended" => (active = 0 \/ phase = "Suspended")
        /\ phase' = "Suspending" => (active # 0 \/ phase = "Suspending")
    BY DEF CallerProceeds, Suspend, SuspendCloses, EmitSuspended,
       ResumeRefreshes, Resume, EmitResumed
  <2> QED
    BY <2>1, <2>2 DEF ActiveCountsExecutions
<1> QED
  BY <1>1, <1>2, <1>3, <1>4, <1>5, <1>6, <1>7 DEF CallerProceeds

\* Every step of Drop preserves the invariant.
LEMMA DropPreserves ==
  ASSUME IInv, DropStops \/ DropProceeds
  PROVE  IInv'
<1> USE DEF IInv, ThreadsInv, TypeOK, NoLostWakeup, SuspendSevers, DropSevers,
            LoopIsWoken, ShutdownInv, LoopInv, RegistryInv, JobInv,
            Phases, LoopStates, ConnStates, ThreadStates, PastGate, JobStates,
            PooledStates, Replies, CallerStates, DropStates, Joining,
            lifecycleVars, registryVars, socketVars
<1>1. ASSUME DropStops PROVE ThreadsInv'
  BY <1>1 DEF DropStops, NotifyAll, Woken
<1>2. ASSUME DropRefuses PROVE ThreadsInv'
  <2>1. accepting' \in BOOLEAN /\ ~accepting'
    BY <1>2 DEF DropRefuses
  <2> QED
    BY <1>2, <2>1 DEF DropRefuses, DropUnchanged
<1>3. ASSUME DropCloses PROVE ThreadsInv'
  BY <1>3 DEF DropCloses, CloseConnections, DropUnchanged
<1>4. ASSUME DropWakes PROVE ThreadsInv'
  <2>1. /\ wake' \in BOOLEAN
        /\ \/ drop' = "joining" /\ (wake' <=> (wake \/ (alive /\ port = listener)))
           \/ drop' = "unheard"
    BY <1>4 DEF DropWakes
  <2> QED
    BY <1>4, <2>1 DEF DropWakes, DropUnchanged
<1>5. ASSUME DropJoins PROVE ThreadsInv'
  BY <1>5 DEF DropJoins, DropUnchanged
<1>6. ASSUME DropFinishes PROVE ThreadsInv'
  BY <1>6 DEF DropFinishes, DropUnchanged
<1>7. ActiveCountsExecutions'
  <2>1. Running' = Running /\ active' = active
    BY NotifyKeepsRunning DEF Running, DropProceeds, DropStops, DropRefuses,
       DropCloses, DropWakes, DropJoins, DropFinishes, DropUnchanged
  <2>2. phase' = "Stopping" \/ phase' = phase
    BY DEF DropProceeds, DropStops, DropRefuses, DropCloses, DropWakes,
       DropJoins, DropFinishes
  <2> QED
    BY <2>1, <2>2 DEF ActiveCountsExecutions
<1> QED
  BY <1>1, <1>2, <1>3, <1>4, <1>5, <1>6, <1>7 DEF DropProceeds

\* A step that changes nothing preserves the invariant.
LEMMA StutterPreserves ==
  ASSUME IInv, UNCHANGED vars
  PROVE  IInv'
<1>1. Running' = Running
  BY DEF vars, Running
<1> QED
  BY <1>1 DEF vars, IInv, ThreadsInv, ActiveCountsExecutions, TypeOK,
     NoLostWakeup, SuspendSevers, DropSevers, LoopIsWoken, ShutdownInv,
     LoopInv, RegistryInv, JobInv

\* Every step of the gateway preserves the invariant.
LEMMA StepPreserves == IInv /\ [Next]_vars => IInv'
  BY EnvironmentStep, LoopPreserves, ConnPreserves, JobPreserves,
     CallerPreserves, DropPreserves, StutterPreserves DEF Next

\* The invariant holds in every reachable state.
THEOREM Invariant == Spec => []IInv
  BY InitIInv, StepPreserves, PTL DEF Spec

-----------------------------------------------------------------------------
(* The safety properties of Gateway. *)

\* Every variable keeps to its type.
THEOREM TypeCorrect == Spec => []TypeOK
<1>1. IInv => TypeOK
  BY DEF IInv, ThreadsInv
<1> QED
  BY <1>1, Invariant, PTL

\* active counts the running handlers and the phase tells whether there are any.
THEOREM CountsExecutions == Spec => []ActiveCountsExecutions
<1>1. IInv => ActiveCountsExecutions
  BY DEF IInv
<1> QED
  BY <1>1, Invariant, PTL

\* No thread sleeps through the change it waits for.
THEOREM NoSleeperForgotten == Spec => []NoLostWakeup
<1>1. IInv => NoLostWakeup
  BY DEF IInv, ThreadsInv
<1> QED
  BY <1>1, Invariant, PTL

\* After suspend() has closed the connections none that was let in is open.
THEOREM SuspensionSevers == Spec => []SuspendSevers
<1>1. IInv => SuspendSevers
  BY DEF IInv, ThreadsInv
<1> QED
  BY <1>1, Invariant, PTL

\* After Drop has closed the connections none that was let in is open.
THEOREM ShutdownSevers == Spec => []DropSevers
<1>1. IInv => DropSevers
  BY DEF IInv, ThreadsInv
<1> QED
  BY <1>1, Invariant, PTL

\* Drop never joins an accept loop that nothing brings back from accept().
THEOREM ShutdownWakesLoop == Spec => []LoopIsWoken
<1>1. IInv => LoopIsWoken
  BY DEF IInv, ThreadsInv
<1> QED
  BY <1>1, Invariant, PTL

\* A finished Drop leaves no connection thread and no undispatched job.
THEOREM ShutdownLeavesNothing == Spec => []NothingOutlivesDrop
<1>1. IInv => NothingOutlivesDrop
  BY DEF IInv, ThreadsInv, TypeOK, ShutdownInv, LoopInv, JobInv,
     NothingOutlivesDrop, JobStates, PooledStates
<1> QED
  BY <1>1, Invariant, PTL

-----------------------------------------------------------------------------
(* Gateway implements Quiescence. *)

\* The count is zero exactly when no handler runs.
LEMMA CountIsRest ==
  ASSUME ActiveCountsExecutions
  PROVE  active = 0 <=> Running = {}
  BY RunningFinite, FS_EmptySet DEF ActiveCountsExecutions

\* A step that only ends conversations is a HangUp (or a stutter).
LEMMA HangUpStep ==
  ASSUME phase' = phase, Running' = Running, Pending' = Pending,
         Talking' \subseteq Talking
  PROVE  Quiet!HangUp
  BY DEF Quiet!HangUp

\* Waking sleepers neither begins nor ends a conversation.
LEMMA NotifyKeepsTalking ==
  ASSUME NotifyAll, TypeOK, UNCHANGED cancelled
  PROVE  Talking' = Talking
  BY DEF NotifyAll, Woken, Talking, PastGate, TypeOK, ConnStates, ThreadStates

\* The environment and the accept loop at most hang up.
LEMMA LoopRefines ==
  ASSUME IInv, LoopStep \/ LoopAcceptError \/ LoseListener \/ \E c \in Conns : ClientConnects(c)
  PROVE  Quiet!HangUp
<1> USE DEF IInv, ThreadsInv, TypeOK, registryVars, lifecycleVars
<1>1. phase' = phase /\ Running' = Running /\ Pending' = Pending
  BY DEF LoopStep, LoopCheck, LoopAccept, LoopAcceptError, LoopReplaceListener,
     LoopPublishPort, LoopSpawn, LoopRefused, LoopParks, LoopClosesConnections,
     LoopExits, LoseListener, ClientConnects, Running, Pending
<1>2. Talking' \subseteq Talking
  BY DEF LoopStep, LoopCheck, LoopAccept, LoopAcceptError, LoopReplaceListener,
     LoopPublishPort, LoopSpawn, LoopRefused, LoopParks, LoopClosesConnections,
     LoopExits, LoseListener, ClientConnects, Talking, PastGate,
     CloseConnections, ResetBacklog
<1> QED
  BY <1>1, <1>2, HangUpStep

\* A connection begins to talk only at its gate, and only while running.
LEMMA ConnRefines ==
  ASSUME IInv, NEW c \in Conns, ConnProceeds(c) \/ ConnTalks(c)
  PROVE  Quiet!Talk(c) \/ Quiet!HangUp
<1> USE DEF IInv, ThreadsInv, TypeOK, lifecycleVars, ConnUnchanged
<1>1. phase' = phase /\ Pending' = Pending /\ cancelled' = cancelled
  BY DEF ConnProceeds, ConnTalks, ConnRegister, ConnCheck, ConnGate,
     ConnReceives, ConnRejects, ConnDispatches, ConnResponds, Pending
<1>2. Running' = Running
  BY DEF ConnProceeds, ConnTalks, ConnRegister, ConnCheck, ConnGate,
     ConnReceives, ConnRejects, ConnDispatches, ConnResponds, Running, JobInv
<1>3. CASE ConnGate(c) /\ Admits
  <2>1. Talking' = IF c \in cancelled THEN Talking ELSE Talking \cup {c}
    BY <1>3, <1>1 DEF ConnGate, Admits, Sleeps, Refuses, Talking, PastGate
  <2>2. CASE c \in cancelled
    BY <1>1, <1>2, <2>1, <2>2, HangUpStep
  <2>3. CASE c \notin cancelled
    BY <1>1, <1>2, <1>3, <2>1, <2>3 DEF Quiet!Talk, Admits
  <2> QED
    BY <2>2, <2>3
<1>4. CASE ~(ConnGate(c) /\ Admits)
  <2>1. Talking' \subseteq Talking
    BY <1>1, <1>4 DEF ConnProceeds, ConnTalks, ConnRegister, ConnCheck, ConnGate,
       ConnReceives, ConnRejects, ConnDispatches, ConnResponds, ConnEnds,
       Talking, PastGate
  <2> QED
    BY <1>1, <1>2, <2>1, HangUpStep
<1> QED
  BY <1>3, <1>4

\* A handler begins and ends where its admission and its return are counted.
LEMMA JobRefines ==
  ASSUME IInv, IInv', NEW c \in Conns, JobProceeds(c) \/ JobWorks(c)
  PROVE  Quiet!Begin(c) \/ Quiet!End(c) \/ Quiet!HangUp
<1> USE DEF IInv, ThreadsInv, TypeOK, registryVars, lifecycleVars, JobUnchanged
<1>1. Pending' = Pending /\ Talking' = Talking
  BY DEF JobProceeds, JobWorks, JobStarts, JobEnters, JobParks, JobDropped,
     JobAnswers, JobReturns, Woken, Pending, Talking, PastGate
<1>2. CASE JobEnters(c)
  <2>1. Running' = Running \cup {c} /\ c \notin Running
    BY <1>2 DEF JobEnters, Running
  <2> QED
    BY <1>1, <1>2, <2>1 DEF Quiet!Begin, JobEnters, Admits
<1>3. CASE JobReturns(c)
  <2>1. Running' = Running \ {c} /\ c \in Running
    BY <1>3 DEF JobReturns, Running, Woken
  <2>2. active' = 0 <=> Running' = {}
    <3>1. active' = Cardinality(Running')
      BY DEF ActiveCountsExecutions
    <3>2. IsFiniteSet(Running')
      BY <2>1, RunningFinite, FS_Subset
    <3> QED
      BY <3>1, <3>2, FS_EmptySet
  <2>3. phase' = IF phase = "Suspending" THEN Quiet!Rest(Running') ELSE phase
    BY <1>3, <2>2 DEF JobReturns, Quiet!Rest
  <2> QED
    BY <1>1, <2>1, <2>3 DEF Quiet!End
<1>4. CASE ~JobEnters(c) /\ ~JobReturns(c)
  <2>1. phase' = phase /\ Running' = Running
    BY <1>4 DEF JobProceeds, JobWorks, JobStarts, JobParks, JobDropped,
       JobAnswers, Running
  <2> QED
    BY <1>1, <2>1, HangUpStep
<1> QED
  BY <1>2, <1>3, <1>4

\* suspend() and resume() are the abstract calls; closing leaves nobody.
LEMMA CallerRefines ==
  ASSUME IInv, NEW k \in Callers,
         Suspend(k) \/ ResumeRefreshes(k) \/ CallerProceeds(k)
  PROVE  Quiet!Suspend(k) \/ Quiet!Sever(k) \/ Quiet!Resume \/ Quiet!HangUp
<1> USE DEF IInv, ThreadsInv, registryVars, lifecycleVars, CallerUnchanged
<1>1. CASE Suspend(k)
  <2>1. Running' = Running /\ Talking' = Talking
    BY <1>1, NotifyKeepsRunning, NotifyKeepsTalking DEF Suspend
  <2>2. Pending' = Pending \cup {k} /\ k \notin Pending
    BY <1>1 DEF Suspend, Pending, TypeOK
  <2>3. phase' = IF phase = "Running" THEN Quiet!Rest(Running) ELSE phase
    BY <1>1, CountIsRest DEF Suspend, Quiet!Rest
  <2> QED
    BY <2>1, <2>2, <2>3 DEF Quiet!Suspend
<1>2. CASE SuspendCloses(k)
  <2>1. Pending' = Pending \ {k} /\ k \in Pending
    BY <1>2 DEF SuspendCloses, Pending, TypeOK
  <2>2. Talking' = {}
    BY <1>2 DEF SuspendCloses, CloseConnections, Talking, RegistryInv
  <2> QED
    BY <1>2, <2>1, <2>2 DEF Quiet!Sever, SuspendCloses, Running
<1>3. CASE Resume(k)
  <2>1. Pending' = Pending
    BY <1>3 DEF Resume, Pending, TypeOK
  <2>2. Running' = Running /\ Talking' = Talking
    <3>1. CASE phase = "Stopping"
      BY <1>3, <3>1 DEF Resume, Running, Talking
    <3>2. CASE phase # "Stopping"
      BY <1>3, <3>2, NotifyKeepsRunning, NotifyKeepsTalking DEF Resume
    <3> QED
      BY <3>1, <3>2
  <2>3. CASE phase = "Stopping"
    BY <1>3, <2>1, <2>2, <2>3, HangUpStep DEF Resume
  <2>4. CASE phase # "Stopping"
    BY <1>3, <2>1, <2>2, <2>4 DEF Resume, Quiet!Resume
  <2> QED
    BY <2>3, <2>4
<1>4. CASE EmitSuspended(k) \/ ResumeRefreshes(k) \/ EmitResumed(k)
  <2>1. phase' = phase /\ Running' = Running /\ Talking' = Talking
    BY <1>4 DEF EmitSuspended, ResumeRefreshes, EmitResumed, Running, Talking
  <2>2. Pending' = Pending
    BY <1>4 DEF EmitSuspended, ResumeRefreshes, EmitResumed, Pending, TypeOK
  <2> QED
    BY <2>1, <2>2, HangUpStep
<1> QED
  BY <1>1, <1>2, <1>3, <1>4 DEF CallerProceeds

\* Drop stops the abstract runtime, with no suspend() in progress.
LEMMA DropRefines ==
  ASSUME IInv, DropStops \/ DropProceeds
  PROVE  Quiet!Stop \/ Quiet!HangUp
<1> USE DEF IInv, ThreadsInv, TypeOK, registryVars, lifecycleVars, DropUnchanged
<1>1. CASE DropStops
  <2>1. Running' = Running /\ Talking' = Talking
    BY <1>1, NotifyKeepsRunning, NotifyKeepsTalking DEF DropStops
  <2>2. Pending' = Pending /\ Pending = {}
    BY <1>1 DEF DropStops, Pending
  <2> QED
    BY <1>1, <2>1, <2>2 DEF Quiet!Stop, DropStops
<1>2. CASE DropProceeds
  <2>1. phase' = phase /\ Running' = Running /\ Pending' = Pending
    BY <1>2 DEF DropProceeds, DropRefuses, DropCloses, DropWakes, DropJoins,
       DropFinishes, Running, Pending
  <2>2. Talking' \subseteq Talking
    BY <1>2 DEF DropProceeds, DropRefuses, DropCloses, DropWakes, DropJoins,
       DropFinishes, CloseConnections, Talking
  <2> QED
    BY <2>1, <2>2, HangUpStep
<1> QED
  BY <1>1, <1>2

\* The gateway's threads keep the promise about suspension: every behaviour of
\* Gateway, seen through its running handlers, its open served connections and
\* its unfinished suspend() calls, is a behaviour of Quiescence.
THEOREM Refinement == Spec => ImplementsQuiescence
<1>1. Init => Quiet!Init
  BY DEF Init, Quiet!Init, Running, Talking, Pending, PastGate
<1>2. IInv /\ IInv' /\ [Next]_vars => [Quiet!Next]_(Quiet!qVars)
  <2> SUFFICES ASSUME IInv, IInv', [Next]_vars
               PROVE  [Quiet!Next]_(Quiet!qVars)
    OBVIOUS
  <2>1. CASE UNCHANGED vars
    BY <2>1 DEF vars, Quiet!qVars, Running, Talking, Pending
  <2>2. CASE Next
    BY <2>2, LoopRefines, ConnRefines, JobRefines, CallerRefines, DropRefines
       DEF Next, Quiet!Next
  <2> QED
    BY <2>1, <2>2
<1> QED
  BY <1>1, <1>2, Invariant, PTL DEF Spec, ImplementsQuiescence, Quiet!Spec

=============================================================================
