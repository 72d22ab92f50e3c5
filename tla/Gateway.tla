------------------------------- MODULE Gateway -------------------------------
(***************************************************************************)
(* The loopback gateway of tokamak (tokamak/src/gateway.rs): the accept    *)
(* loop, one thread per connection, one blocking-pool job per request, the *)
(* lifecycle lock they all wait on, the callers of suspend() and resume()  *)
(* (tokamak/src/server.rs), and Runtime's Drop.                            *)
(*                                                                         *)
(* Each thread has its own program counter: loop, conn[c], job[c],         *)
(* caller[k] and drop.  A step is what a thread does between two points    *)
(* where another thread can observe it: one critical section of the        *)
(* lifecycle mutex, one of the connection registry, or one access to an    *)
(* atomic.  A thread asleep on the condition variable is "parked"; only    *)
(* notify_all makes it re-evaluate its condition.                          *)
(*                                                                         *)
(* What a request and a response contain is abstracted; what the handler   *)
(* does between its call and its return is one answer and one return.      *)
(* WebSocketBridge and ResponseStream open up that part.                   *)
(***************************************************************************)
EXTENDS Integers, FiniteSets

CONSTANTS
  Conns,      \* client connections that may be made
  Callers,    \* threads of the embedding shell that call suspend and resume
  Ports,      \* loopback ports the gateway may be bound to
  PoolSize,   \* blocking-pool threads (tokio's max_blocking_threads)
  MaxLosses   \* bound: how often the operating system closes the listener

ASSUME ConnsFinite    == IsFiniteSet(Conns)
ASSUME PoolSizeNat    == PoolSize \in Nat \ {0}
ASSUME MaxLossesNat   == MaxLosses \in Nat
ASSUME PortsNonEmpty  == Ports # {}

VARIABLES
  phase,      \* LifecycleStatus.phase
  active,     \* LifecycleStatus.active
  accepting,  \* Shared.accepting
  registered, \* Shared.connections
  cancelled,  \* connections whose flag is set and whose socket is shut down
  port,       \* Shared.port, the port the shell is told
  listener,   \* the port the accept loop's current socket is bound to
  alive,      \* whether that socket still works
  losses,     \* how often it was closed
  wake,       \* Drop's own connection is in the socket's backlog
  loop,       \* the gateway thread
  conn,       \* per connection: its client and its thread
  job,        \* per connection: its blocking-pool job
  reply,      \* per connection: the response channel of its job
  caller,     \* per caller: where it is in suspend() or resume()
  drop        \* where Runtime's Drop is

lifecycleVars == <<phase, active>>
registryVars  == <<registered, cancelled>>
socketVars    == <<port, listener, alive, losses, wake>>
vars == <<phase, active, accepting, registered, cancelled, port, listener,
          alive, losses, wake, loop, conn, job, reply, caller, drop>>

-----------------------------------------------------------------------------
(* The states of each thread. *)

Phases == {"Running", "Suspending", "Suspended", "Stopping"}
LoopStates == {"check", "accept", "publish", "gate", "parked", "closing",
               "joining", "exited"}
\* A connection is "outside" before its client connects, in the socket's
\* "backlog", "accepted" by the loop, and then a thread of its own.
ThreadStates == {"spawned", "check", "gate", "parked", "serving", "await",
                 "respond"}
ConnStates == {"outside", "backlog", "accepted", "done"} \cup ThreadStates
\* The thread has passed wait_until_running and talks to its client.
PastGate == {"serving", "await", "respond"}
PooledStates == {"entering", "parked", "running"}
JobStates == {"none", "queued", "done"} \cup PooledStates
Replies == {"none", "http", "websocket", "lost"}
CallerStates == {"idle", "closing", "emitSuspended", "resuming", "emitResumed"}
\* Drop is "unheard" when it joins although its connection could not be made.
Joining == {"joining", "unheard"}
DropStates == {"idle", "stopped", "refusing", "severed", "shutdown", "done"} \cup Joining

Running   == {c \in Conns : job[c] = "running"}
InPool    == {c \in Conns : job[c] \in PooledStates}
LiveThreads == {c \in Conns : conn[c] \in ThreadStates}

-----------------------------------------------------------------------------
(* Lifecycle: wait_for_running and notify_all. *)

\* wait_for_running returns the lock.
Admits == accepting /\ phase = "Running"
\* wait_for_running gives up.
Refuses == ~accepting \/ phase = "Stopping"
\* It goes to sleep.
Sleeps == ~Admits /\ ~Refuses

\* notify_all: every sleeper re-evaluates its condition.
Woken(state, parked, again) == IF state = parked THEN again ELSE state
NotifyAll ==
  /\ loop' = Woken(loop, "parked", "gate")
  /\ conn' = [c \in Conns |-> Woken(conn[c], "parked", "gate")]
  /\ job'  = [c \in Conns |-> Woken(job[c], "parked", "entering")]

-----------------------------------------------------------------------------
Init ==
  /\ phase = "Running" /\ active = 0 /\ accepting = TRUE
  /\ registered = {} /\ cancelled = {}
  /\ \E p \in Ports : port = p /\ listener = p
  /\ alive = TRUE /\ losses = 0 /\ wake = FALSE
  /\ loop = "check"
  /\ conn = [c \in Conns |-> "outside"]
  /\ job = [c \in Conns |-> "none"]
  /\ reply = [c \in Conns |-> "none"]
  /\ caller = [k \in Callers |-> "idle"]
  /\ drop = "idle"

-----------------------------------------------------------------------------
(* The clients and the operating system. *)

\* A client reaches the socket when it uses the port the socket is bound to.
ClientConnects(c) ==
  /\ conn[c] = "outside" /\ alive
  /\ conn' = [conn EXCEPT ![c] = "backlog"]
  /\ UNCHANGED <<lifecycleVars, accepting, registryVars, socketVars, loop, job,
                 reply, caller, drop>>

\* Connections nobody will accept any more are reset by the system.
ResetBacklog == [c \in Conns |-> IF conn[c] = "backlog" THEN "done" ELSE conn[c]]

\* The system closes the listener of a process it froze (EBADF afterwards).
LoseListener ==
  /\ alive /\ losses < MaxLosses /\ loop # "exited"
  /\ alive' = FALSE /\ losses' = losses + 1 /\ wake' = FALSE
  /\ conn' = ResetBacklog
  /\ UNCHANGED <<lifecycleVars, accepting, registryVars, port, listener, loop,
                 job, reply, caller, drop>>

-----------------------------------------------------------------------------
(* gateway_loop. *)

LoopCheck ==
  /\ loop = "check"
  /\ loop' = IF accepting THEN "accept" ELSE "closing"
  /\ UNCHANGED <<lifecycleVars, accepting, registryVars, socketVars, conn, job,
                 reply, caller, drop>>

LoopAccept ==
  /\ loop = "accept" /\ alive
  /\ loop' = "gate"
  /\ \/ \E c \in Conns : /\ conn[c] = "backlog"
                         /\ conn' = [conn EXCEPT ![c] = "accepted"]
                         /\ UNCHANGED wake
     \/ wake /\ wake' = FALSE /\ UNCHANGED conn
  /\ UNCHANGED <<lifecycleVars, accepting, registryVars, port, listener, alive,
                 losses, job, reply, caller, drop>>

\* Any other error of accept(): go round again.  It may come, and need not: a
\* listener that works and has no connection to give keeps the thread waiting.
LoopAcceptError ==
  /\ loop = "accept" /\ alive
  /\ loop' = "check"
  /\ UNCHANGED <<lifecycleVars, accepting, registryVars, socketVars, conn, job,
                 reply, caller, drop>>

\* EBADF: bind the old port, else any port, else give up.
LoopReplaceListener ==
  /\ loop = "accept" /\ ~alive
  /\ \/ /\ \E p \in Ports : listener' = p
        /\ alive' = TRUE /\ loop' = "publish"
     \/ loop' = "closing" /\ UNCHANGED <<listener, alive>>
  /\ UNCHANGED <<lifecycleVars, accepting, registryVars, port, losses, wake,
                 conn, job, reply, caller, drop>>

LoopPublishPort ==
  /\ loop = "publish"
  /\ port' = listener /\ loop' = "check"
  /\ UNCHANGED <<lifecycleVars, accepting, registryVars, listener, alive,
                 losses, wake, conn, job, reply, caller, drop>>

\* The accepted stream becomes a thread, unless none can be spawned.
LoopSpawn ==
  /\ loop = "gate" /\ Admits
  /\ loop' = "check"
  /\ \E fate \in {"spawned", "done"} :
       conn' = [c \in Conns |-> IF conn[c] = "accepted" THEN fate ELSE conn[c]]
  /\ UNCHANGED <<lifecycleVars, accepting, registryVars, socketVars, job, reply,
                 caller, drop>>

LoopRefused ==
  /\ loop = "gate" /\ Refuses
  /\ loop' = "closing"
  /\ conn' = [c \in Conns |-> IF conn[c] = "accepted" THEN "done" ELSE conn[c]]
  /\ UNCHANGED <<lifecycleVars, accepting, registryVars, socketVars, job, reply,
                 caller, drop>>

LoopParks ==
  /\ loop = "gate" /\ Sleeps
  /\ loop' = "parked"
  /\ UNCHANGED <<lifecycleVars, accepting, registryVars, socketVars, conn, job,
                 reply, caller, drop>>

\* close_connections: flag and shut down every registered connection.
CloseConnections == cancelled' = cancelled \cup registered /\ UNCHANGED registered

LoopClosesConnections ==
  /\ loop = "closing"
  /\ CloseConnections
  /\ loop' = "joining"
  /\ UNCHANGED <<lifecycleVars, accepting, socketVars, conn, job, reply, caller,
                 drop>>

\* A bug: the thread handles are dropped, not joined.
LoopExitsEarly ==
  /\ loop = "joining"
  /\ loop' = "exited" /\ alive' = FALSE /\ wake' = FALSE
  /\ conn' = ResetBacklog
  /\ UNCHANGED <<lifecycleVars, accepting, registryVars, port, listener, losses,
                 job, reply, caller, drop>>

\* Every connection thread is joined; the listener goes with the thread.
LoopExits ==
  /\ loop = "joining" /\ LiveThreads = {}
  /\ loop' = "exited" /\ alive' = FALSE /\ wake' = FALSE
  /\ conn' = ResetBacklog
  /\ UNCHANGED <<lifecycleVars, accepting, registryVars, port, listener, losses,
                 job, reply, caller, drop>>

-----------------------------------------------------------------------------
(* serve_connection.  ConnEnds is a return: the guard unregisters. *)

ConnEnds(c) ==
  /\ conn' = [conn EXCEPT ![c] = "done"]
  /\ registered' = registered \ {c}

ConnUnchanged == UNCHANGED <<lifecycleVars, accepting, cancelled, socketVars,
                             loop, caller, drop>>

\* The stream is cloned, or cannot be, and the connection registered.
ConnRegister(c) ==
  /\ conn[c] = "spawned"
  /\ \/ /\ conn' = [conn EXCEPT ![c] = "check"]
        /\ registered' = registered \cup {c}
     \/ ConnEnds(c)
  /\ UNCHANGED <<job, reply>> /\ ConnUnchanged

ConnCheck(c) ==
  /\ conn[c] = "check"
  /\ IF accepting
       THEN conn' = [conn EXCEPT ![c] = "gate"] /\ UNCHANGED registered
       ELSE ConnEnds(c)
  /\ UNCHANGED <<job, reply>> /\ ConnUnchanged

\* A bug: the accept loop waited already, so the thread does not wait again.
ConnSkipsGate(c) ==
  /\ conn[c] = "gate"
  /\ conn' = [conn EXCEPT ![c] = "serving"] /\ UNCHANGED registered
  /\ UNCHANGED <<job, reply>> /\ ConnUnchanged

ConnGate(c) ==
  /\ conn[c] = "gate"
  /\ \/ Admits /\ conn' = [conn EXCEPT ![c] = "serving"] /\ UNCHANGED registered
     \/ Sleeps /\ conn' = [conn EXCEPT ![c] = "parked"] /\ UNCHANGED registered
     \/ Refuses /\ ConnEnds(c)
  /\ UNCHANGED <<job, reply>> /\ ConnUnchanged

\* Bad CONNECT, TLS failure, no client certificate, bad request, disconnect.
ConnRejects(c) ==
  /\ conn[c] = "serving" /\ ConnEnds(c)
  /\ UNCHANGED <<job, reply>> /\ ConnUnchanged

\* A whole request was read: spawn_blocking(execute_job), then wait.
ConnDispatches(c) ==
  /\ conn[c] = "serving"
  /\ conn' = [conn EXCEPT ![c] = "await"]
  /\ job' = [job EXCEPT ![c] = "queued"]
  /\ UNCHANGED <<registered, reply>> /\ ConnUnchanged

ConnReceives(c) ==
  /\ conn[c] = "await" /\ reply[c] # "none"
  /\ IF reply[c] = "lost"
       THEN ConnEnds(c)
       ELSE conn' = [conn EXCEPT ![c] = "respond"] /\ UNCHANGED registered
  /\ UNCHANGED <<job, reply>> /\ ConnUnchanged

\* write_response or websocket_session returns.
ConnResponds(c) ==
  /\ conn[c] = "respond" /\ ConnEnds(c)
  /\ UNCHANGED <<job, reply>> /\ ConnUnchanged

-----------------------------------------------------------------------------
(* execute_job on a blocking-pool thread. *)

JobUnchanged == UNCHANGED <<accepting, registryVars, socketVars, caller, drop>>

JobStarts(c) ==
  /\ job[c] = "queued" /\ Cardinality(InPool) < PoolSize
  /\ job' = [job EXCEPT ![c] = "entering"]
  /\ UNCHANGED <<lifecycleVars, loop, conn, reply>> /\ JobUnchanged

\* Lifecycle::enter.
JobEnters(c) ==
  /\ job[c] = "entering" /\ Admits
  /\ job' = [job EXCEPT ![c] = "running"]
  /\ active' = active + 1
  /\ UNCHANGED <<phase, loop, conn, reply>> /\ JobUnchanged

JobParks(c) ==
  /\ job[c] = "entering" /\ Sleeps
  /\ job' = [job EXCEPT ![c] = "parked"]
  /\ UNCHANGED <<lifecycleVars, loop, conn, reply>> /\ JobUnchanged

\* enter returns None: the job and its sender are dropped.
JobDropped(c) ==
  /\ job[c] = "entering" /\ Refuses
  /\ job' = [job EXCEPT ![c] = "done"]
  /\ reply' = [reply EXCEPT ![c] = "lost"]
  /\ UNCHANGED <<lifecycleVars, loop, conn>> /\ JobUnchanged

\* The handler answers (a worker error is a 500), or drops its sender.
JobAnswers(c) ==
  /\ job[c] = "running" /\ reply[c] = "none"
  /\ \E r \in Replies \ {"none"} : reply' = [reply EXCEPT ![c] = r]
  /\ UNCHANGED <<lifecycleVars, loop, conn, job>> /\ JobUnchanged

\* A bug: the count is tested before it is decremented.
JobReturnsTestingFirst(c) ==
  /\ job[c] = "running" /\ reply[c] # "none"
  /\ active' = active - 1
  /\ phase' = IF phase = "Suspending" /\ active = 0 THEN "Suspended" ELSE phase
  /\ loop' = Woken(loop, "parked", "gate")
  /\ conn' = [d \in Conns |-> Woken(conn[d], "parked", "gate")]
  /\ job' = [d \in Conns |-> IF d = c THEN "done"
                             ELSE Woken(job[d], "parked", "entering")]
  /\ UNCHANGED reply /\ JobUnchanged

\* Execution's Drop: the last one out completes a pending suspension.
JobReturns(c) ==
  /\ job[c] = "running" /\ reply[c] # "none"
  /\ active' = active - 1
  /\ phase' = IF phase = "Suspending" /\ active' = 0 THEN "Suspended" ELSE phase
  /\ loop' = Woken(loop, "parked", "gate")
  /\ conn' = [d \in Conns |-> Woken(conn[d], "parked", "gate")]
  /\ job' = [d \in Conns |-> IF d = c THEN "done"
                             ELSE Woken(job[d], "parked", "entering")]
  /\ UNCHANGED reply /\ JobUnchanged

-----------------------------------------------------------------------------
(* Runtime::suspend and Runtime::resume, called from any shell thread.  The *)
(* owner drops the runtime only when no call is in progress.                *)

CallerUnchanged == UNCHANGED <<accepting, socketVars, reply, drop>>

\* Lifecycle::suspend.
Suspend(k) ==
  /\ caller[k] = "idle" /\ drop = "idle"
  /\ phase' = IF phase # "Running" THEN phase
              ELSE IF active = 0 THEN "Suspended" ELSE "Suspending"
  /\ NotifyAll
  /\ caller' = [caller EXCEPT ![k] = "closing"]
  /\ UNCHANGED <<active, registryVars>> /\ CallerUnchanged

\* A bug: only connections that wait for their handler are closed.
SuspendClosesIdle(k) ==
  /\ caller[k] = "closing"
  /\ cancelled' = cancelled \cup {c \in registered : conn[c] = "await"}
  /\ caller' = [caller EXCEPT ![k] = "emitSuspended"]
  /\ UNCHANGED <<lifecycleVars, registered, loop, conn, job>> /\ CallerUnchanged

SuspendCloses(k) ==
  /\ caller[k] = "closing"
  /\ CloseConnections
  /\ caller' = [caller EXCEPT ![k] = "emitSuspended"]
  /\ UNCHANGED <<lifecycleVars, loop, conn, job>> /\ CallerUnchanged

EmitSuspended(k) ==
  /\ caller[k] = "emitSuspended"
  /\ caller' = [caller EXCEPT ![k] = "idle"]
  /\ UNCHANGED <<lifecycleVars, registryVars, loop, conn, job>>
  /\ CallerUnchanged

\* The certificate refresh succeeded; a failed one leaves everything as it is.
ResumeRefreshes(k) ==
  /\ caller[k] = "idle" /\ drop = "idle"
  /\ caller' = [caller EXCEPT ![k] = "resuming"]
  /\ UNCHANGED <<lifecycleVars, registryVars, loop, conn, job>>
  /\ CallerUnchanged

\* A bug: the phase changes and nobody is told.
ResumeWithoutNotify(k) ==
  /\ caller[k] = "resuming"
  /\ phase' = IF phase # "Stopping" THEN "Running" ELSE phase
  /\ caller' = [caller EXCEPT ![k] = "emitResumed"]
  /\ UNCHANGED <<active, registryVars, loop, conn, job>> /\ CallerUnchanged

\* Lifecycle::resume.
Resume(k) ==
  /\ caller[k] = "resuming"
  /\ IF phase # "Stopping" THEN phase' = "Running" /\ NotifyAll
                           ELSE UNCHANGED <<phase, loop, conn, job>>
  /\ caller' = [caller EXCEPT ![k] = "emitResumed"]
  /\ UNCHANGED <<active, registryVars>> /\ CallerUnchanged

EmitResumed(k) ==
  /\ caller[k] = "emitResumed"
  /\ caller' = [caller EXCEPT ![k] = "idle"]
  /\ UNCHANGED <<lifecycleVars, registryVars, loop, conn, job>>
  /\ CallerUnchanged

-----------------------------------------------------------------------------
(* Runtime's Drop. *)

DropUnchanged == UNCHANGED <<active, job, reply, caller>>

\* A bug: the phase changes and nobody is told.
DropStopsWithoutNotify ==
  /\ drop = "idle" /\ \A k \in Callers : caller[k] = "idle"
  /\ phase' = "Stopping"
  /\ drop' = "stopped"
  /\ UNCHANGED <<active, accepting, registryVars, socketVars, loop, conn, job,
                 reply, caller>>

DropStops ==
  /\ drop = "idle" /\ \A k \in Callers : caller[k] = "idle"
  /\ phase' = "Stopping"
  /\ NotifyAll
  /\ drop' = "stopped"
  /\ UNCHANGED <<active, accepting, registryVars, socketVars, reply, caller>>

DropRefuses ==
  /\ drop = "stopped"
  /\ accepting' = FALSE /\ drop' = "refusing"
  /\ UNCHANGED <<phase, registryVars, socketVars, loop, conn>> /\ DropUnchanged

\* A bug: left to the accept loop, which closes them only when it gets to it.
DropLeavesOpen ==
  /\ drop = "refusing"
  /\ drop' = "severed"
  /\ UNCHANGED <<phase, accepting, registryVars, socketVars, loop, conn>>
  /\ DropUnchanged

DropCloses ==
  /\ drop = "refusing"
  /\ CloseConnections /\ drop' = "severed"
  /\ UNCHANGED <<phase, accepting, socketVars, loop, conn>> /\ DropUnchanged

\* Connect to the published port to bring accept() back; that nobody listens
\* there, or that the system makes no connection, is ignored.
DropWakes ==
  /\ drop = "severed"
  /\ \/ wake' = (wake \/ (alive /\ port = listener)) /\ drop' = "joining"
     \/ UNCHANGED wake /\ drop' = "unheard"
  /\ UNCHANGED <<phase, accepting, registryVars, port, listener, alive, losses,
                 loop, conn>>
  /\ DropUnchanged

DropJoins ==
  /\ drop \in Joining /\ loop = "exited"
  /\ drop' = "shutdown"
  /\ UNCHANGED <<phase, accepting, registryVars, socketVars, loop, conn>>
  /\ DropUnchanged

\* tokio's shutdown_timeout: jobs still running after a second are left behind.
DropFinishes ==
  /\ drop = "shutdown" /\ drop' = "done"
  /\ UNCHANGED <<phase, accepting, registryVars, socketVars, loop, conn>>
  /\ DropUnchanged

-----------------------------------------------------------------------------
LoopStep == \/ LoopCheck \/ LoopAccept \/ LoopReplaceListener \/ LoopPublishPort
            \/ LoopSpawn \/ LoopRefused \/ LoopParks
            \/ LoopClosesConnections \/ LoopExits

\* Steps a connection thread takes without its client.
ConnProceeds(c) == ConnRegister(c) \/ ConnCheck(c) \/ ConnGate(c) \/ ConnReceives(c)
\* Steps that wait for the client, and fail at once when the socket is shut.
ConnTalks(c) == ConnRejects(c) \/ ConnDispatches(c) \/ ConnResponds(c)

JobProceeds(c) == JobStarts(c) \/ JobEnters(c) \/ JobParks(c) \/ JobDropped(c)
JobWorks(c) == JobAnswers(c) \/ JobReturns(c)

CallerProceeds(k) == \/ SuspendCloses(k) \/ EmitSuspended(k)
                     \/ Resume(k) \/ EmitResumed(k)

DropProceeds == \/ DropRefuses \/ DropCloses \/ DropWakes \/ DropJoins
                \/ DropFinishes

Next ==
  \/ \E c \in Conns : \/ ClientConnects(c) \/ ConnProceeds(c) \/ ConnTalks(c)
                      \/ JobProceeds(c) \/ JobWorks(c)
  \/ LoseListener
  \/ LoopStep \/ LoopAcceptError
  \/ \E k \in Callers : Suspend(k) \/ ResumeRefreshes(k) \/ CallerProceeds(k)
  \/ DropStops
  \/ DropProceeds

Spec == Init /\ [][Next]_vars

(***************************************************************************)
(* Threads that are runnable run.  A client may stay silent for ever, so a *)
(* thread that talks to one is only sure to go on once its socket is shut; *)
(* a handler may run for ever, so it is only sure to end once the          *)
(* interrupt handler sees that the gateway no longer accepts.  Nothing is  *)
(* assumed of clients, of the system, or of calls that were not made yet:  *)
(* accept() returns when there is a connection or the listener is closed.  *)
(***************************************************************************)
Fairness ==
  /\ WF_vars(LoopStep)
  /\ \A c \in Conns : /\ WF_vars(ConnProceeds(c))
                      /\ WF_vars(c \in cancelled /\ ConnTalks(c))
                      /\ WF_vars(JobProceeds(c))
                      /\ WF_vars(~accepting /\ JobWorks(c))
  /\ \A k \in Callers : WF_vars(CallerProceeds(k))
  /\ WF_vars(DropProceeds)

FairSpec == Spec /\ Fairness

-----------------------------------------------------------------------------
(* Correctness. *)

\* Every variable keeps to the values its Rust type can hold.
TypeOK ==
  /\ phase \in Phases /\ active \in Nat /\ accepting \in BOOLEAN
  /\ registered \subseteq Conns /\ cancelled \subseteq Conns
  /\ port \in Ports /\ listener \in Ports /\ alive \in BOOLEAN
  /\ losses \in 0..MaxLosses /\ wake \in BOOLEAN
  /\ loop \in LoopStates
  /\ conn \in [Conns -> ConnStates]
  /\ job \in [Conns -> JobStates]
  /\ reply \in [Conns -> Replies]
  /\ caller \in [Callers -> CallerStates]
  /\ drop \in DropStates

\* LifecycleStatus.active is the number of handlers that are running, however
\* admission, return, suspension and shutdown interleave; and the phase says
\* whether that number is zero: Suspended means that nothing runs, Suspending
\* that something does, so the last Execution dropped cannot be missed.
ActiveCountsExecutions ==
  /\ active = Cardinality(Running)
  /\ phase = "Suspended" => active = 0
  /\ phase = "Suspending" => active > 0

\* No thread sleeps on the condition variable through a change it waits for:
\* whenever the phase is Running or Stopping nobody is parked, neither the
\* accept loop, nor a connection, nor a job in the pool.
NoLostWakeup ==
  phase \in {"Running", "Stopping"} =>
    /\ loop # "parked"
    /\ \A c \in Conns : conn[c] # "parked" /\ job[c] # "parked"

\* Once suspend() has closed the connections, and until the runtime resumes,
\* every connection that got past wait_until_running has been shut down: none
\* slips in between the change of phase and the walk over the registry.
SuspendSevers ==
  (phase \in {"Suspending", "Suspended"} /\ \A k \in Callers : caller[k] # "closing") =>
    \A c \in Conns : conn[c] \in PastGate => c \in cancelled

\* After Drop has closed the connections, a thread that still believed the
\* gateway was accepting has been shut down, whenever it registered.
DropSevers ==
  drop \in {"severed", "shutdown", "done"} \cup Joining =>
    \A c \in Conns : conn[c] \in PastGate \cup {"gate", "parked"} => c \in cancelled

\* Drop never joins an accept loop that nothing will bring back from accept():
\* its own connection is in the backlog or the socket is closed, even when the
\* listener was replaced on another port while Drop was on its way.
LoopIsWoken == (drop = "joining" /\ loop = "accept") => (wake \/ ~alive)

\* What Drop leaves behind when it returns: no connection thread, no client
\* waiting in a backlog, and no job that was dispatched and not yet admitted.
NothingOutlivesDrop ==
  drop \in {"shutdown", "done"} =>
    \A c \in Conns : /\ conn[c] \in {"outside", "done"}
                     /\ job[c] \in {"none", "running", "done"}

\* A Drop that has begun ends: no interleaving with the accept loop, a lost
\* listener, sleeping threads, silent clients or queued jobs makes it hang,
\* given handlers that end once the gateway stops accepting.  It hangs in one
\* way: the system refused its connection, which it ignores, and nobody else
\* ever connects to an accept loop that waits.
DropCompletes ==
  drop = "stopped" ~> (drop = "done" \/ [](drop = "unheard" /\ loop = "accept"))

\* There is no endless loop in a worker.
HandlersReturn == \A c \in Conns : WF_vars(JobWorks(c))

\* A suspension that found work in progress drains, given handlers that return
\* (or is resumed or stopped first).
SuspensionDrains ==
  HandlersReturn => (phase = "Suspending" ~> phase # "Suspending")

\* A request handed to the pool is answered or its connection told that it was
\* dropped, if handlers return and the runtime is not left suspended: neither a
\* parked job nor a full pool keeps it for ever.
DispatchedIsAnswered ==
  HandlersReturn /\ <>[](phase \in {"Running", "Stopping"}) =>
    \A c \in Conns : job[c] = "queued" ~> reply[c] # "none"

\* The gateway keeps the promises of Quiescence: a handler begins and a client
\* is served only while running, and when suspend() has closed the connections
\* no client is left, although connections, jobs and callers race it.
Talking == {c \in Conns : conn[c] \in PastGate /\ c \notin cancelled}
Pending == {k \in Callers : caller[k] = "closing"}
Quiet == INSTANCE Quiescence WITH executing <- Running, talking <- Talking,
                                  pending <- Pending
ImplementsQuiescence == Quiet!Spec
=============================================================================
