------------------------------ MODULE DevSession ------------------------------
(***************************************************************************)
(* One run of tok dev (tokamak-cli/src/dev.rs): the main thread, which     *)
(* starts the framework's command, waits for its server, builds and        *)
(* launches the app, watches both and stops what is left of them; the      *)
(* listener for signals; and the relay (DevRelay), through which the app   *)
(* reaches the server.                                                     *)
(*                                                                         *)
(* A process group has a root, which the main thread can wait for, and     *)
(* what the root has started.  The framework's server is such a process.   *)
(***************************************************************************)
EXTENDS DevRelay

CONSTANTS
  Platforms,  \* the platforms a device may have
  Commands,   \* how many platform commands install and launch an app on each
  MaxRetries  \* CORE_DEVICE_MAX_RETRIES

ASSUME SessionBounds == /\ Commands \in [Platforms -> Nat] /\ MaxRetries \in Nat

VARIABLES
  platform,  \* the device's platform
  main,      \* where the main thread is
  requested, \* ShutdownSignal.requested
  proc,      \* each process: "none", "alive", "killed" or "dead"
  failed,    \* whether the command's root ended with an error, and nobody stopped it
  left,      \* history: whether the app ended and nobody stopped it
  refused,   \* history: whether a kill of a group failed, or its question who is left
  commands,  \* the platform commands still to run
  retries,   \* those of the current command
  targets,   \* the groups still to be stopped
  result     \* what run is about to return

procVars == <<proc, failed, left, refused>>
launchVars == <<commands, retries>>
stopVars == <<targets, result>>
vars == <<relayVars, platform, main, requested, procVars, launchVars, stopVars>>

Procs == {"framework", "server", "app"}
Group(root) == IF root = "framework" THEN {"framework", "server"} ELSE {root}

\* launch_app answers with a process of its own only on a host.
HasProcess(p) == Commands[p] = 0

Init ==
  /\ RelayInit
  /\ platform \in Platforms
  /\ main = "prepare" /\ requested = FALSE
  /\ proc = [p \in Procs |-> "none"] /\ failed = FALSE /\ left = FALSE /\ refused = FALSE
  /\ commands = 0 /\ retries = 0
  /\ targets = <<>> /\ result = "ok"

Goes(from, to) == main = from /\ main' = to
Rest == UNCHANGED <<platform, requested>>

\* stop_process for each of the groups, and then the end, with that result.
\* SIGTERM is sent, which a group may heed or not.
Stop(groups, outcome) ==
  main' = "stop" /\ targets' = groups /\ result' = outcome

Continues(from, to) ==
  /\ Goes(from, to) /\ Rest
  /\ UNCHANGED <<relayVars, procVars, launchVars, stopVars>>

\* The group that is being stopped, and the processes that have had a signal.
Target == Head(targets)
IsStopped(p) ==
  proc[p] = "killed" \/ (main \in {"stop", "kill"} /\ p \in Group(Target))

-----------------------------------------------------------------------------
(* Processes, and the user. *)

\* SIGINT, SIGTERM or SIGHUP, from when the listener is there; once what run
\* returns is settled, nobody looks any more.
Signals ==
  /\ ~requested /\ main \notin {"drop", "join"} /\ requested' = TRUE
  /\ UNCHANGED <<relayVars, platform, main, procVars, launchVars, stopVars>>

\* The root of the framework starts its server.
Forks ==
  /\ proc["framework"] = "alive" /\ proc["server"] = "none"
  /\ proc' = [proc EXCEPT !["server"] = "alive"]
  /\ UNCHANGED <<relayVars, platform, main, requested, failed, left, refused,
                 launchVars, stopVars>>

ServerListens ==
  /\ proc["server"] = "alive" /\ ~serving /\ serving' = TRUE
  /\ UNCHANGED <<accept, stop, conn, platform, main, requested, procVars, launchVars, stopVars>>

\* Each connection becomes one of those.
Follows(choices) ==
  \E f \in [Conns -> UNION {choices[k] : k \in Conns}] :
    /\ \A k \in Conns : f[k] \in choices[k]
    /\ conn' = f

\* A process ends by itself, for SIGTERM or not, or because it was killed, and
\* its sockets are closed.
Ends(p) ==
  /\ proc[p] \in {"alive", "killed"}
  /\ proc' = [proc EXCEPT ![p] = "dead"]
  /\ IF p = "framework" /\ ~IsStopped(p) THEN failed' \in BOOLEAN ELSE UNCHANGED failed
  /\ left' = (left \/ (p = "app" /\ ~IsStopped(p)))
  /\ UNCHANGED refused
  /\ serving' = (serving /\ p # "server")
  /\ Follows([k \in Conns |->
       CASE p = "server" /\ conn[k].server = "open" -> ServerClosed(conn[k])
         [] p = "app" /\ conn[k].client = "open" -> ClientClosed(conn[k])
         [] OTHER -> {conn[k]}])
  /\ UNCHANGED <<accept, stop, platform, main, requested, launchVars, stopVars>>

-----------------------------------------------------------------------------
(* run: up to the command. *)

\* A request that is not valid, no device, no signing identity, no address, or no
\* port for the relay.
PreparationFails ==
  /\ Goes("prepare", "join") /\ result' = "error" /\ Rest
  /\ UNCHANGED <<relayVars, procVars, launchVars, targets>>

Binds ==
  /\ Goes("prepare", "spawn") /\ accept' = "running" /\ Rest
  /\ UNCHANGED <<stop, serving, conn, procVars, launchVars, stopVars>>

Spawns ==
  /\ main = "spawn" /\ Rest
  /\ \/ /\ main' = "drop" /\ result' = "error" /\ UNCHANGED proc
     \/ /\ main' = "spawned" /\ proc' = [proc EXCEPT !["framework"] = "alive"]
        /\ UNCHANGED result
  /\ UNCHANGED <<relayVars, failed, left, refused, launchVars, targets>>

\* The places where the main thread looks for a request to end.
Checks(from, groups, to) ==
  \/ requested /\ main = from /\ Stop(groups, "ok") /\ Rest
     /\ UNCHANGED <<relayVars, procVars, launchVars>>
  \/ ~requested /\ Continues(from, to)

ChecksAfterSpawn == Checks("spawned", <<"framework">>, "wait")

-----------------------------------------------------------------------------
(* wait_for_server.  That a signal comes between two of the questions of one    *)
(* round makes no difference: it could as well come behind them.               *)

Errs(from) ==
  /\ main = from /\ Stop(<<"framework">>, "error") /\ Rest
  /\ UNCHANGED <<relayVars, procVars, launchVars>>

CommandIsGone == ~requested /\ proc["framework"] = "dead" /\ Errs("wait")

\* Served, or asked to end; the next round changes nothing.
WaitEnds ==
  /\ requested \/ (proc["framework"] # "dead" /\ serving)
  /\ Continues("wait", "served")

\* No connection for sixty seconds; a server that listens may be slow to accept.
ServerIsLate == ~requested /\ proc["framework"] # "dead" /\ Errs("wait")

-----------------------------------------------------------------------------
(* run_session, from there on. *)

ChecksWhenServed == Checks("served", <<"framework">>, "build")

Builds == Continues("build", "built") \/ Errs("build")

ChecksWhenBuilt ==
  \/ requested /\ main = "built" /\ Stop(<<"framework">>, "ok") /\ Rest
     /\ UNCHANGED <<relayVars, procVars, launchVars>>
  \/ /\ ~requested /\ Goes("built", "launch") /\ commands' = Commands[platform] /\ Rest
     /\ UNCHANGED <<relayVars, procVars, retries, stopVars>>

\* launch_macos and launch_windows.
LaunchesProcess ==
  /\ HasProcess(platform)
  /\ \/ Errs("launch")
     \/ /\ Goes("launch", "launched") /\ proc' = [proc EXCEPT !["app"] = "alive"] /\ Rest
        /\ UNCHANGED <<relayVars, failed, left, refused, launchVars, stopVars>>

\* run_platform_command, for each command of a platform.
CommandSucceeds ==
  /\ main = "launch" /\ commands > 0
  /\ commands' = commands - 1 /\ retries' = 0
  /\ main' = IF commands = 1 THEN "launched" ELSE "launch"
  /\ Rest /\ UNCHANGED <<relayVars, procVars, stopVars>>

\* An error of devicectl that may pass.
CommandRetries ==
  /\ main = "launch" /\ commands > 0 /\ platform = "ios" /\ retries < MaxRetries
  /\ retries' = retries + 1
  /\ UNCHANGED <<relayVars, platform, main, requested, procVars, commands, stopVars>>

CommandFails == commands > 0 /\ Errs("launch")

Everything == IF HasProcess(platform) THEN <<"app", "framework">> ELSE <<"framework">>

ChecksWhenLaunched == Checks("launched", Everything, "supervise")

-----------------------------------------------------------------------------
(* supervise: a round asks for the signal, the command and the app, in this    *)
(* order.                                                                      *)

SupervisesSignal ==
  /\ main = "supervise" /\ requested /\ Stop(Everything, "ok") /\ Rest
  /\ UNCHANGED <<relayVars, procVars, launchVars>>

\* The status is looked at when both have been stopped.
SupervisesExit ==
  /\ main = "supervise" /\ ~requested /\ proc["framework"] = "dead"
  /\ Stop(Everything, "status") /\ Rest
  /\ UNCHANGED <<relayVars, procVars, launchVars>>

\* The command runs; and then it may end, with the app, before the next question.
SupervisesOn ==
  /\ ~requested /\ proc["framework"] # "dead" /\ HasProcess(platform)
  /\ Continues("supervise", "ask")

SupervisesApp ==
  \/ /\ main = "ask" /\ proc["app"] = "dead"
     /\ Stop(<<"framework">>, "ok") /\ Rest
     /\ UNCHANGED <<relayVars, procVars, launchVars>>
  \/ proc["app"] # "dead" /\ Continues("ask", "supervise")

-----------------------------------------------------------------------------
(* stop_process and terminate_process_tree. *)

IsGone(root) == \A p \in Group(root) : proc[p] \in {"none", "dead"}

\* A bug: the command's status is not looked at.
StoppedQuietly ==
  /\ main' = (IF Len(targets) > 1 THEN "stop" ELSE "drop") /\ targets' = Tail(targets)
  /\ result' = IF result = "status" THEN "ok" ELSE result
  /\ Rest /\ UNCHANGED <<relayVars, proc, failed, left, launchVars>>

\* The next group; or the end, unless the command's failure is the result: run
\* then stops the command once more.
Stopped ==
  /\ LET failure == result = "status" /\ failed /\ ~requested
     IN IF Len(targets) > 1
          THEN main' = "stop" /\ targets' = Tail(targets) /\ UNCHANGED result
        ELSE IF failure THEN Stop(<<"framework">>, "error")
        ELSE /\ main' = "drop" /\ targets' = <<>>
             /\ result' = IF result = "status" THEN "ok" ELSE result
  /\ Rest /\ UNCHANGED <<relayVars, proc, failed, left, launchVars>>

\* A bug: the root alone is waited for.
RootIsGone == main = "stop" /\ proc[Target] = "dead" /\ Stopped /\ UNCHANGED refused

\* The root has ended, and nobody is left in its group; or so it seems, because
\* the command kill -0 has failed.
PollsGroup ==
  /\ main = "stop" /\ proc[Target] = "dead" /\ Stopped
  /\ refused' = (refused \/ ~IsGone(Target))

\* A bug: there is no deadline.
KillsNever == FALSE

\* Two seconds are over: SIGKILL to the group.  When that fails, nobody looks; the
\* root is killed anyway.
Kills ==
  /\ Goes("stop", "kill") /\ Rest
  /\ \E killed \in {Group(Target), {Target}} :
       /\ proc' = [p \in Procs |-> IF p \in killed /\ proc[p] = "alive" THEN "killed"
                                   ELSE proc[p]]
       /\ refused' = (refused \/ \E p \in Group(Target) \ killed : proc[p] = "alive")
  /\ UNCHANGED <<relayVars, failed, left, launchVars, stopVars>>

WaitsForRoot == main = "kill" /\ proc[Target] = "dead" /\ Stopped /\ UNCHANGED refused

-----------------------------------------------------------------------------
(* The end: what run has made is dropped, the last thing first. *)

DropsRelay ==
  /\ Goes("drop", "join") /\ stop' = TRUE /\ Rest
  /\ UNCHANGED <<accept, serving, conn, procVars, launchVars, stopVars>>

\* The accept loop is joined, the listener for signals is stopped, and the
\* process ends, and with it the threads of connections.
Exits ==
  /\ Goes("join", "over") /\ accept # "running" /\ Rest
  /\ Follows([k \in Conns |-> IF conn[k].thread \in {"none", "over"} THEN {conn[k]}
                              ELSE Dropped(conn[k])])
  /\ UNCHANGED <<accept, stop, serving, procVars, launchVars, stopVars>>

-----------------------------------------------------------------------------
\* The app is there.  Nobody else knows of the relay; and a connection that is made
\* a step of the main thread earlier or later is the same one, up to its end.
AppRuns ==
  /\ main \in {"supervise", "join"}
  /\ HasProcess(platform) => proc["app"] = "alive"

Others == main # "over" /\ UNCHANGED <<platform, main, requested, procVars, launchVars, stopVars>>

MainStep ==
  \/ PreparationFails \/ Binds \/ Spawns \/ ChecksAfterSpawn
  \/ CommandIsGone \/ WaitEnds \/ ServerIsLate
  \/ ChecksWhenServed \/ Builds \/ ChecksWhenBuilt
  \/ LaunchesProcess \/ CommandSucceeds \/ CommandRetries \/ CommandFails \/ ChecksWhenLaunched
  \/ SupervisesSignal \/ SupervisesExit \/ SupervisesOn \/ SupervisesApp
  \/ PollsGroup \/ Kills \/ WaitsForRoot
  \/ DropsRelay \/ Exits

\* What others do when the session is over is of no interest.
Next ==
  /\ main # "over"
  /\ \/ MainStep
     \/ AppRuns /\ (\E k \in Conns : ClientConnects(k)) /\ Others
     \/ RelayNext /\ Others
     \/ AcceptLoopEnds /\ Others
     \/ Signals \/ Forks \/ ServerListens \/ \E p \in Procs : Ends(p)

Spec == Init /\ [][Next]_vars

\* The main thread goes on, and so do the builds and the platform's tools that it
\* waits for; the sixty seconds for the server and the two for a group pass; a
\* killed process ends; the accept loop sees that it is to end.  A client and a
\* server read what they get, and close at its end.
FairSpec ==
  /\ Spec
  /\ WF_vars(MainStep)
  /\ WF_vars(main # "over" /\ \E p \in Procs : proc[p] = "killed" /\ Ends(p))
  /\ WF_vars(stop /\ AcceptLoopEnds /\ Others)
  /\ \A k \in Conns : /\ WF_vars((Accepts(k) \/ ConnectionThread(k)) /\ Others)
                      /\ WF_vars(CopiesForth(k) /\ Others)
                      /\ WF_vars(ClientGoesOn(k) /\ Others)
                      /\ WF_vars(ServerGoesOn(k) /\ Others)

-----------------------------------------------------------------------------
(* Correctness. *)

\* However the session ends, nothing that it has started on this host is left:
\* no process of the command's group, and no app; unless kill itself has failed.
NothingOutlivesSession == main = "over" /\ ~refused => \A p \in Procs : proc[p] # "alive"

\* A command that ended with an error before anybody stopped it makes the session a
\* failure, unless the session was asked to end, or the app, too, had ended by itself;
\* an app that the session stopped is no excuse.
FailureIsReported == main = "over" /\ failed /\ result = "ok" => requested \/ left

\* It ends when it is asked to, when the command has ended and when the app has,
\* and waits for nothing else for ever: not for the server, nor for a connection.
MustEnd == requested \/ proc["framework"] = "dead" \/ proc["app"] = "dead"
SessionEnds == []<>(main = "over" \/ (main \in {"supervise", "ask"} /\ ~MustEnd))
================================================================================
