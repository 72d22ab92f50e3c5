--------------------------- MODULE DevSession_proofs ---------------------------
(***************************************************************************)
(* Proofs about DevSession and the relay it runs, for every platform, any  *)
(* number of connections and pieces, and every capacity of a direction.    *)
(***************************************************************************)
EXTENDS DevSession, SequenceTheorems, TLAPS

-----------------------------------------------------------------------------
(* The inductive invariant of the session. *)

Stages == {"prepare", "spawn", "spawned", "wait", "served", "build", "built", "launch",
           "launched", "supervise", "ask", "stop", "kill", "drop", "join", "over"}
Ending == {"stop", "kill", "drop", "join", "over"}

SessionTypeOK ==
  /\ platform \in Platforms /\ main \in Stages /\ requested \in BOOLEAN
  /\ proc \in [Procs -> {"none", "alive", "killed", "dead"}]
  /\ failed \in BOOLEAN /\ left \in BOOLEAN /\ refused \in BOOLEAN
  /\ result \in {"ok", "error", "status"}

\* Nothing runs before the command is spawned, and no app before it is launched,
\* which is a process of this host only on a host.
LaunchInv ==
  /\ main \in {"prepare", "spawn"} => \A p \in Procs : proc[p] = "none"
  /\ main \notin {"prepare", "spawn", "drop", "join", "over"} => proc["framework"] # "none"
  /\ proc["app"] # "none" =>
       HasProcess(platform) /\ main \in {"launched", "supervise", "ask"} \cup Ending

\* An app that is dead before the session stops anything has ended by itself.
AppInv == main \notin Ending => proc["app"] # "killed" /\ (proc["app"] = "dead" => left)

\* What is alive while the session stops is still to be stopped, and what has had
\* its SIGKILL is not alive, unless it is a member of a group whose kill failed.
StopInv ==
  /\ main \in {"stop", "kill"} =>
       /\ targets \in {<<"framework">>, <<"app", "framework">>}
       /\ proc["app"] = "alive" => targets = <<"app", "framework">>
  /\ main = "kill" =>
       /\ proc[Target] # "alive"
       /\ \A p \in Group(Target) : proc[p] = "alive" => refused
  /\ main \in {"drop", "join", "over"} =>
       /\ proc["framework"] # "alive" /\ proc["app"] # "alive"
       /\ proc["server"] = "alive" => refused

\* The command's status is asked for once it has ended, and a success has its
\* reason.
ResultInv ==
  main \in Ending =>
    /\ result = "status" => main \in {"stop", "kill"} /\ proc["framework"] = "dead"
    /\ result = "ok" => requested \/ left \/ (~failed /\ proc["framework"] = "dead")

SessionInv == SessionTypeOK /\ LaunchInv /\ AppInv /\ StopInv /\ ResultInv

-----------------------------------------------------------------------------
(* Lemmas about the steps of the session. *)

\* The groups.
LEMMA Groups ==
  /\ Group("framework") = {"framework", "server"} /\ Group("app") = {"app"}
  /\ Procs = {"framework", "server", "app"}
  BY DEF Group, Procs

\* The groups of the sequences that are stopped.
LEMMA Targets ==
  /\ Head(<<"framework">>) = "framework" /\ Head(<<"app", "framework">>) = "app"
  /\ Tail(<<"app", "framework">>) = <<"framework">>
  /\ Len(<<"framework">>) = 1 /\ Len(<<"app", "framework">>) = 2
  /\ <<"framework">> # <<"app", "framework">>
<1>1. /\ Len(<<"framework">>) = 1 /\ Len(<<"app", "framework">>) = 2
      /\ Head(<<"framework">>) = "framework" /\ Head(<<"app", "framework">>) = "app"
  OBVIOUS
<1>2. Tail(<<"app", "framework">>) = <<"framework">>
  OBVIOUS
<1> QED
  BY <1>1, <1>2

\* What the session does not look at.
LEMMA SessionStutters ==
  ASSUME SessionInv, UNCHANGED <<platform, main, requested, procVars, targets, result>>
  PROVE  SessionInv'
  BY DEF SessionInv, SessionTypeOK, LaunchInv, AppInv, StopInv, ResultInv, Target, procVars

\* The main thread goes on to another stage before the end.
LEMMA StageStep ==
  ASSUME SessionInv, UNCHANGED <<platform, requested, procVars, targets, result>>,
         main \notin Ending, main' \in Stages \ Ending,
         main' \in {"prepare", "spawn"} <=> main \in {"prepare", "spawn"},
         main \in {"launched", "supervise", "ask"} => main' \in {"supervise", "ask"}
  PROVE  SessionInv'
<1>1. SessionTypeOK'
  BY DEF SessionInv, SessionTypeOK, procVars
<1>2. LaunchInv' /\ AppInv' /\ StopInv' /\ ResultInv'
  BY DEF SessionInv, LaunchInv, AppInv, StopInv, ResultInv, Ending, procVars
<1> QED
  BY <1>1, <1>2 DEF SessionInv

\* The main thread starts to stop the groups of processes that may be alive.
LEMMA StopStep ==
  ASSUME SessionInv, UNCHANGED <<platform, requested, procVars>>,
         NEW groups \in {<<"framework">>, <<"app", "framework">>},
         NEW outcome \in {"ok", "error", "status"},
         Stop(groups, outcome),
         proc["app"] = "alive" => groups = <<"app", "framework">>,
         outcome = "status" => proc["framework"] = "dead",
         outcome = "ok" => requested \/ left,
         main \notin {"prepare", "spawn", "drop", "join", "over"}
  PROVE  SessionInv'
<1>1. main' = "stop" /\ targets' = groups /\ result' = outcome
  BY DEF Stop
<1>2. SessionTypeOK'
  BY <1>1 DEF SessionInv, SessionTypeOK, Stages, procVars
<1>3. LaunchInv' /\ AppInv'
  BY <1>1 DEF SessionInv, LaunchInv, AppInv, Ending, procVars
<1>4. StopInv'
  BY <1>1 DEF SessionInv, StopInv, procVars
<1>5. ResultInv'
  BY <1>1 DEF SessionInv, ResultInv, Ending, procVars
<1> QED
  BY <1>2, <1>3, <1>4, <1>5 DEF SessionInv

\* A check that the shutdown was not requested, or the end.
LEMMA ChecksStep ==
  ASSUME SessionInv, NEW from \in Stages \ Ending, NEW to \in Stages \ Ending,
         NEW groups \in {<<"framework">>, <<"app", "framework">>}, Checks(from, groups, to),
         proc["app"] = "alive" => groups = <<"app", "framework">>,
         {from, to} \cap {"prepare", "spawn"} = {},
         from \in {"launched", "supervise", "ask"} => to \in {"supervise", "ask"}
  PROVE  SessionInv'
<1>1. UNCHANGED <<platform, requested, procVars>> /\ main = from
  BY DEF Checks, Continues, Goes, Rest, procVars
<1>2. CASE requested /\ Stop(groups, "ok")
  BY <1>1, <1>2, StopStep DEF Ending
<1>3. CASE Continues(from, to)
  BY <1>1, <1>3, StageStep DEF Continues, Goes, Rest, procVars, stopVars
<1> QED
  BY <1>2, <1>3 DEF Checks

\* Processes start and end by themselves, and the user asks for the end.
LEMMA WorldStep ==
  ASSUME SessionInv, Signals \/ Forks \/ ServerListens \/ \E p \in Procs : Ends(p)
  PROVE  SessionInv'
<1>0. SessionTypeOK /\ LaunchInv /\ AppInv /\ StopInv /\ ResultInv
  BY DEF SessionInv
<1>1. CASE Signals
  BY <1>0, <1>1 DEF Signals, SessionInv, SessionTypeOK, LaunchInv, AppInv, StopInv, ResultInv,
     Target, procVars, stopVars
<1>2. CASE ServerListens
  BY <1>2, SessionStutters DEF ServerListens, stopVars
<1>3. CASE Forks
  <2>1. /\ proc["framework"] = "alive" /\ proc' = [proc EXCEPT !["server"] = "alive"]
        /\ UNCHANGED <<platform, main, requested, failed, left, refused, targets, result>>
    BY <1>3 DEF Forks, stopVars
  <2>2. /\ proc' \in [Procs -> {"none", "alive", "killed", "dead"}]
        /\ proc'["framework"] = "alive" /\ proc'["app"] = proc["app"]
    BY <1>0, <2>1, Groups DEF SessionTypeOK
  <2>3. SessionTypeOK' /\ AppInv' /\ ResultInv'
    BY <1>0, <2>1, <2>2 DEF SessionTypeOK, AppInv, ResultInv
  <2>4. LaunchInv'
    BY <1>0, <2>1, <2>2, Groups DEF LaunchInv
  <2>5. StopInv'
    <3>1. main \notin {"drop", "join", "over"}
      BY <1>0, <2>1 DEF StopInv
    <3>2. ASSUME main = "kill" PROVE Head(targets) = "app"
      <4>1. Head(targets) # "framework"
        BY <1>0, <2>1, <3>2 DEF StopInv, Target
      <4> QED
        BY <1>0, <3>2, <4>1, Targets DEF StopInv
    <3>3. ASSUME main = "kill" PROVE proc["app"] # "alive"
      BY <1>0, <3>2, <3>3 DEF StopInv, Target
    <3> QED
      BY <1>0, <2>1, <2>2, <3>1, <3>2, <3>3, Groups DEF StopInv, Target
  <2> QED
    BY <2>3, <2>4, <2>5 DEF SessionInv
<1>4. ASSUME NEW p \in Procs, Ends(p) PROVE SessionInv'
  <2>1. /\ proc[p] \in {"alive", "killed"} /\ proc' = [proc EXCEPT ![p] = "dead"]
        /\ p # "framework" => failed' = failed
        /\ UNCHANGED <<platform, main, requested, refused, targets, result>>
        /\ left' = (left \/ (p = "app" /\ ~IsStopped(p)))
    BY <1>4 DEF Ends, stopVars
  <2>2. /\ proc' \in [Procs -> {"none", "alive", "killed", "dead"}]
        /\ \A q \in Procs : proc'[q] = IF q = p THEN "dead" ELSE proc[q]
    BY <1>0, <2>1 DEF SessionTypeOK
  <2>3. "framework" \in Procs /\ "app" \in Procs /\ "server" \in Procs
    BY Groups
  <2>4. failed' \in BOOLEAN
    BY <1>0, <1>4 DEF Ends, SessionTypeOK
  <2>5. left' \in BOOLEAN /\ (left => left')
    BY <1>0, <2>1 DEF SessionTypeOK
  <2>6. SessionTypeOK' /\ LaunchInv'
    BY <1>0, <2>1, <2>2, <2>3, <2>4, <2>5 DEF SessionTypeOK, LaunchInv
  <2>7. AppInv'
    <3>1. CASE main \notin Ending /\ p = "app"
      <4>1. ~IsStopped(p)
        BY <1>0, <3>1 DEF AppInv, IsStopped, Ending
      <4> QED
        BY <2>1, <2>2, <2>3, <3>1, <4>1 DEF AppInv
    <3>2. CASE main \in Ending \/ p # "app"
      BY <1>0, <2>1, <2>2, <2>3, <2>5, <3>2 DEF AppInv
    <3> QED
      BY <3>1, <3>2
  <2>8. StopInv'
    <3>1. main # "kill" \/ (Group(Target) \subseteq Procs /\ Target \in Procs)
      BY <1>0, Targets, Groups DEF StopInv, Target
    <3> QED
      BY <1>0, <2>1, <2>2, <2>3, <3>1 DEF StopInv, Target
  <2>9. ResultInv'
    BY <1>0, <2>1, <2>2, <2>3, <2>5 DEF ResultInv
  <2> QED
    BY <2>6, <2>7, <2>8, <2>9 DEF SessionInv
<1> QED
  BY <1>1, <1>2, <1>3, <1>4

\* The main thread up to the launch.
LEMMA StartStep ==
  ASSUME SessionInv,
         \/ PreparationFails \/ Binds \/ Spawns \/ ChecksAfterSpawn
         \/ CommandIsGone \/ WaitEnds \/ ServerIsLate \/ ChecksWhenServed \/ Builds \/ ChecksWhenBuilt
  PROVE  SessionInv'
<1>0. SessionTypeOK /\ LaunchInv /\ AppInv /\ StopInv /\ ResultInv
  BY DEF SessionInv
<1>1. CASE PreparationFails
  <2>1. main = "prepare" /\ main' = "join" /\ result' = "error"
        /\ UNCHANGED <<platform, requested, procVars, targets>>
    BY <1>1 DEF PreparationFails, Goes, Rest
  <2> QED
    BY <1>0, <2>1, Groups
       DEF SessionInv, SessionTypeOK, LaunchInv, AppInv, StopInv, ResultInv, Stages, Ending, procVars
<1>2. CASE Binds
  <2>1. main = "prepare" /\ main' = "spawn"
        /\ UNCHANGED <<platform, requested, procVars, targets, result>>
    BY <1>2 DEF Binds, Goes, Rest, stopVars
  <2> QED
    BY <2>1, StageStep DEF Stages, Ending
<1>3. CASE Spawns
  <2>1. main = "spawn" /\ UNCHANGED <<platform, requested, failed, left, refused, targets>>
    BY <1>3 DEF Spawns, Rest
  <2>2. CASE main' = "drop" /\ result' = "error" /\ proc' = proc
    BY <1>0, <2>1, <2>2, Groups
       DEF SessionInv, SessionTypeOK, LaunchInv, AppInv, StopInv, ResultInv, Stages, Ending
  <2>3. CASE main' = "spawned" /\ proc' = [proc EXCEPT !["framework"] = "alive"] /\ result' = result
    <3>1. /\ proc' \in [Procs -> {"none", "alive", "killed", "dead"}]
          /\ proc'["app"] = "none" /\ proc'["framework"] = "alive"
      BY <1>0, <2>1, <2>3, Groups DEF SessionTypeOK, LaunchInv
    <3> QED
      BY <1>0, <2>1, <2>3, <3>1
         DEF SessionInv, SessionTypeOK, LaunchInv, AppInv, StopInv, ResultInv, Stages, Ending
  <2> QED
    BY <1>3, <2>2, <2>3 DEF Spawns
<1>4. CASE ChecksAfterSpawn
  BY <1>0, <1>4, ChecksStep DEF ChecksAfterSpawn, LaunchInv, Stages, Ending, Checks, Continues, Goes
<1>5. CASE CommandIsGone \/ ServerIsLate
  <2>1. main = "wait" /\ Stop(<<"framework">>, "error")
        /\ UNCHANGED <<platform, requested, procVars>>
    BY <1>5 DEF CommandIsGone, ServerIsLate, Errs, Rest
  <2> QED
    BY <1>0, <2>1, StopStep DEF LaunchInv, Ending
<1>6. CASE WaitEnds
  BY <1>6, StageStep DEF WaitEnds, Continues, Goes, Rest, stopVars, Stages, Ending
<1>7. CASE ChecksWhenServed
  BY <1>0, <1>7, ChecksStep DEF ChecksWhenServed, LaunchInv, Stages, Ending, Checks, Continues, Goes
<1>8. CASE Builds
  <2>1. CASE Continues("build", "built")
    BY <2>1, StageStep DEF Continues, Goes, Rest, stopVars, Stages, Ending
  <2>2. CASE Errs("build")
    BY <1>0, <2>2, StopStep DEF Errs, Rest, LaunchInv, Ending
  <2> QED
    BY <1>8, <2>1, <2>2 DEF Builds
<1>9. CASE ChecksWhenBuilt
  <2>1. CASE main = "built" /\ requested /\ Stop(<<"framework">>, "ok")
    BY <1>0, <1>9, <2>1, StopStep DEF ChecksWhenBuilt, Rest, LaunchInv, Ending, Goes
  <2>2. CASE Goes("built", "launch")
    BY <1>9, <2>2, StageStep DEF ChecksWhenBuilt, Goes, Stop, Rest, stopVars, Stages, Ending
  <2> QED
    BY <1>9, <2>1, <2>2 DEF ChecksWhenBuilt
<1> QED
  BY <1>1, <1>2, <1>3, <1>4, <1>5, <1>6, <1>7, <1>8, <1>9

\* The launch, and the supervision.
LEMMA RunStep ==
  ASSUME SessionInv,
         \/ LaunchesProcess \/ CommandSucceeds \/ CommandRetries \/ CommandFails
         \/ ChecksWhenLaunched \/ SupervisesSignal \/ SupervisesExit \/ SupervisesOn \/ SupervisesApp
  PROVE  SessionInv'
<1>0. SessionTypeOK /\ LaunchInv /\ AppInv /\ StopInv /\ ResultInv
  BY DEF SessionInv
<1>1. /\ Everything \in {<<"framework">>, <<"app", "framework">>}
      /\ proc["app"] = "alive" => Everything = <<"app", "framework">>
  BY <1>0 DEF Everything, LaunchInv
<1>2. ASSUME Errs("launch") PROVE SessionInv'
  BY <1>0, <1>2, StopStep DEF Errs, Rest, LaunchInv, Ending
<1>3. CASE LaunchesProcess
  <2>1. CASE Goes("launch", "launched") /\ proc' = [proc EXCEPT !["app"] = "alive"]
    <3>1. /\ UNCHANGED <<platform, requested, failed, left, refused, targets, result>>
          /\ HasProcess(platform)
      BY <1>3, <2>1 DEF LaunchesProcess, Errs, Stop, Goes, Rest, stopVars
    <3>2. /\ proc' \in [Procs -> {"none", "alive", "killed", "dead"}]
          /\ proc'["framework"] = proc["framework"]
          /\ proc'["app"] = "alive" /\ main = "launch" /\ main' = "launched"
      BY <1>0, <2>1, Groups DEF SessionTypeOK, Goes
    <3> QED
      BY <1>0, <3>1, <3>2
         DEF SessionInv, SessionTypeOK, LaunchInv, AppInv, StopInv, ResultInv, Stages, Ending, HasProcess
  <2> QED
    BY <1>2, <1>3, <2>1 DEF LaunchesProcess
<1>4. CASE CommandSucceeds
  <2>1. main = "launch" /\ main' \in {"launched", "launch"}
        /\ UNCHANGED <<platform, requested, procVars, targets, result>>
    BY <1>4 DEF CommandSucceeds, Rest, stopVars
  <2> QED
    BY <2>1, StageStep DEF Stages, Ending
<1>5. CASE CommandRetries
  BY <1>5, SessionStutters DEF CommandRetries, stopVars
<1>6. CASE CommandFails
  BY <1>2, <1>6 DEF CommandFails
<1>7. CASE ChecksWhenLaunched
  BY <1>1, <1>7, ChecksStep DEF ChecksWhenLaunched, Stages, Ending
<1>8. CASE SupervisesSignal
  BY <1>1, <1>8, StopStep DEF SupervisesSignal, Rest
<1>9. CASE SupervisesExit
  BY <1>1, <1>9, StopStep DEF SupervisesExit, Rest
<1>10. CASE SupervisesOn
  BY <1>10, StageStep DEF SupervisesOn, Continues, Goes, Rest, stopVars, Stages, Ending
<1>11. CASE SupervisesApp
  <2>1. CASE main = "ask" /\ proc["app"] = "dead" /\ Stop(<<"framework">>, "ok")
    <3>1. UNCHANGED <<platform, requested, procVars>>
      BY <1>11, <2>1 DEF SupervisesApp, Continues, Rest
    <3> QED
      BY <1>0, <2>1, <3>1, StopStep DEF AppInv, Ending
  <2>2. CASE Continues("ask", "supervise")
    BY <2>2, StageStep DEF Continues, Goes, Rest, stopVars, Stages, Ending
  <2> QED
    BY <1>11, <2>1, <2>2 DEF SupervisesApp
<1> QED
  BY <1>2, <1>3, <1>4, <1>5, <1>6, <1>7, <1>8, <1>9, <1>10, <1>11

\* The root of a group is gone, and what is left of the group is what a failed kill
\* has missed: the next one.
LEMMA StoppedStep ==
  ASSUME SessionInv, main \in {"stop", "kill"}, Stopped,
         proc[Target] = "dead", refused' \in BOOLEAN, refused => refused',
         \A p \in Group(Target) : proc[p] = "alive" => refused'
  PROVE  SessionInv'
<1>0. SessionTypeOK /\ LaunchInv /\ AppInv /\ StopInv /\ ResultInv
  BY DEF SessionInv
<1>1. UNCHANGED <<platform, requested, proc, failed, left>>
  BY DEF Stopped, Rest
<1>2. CASE targets = <<"app", "framework">>
  <2>1. main' = "stop" /\ targets' = <<"framework">> /\ result' = result
    BY <1>2, Targets DEF Stopped
  <2>2. proc["app"] # "alive"
    BY <1>2, Targets DEF Target
  <2> QED
    BY <1>0, <1>1, <2>1, <2>2, Targets
       DEF SessionInv, SessionTypeOK, LaunchInv, AppInv, StopInv, ResultInv, Stages, Ending
<1>3. CASE targets = <<"framework">>
  <2>1. /\ proc["framework"] = "dead" /\ proc["app"] # "alive"
        /\ proc["server"] = "alive" => refused'
    BY <1>0, <1>3, Targets, Groups DEF Target, StopInv
  <2>2. CASE result = "status" /\ failed /\ ~requested
    <3>1. main' = "stop" /\ targets' = <<"framework">> /\ result' = "error"
      BY <1>3, <2>2, Targets DEF Stopped, Stop
    <3> QED
      BY <1>0, <1>1, <2>1, <3>1, Groups
         DEF SessionInv, SessionTypeOK, LaunchInv, AppInv, StopInv, ResultInv, Stages, Ending
  <2>3. CASE ~(result = "status" /\ failed /\ ~requested)
    <3>1. main' = "drop" /\ result' = IF result = "status" THEN "ok" ELSE result
      BY <1>3, <2>3, Targets DEF Stopped
    <3>2. SessionTypeOK' /\ LaunchInv' /\ AppInv' /\ StopInv'
      BY <1>0, <1>1, <2>1, <3>1
         DEF SessionTypeOK, LaunchInv, AppInv, StopInv, Stages, Ending
    <3>3. ResultInv'
      BY <1>0, <1>1, <2>1, <2>3, <3>1 DEF ResultInv, Ending
    <3> QED
      BY <3>2, <3>3 DEF SessionInv
  <2> QED
    BY <2>2, <2>3
<1> QED
  BY <1>0, <1>2, <1>3 DEF StopInv

\* SIGKILL, to the group or, when that fails, to its root alone.
LEMMA KillStep ==
  ASSUME SessionInv, Kills
  PROVE  SessionInv'
<1>0. SessionTypeOK /\ LaunchInv /\ AppInv /\ StopInv /\ ResultInv
  BY DEF SessionInv
<1>1. PICK killed \in {Group(Target), {Target}} :
        /\ proc' = [p \in Procs |-> IF p \in killed /\ proc[p] = "alive" THEN "killed"
                                    ELSE proc[p]]
        /\ refused' = (refused \/ \E p \in Group(Target) \ killed : proc[p] = "alive")
  BY DEF Kills
<1>2. /\ main = "stop" /\ main' = "kill"
      /\ UNCHANGED <<platform, requested, failed, left, targets, result>>
  BY DEF Kills, Goes, Rest, stopVars
<1>3. /\ Group(Target) \subseteq Procs /\ Target \in Group(Target)
      /\ "app" \in Procs /\ "framework" \in Procs /\ "server" \in Procs
  BY <1>0, <1>2, Targets, Groups DEF StopInv, Target
<1>4. Target \in killed /\ killed \subseteq Group(Target)
  BY <1>3
<1>5. /\ proc' \in [Procs -> {"none", "alive", "killed", "dead"}]
      /\ \A p \in Procs : /\ proc'[p] = "alive" => proc[p] = "alive" /\ p \notin killed
                          /\ proc'[p] = "none" <=> proc[p] = "none"
                          /\ proc[p] = "dead" => proc'[p] = "dead"
  BY <1>0, <1>1 DEF SessionTypeOK
<1>6. refused' \in BOOLEAN /\ (refused => refused')
  BY <1>0, <1>1 DEF SessionTypeOK
<1>7. proc'[Target] # "alive"
  BY <1>3, <1>4, <1>5
<1>8. \A p \in Group(Target) : proc'[p] = "alive" => refused'
  BY <1>1, <1>3, <1>5
<1>9. SessionTypeOK' /\ LaunchInv' /\ AppInv'
  BY <1>0, <1>2, <1>3, <1>5, <1>6 DEF SessionTypeOK, LaunchInv, AppInv, Stages, Ending
<1>10. Target' = Target
  BY <1>2 DEF Target
<1>11. StopInv'
  BY <1>0, <1>2, <1>3, <1>5, <1>7, <1>8, <1>10 DEF StopInv
<1>12. ResultInv'
  BY <1>0, <1>2, <1>3, <1>5 DEF ResultInv, Ending
<1> QED
  BY <1>9, <1>11, <1>12 DEF SessionInv

\* The end of the session.
LEMMA EndStep ==
  ASSUME SessionInv, PollsGroup \/ Kills \/ WaitsForRoot \/ DropsRelay \/ Exits
  PROVE  SessionInv'
<1>0. SessionTypeOK /\ LaunchInv /\ AppInv /\ StopInv /\ ResultInv
  BY DEF SessionInv
<1>1. CASE PollsGroup
  <2>1. /\ main = "stop" /\ proc[Target] = "dead" /\ Stopped
        /\ refused' = (refused \/ ~IsGone(Target))
    BY <1>1 DEF PollsGroup
  <2>2. refused' \in BOOLEAN /\ (refused => refused')
    BY <1>0, <2>1 DEF SessionTypeOK
  <2>3. \A p \in Group(Target) : proc[p] = "alive" => refused'
    BY <2>1 DEF IsGone
  <2> QED
    BY <2>1, <2>2, <2>3, StoppedStep
<1>2. CASE WaitsForRoot
  <2>1. main = "kill" /\ proc[Target] = "dead" /\ Stopped /\ refused' = refused
    BY <1>2 DEF WaitsForRoot
  <2>2. /\ refused' \in BOOLEAN
        /\ \A p \in Group(Target) : proc[p] = "alive" => refused'
    BY <1>0, <2>1 DEF SessionTypeOK, StopInv
  <2> QED
    BY <2>1, <2>2, StoppedStep
<1>3. CASE Kills
  BY <1>3, KillStep
<1>4. CASE DropsRelay \/ Exits
  <2>1. /\ main \in {"drop", "join"} /\ main' \in {"join", "over"}
        /\ UNCHANGED <<platform, requested, procVars, targets, result>>
    BY <1>4 DEF DropsRelay, Exits, Goes, Rest, stopVars
  <2> QED
    BY <1>0, <2>1
       DEF SessionInv, SessionTypeOK, LaunchInv, AppInv, StopInv, ResultInv, Stages, Ending, procVars
<1> QED
  BY <1>1, <1>2, <1>3, <1>4

\* Every step keeps the invariant of the session.
LEMMA SessionStep ==
  ASSUME SessionInv, [Next]_vars
  PROVE  SessionInv'
<1>1. CASE MainStep
  BY <1>1, StartStep, RunStep, EndStep DEF MainStep
<1>2. CASE Others
  BY <1>2, SessionStutters DEF Others, stopVars
<1>3. CASE Signals \/ Forks \/ ServerListens \/ \E p \in Procs : Ends(p)
  BY <1>3, WorldStep
<1>4. CASE UNCHANGED vars
  BY <1>4, SessionStutters DEF vars, stopVars
<1> QED
  BY <1>1, <1>2, <1>3, <1>4 DEF Next

-----------------------------------------------------------------------------
(* Theorems about the session. *)

\* The invariant of the session holds in every state.
THEOREM SessionInvariance == Spec => []SessionInv
<1>1. Init => SessionInv
  BY Groups DEF Init, SessionInv, SessionTypeOK, LaunchInv, AppInv, StopInv, ResultInv, Stages, Ending
<1>2. SessionInv /\ [Next]_vars => SessionInv'
  BY SessionStep
<1> QED
  BY <1>1, <1>2, PTL DEF Spec

\* When tok dev has ended, no process that it started on this host is alive: not
\* the command, what the command has started, nor the app (stop_process and
\* terminate_process_tree, on every path out of run); unless a call of kill failed,
\* which that code ignores.
THEOREM NothingIsLeft == Spec => []NothingOutlivesSession
<1>1. SessionInv => NothingOutlivesSession
  BY Groups DEF SessionInv, StopInv, NothingOutlivesSession
<1> QED
  BY <1>1, SessionInvariance, PTL

\* tok dev reports no success when the command has ended with an error before anybody
\* stopped it, unless it was asked to end or the app had ended by itself (supervise,
\* and run's look at the status).  That the session stopped the app is no excuse.
THEOREM FailuresAreReported == Spec => []FailureIsReported
<1>1. SessionInv => FailureIsReported
  BY DEF SessionInv, ResultInv, FailureIsReported, Ending
<1> QED
  BY <1>1, SessionInvariance, PTL

-----------------------------------------------------------------------------
(* The inductive invariant of the relay: what each connection keeps. *)

\* What a direction or a program holds, and how much of it.
Sent == Seq(Nat)
Size(s) == Len(s)

\* The i-th piece of a direction: the i-th that was sent, or, of a request that
\* was rewritten, the new head and what came behind the old one.
Piece(head, i) == IF head = 0 THEN i ELSE IF i = 1 THEN 0 ELSE head - 1 + i

\* A sequence of pieces that follow the n-th.
Numbered(s, head, n) == \A i \in DOMAIN s : s[i] = Piece(head, n + i)

Directions == {d \in [pieces : Sent, end : {"open", "fin", "reset"}] :
                 d.end = "reset" => d.pieces = <<>>}
ConnType ==
  [client : {"none", "open", "closed"}, head : Nat \ {0}, token : BOOLEAN, sent : Nat,
   got : Sent,
   thread : {"none", "backlog", "headers", "connect", "send", "copy", "join", "over"},
   forward : {"none", "copy", "over"}, initial : Sent,
   server : {"none", "open", "closed"}, asked : Sent, answered : Nat,
   up1 : Directions, up2 : Directions, down1 : Directions, down2 : Directions]

Early == {"none", "backlog", "headers", "connect"}

\* What the client has written lies in front of the relay.
ClientInv(c) ==
  /\ c.up1.end # "reset" =>
       /\ Size(c.up1.pieces) <= c.sent
       /\ Numbered(c.up1.pieces, 0, c.sent - Size(c.up1.pieces))
  /\ c.client = "none" <=> c.thread = "none"
  /\ c.client = "none" => c.sent = 0

\* What a thread has done by where it is.
ThreadInv(c) ==
  /\ c.thread \in {"none", "backlog", "copy", "join"} => c.initial = <<>>
  /\ c.thread \in Early =>
       c.server = "none" /\ c.forward = "none" /\ c.up2 = Open /\ c.down2 = Open
  /\ c.thread \in {"connect", "send", "copy", "join"} => c.token
  /\ c.forward = "copy" => c.thread \in {"copy", "join"}
  /\ c.forward = "over" => c.thread \in {"copy", "join", "over"}
  /\ c.thread = "over" => c.up1.end = "reset" /\ c.forward = "over"
  /\ c.thread \in {"send", "copy", "join"} => c.server # "none"
  /\ c.server # "none" => c.token

\* What was read of the head, until it is sent.
HeadInv(c) ==
  c.thread \in Early =>
    /\ Numbered(c.initial, 0, 0) /\ Size(c.initial) <= c.sent
    /\ c.up1.end # "reset" => Size(c.initial) + Size(c.up1.pieces) = c.sent
    /\ c.thread = "connect" => c.head <= Size(c.initial)
    /\ c.got = <<>> /\ c.down1.pieces = <<>>

\* What the server was sent of the request.
AskedInv(c) ==
  /\ c.server = "none" => c.asked = <<>> /\ c.up2.pieces = <<>>
  /\ c.server # "none" =>
       /\ c.head <= c.sent
       /\ Numbered(c.asked, c.head, 0) /\ Numbered(c.up2.pieces, c.head, Size(c.asked))
       /\ Size(c.asked) + Size(c.up2.pieces) <= c.sent - c.head + 1

\* And what is still to be, as long as it is not lost.
UpInv(c) ==
  c.thread \in {"send", "copy", "join"} /\ c.up2.end # "reset" =>
    /\ Numbered(c.initial, c.head, Size(c.asked) + Size(c.up2.pieces))
    /\ 1 <= Size(c.asked) + Size(c.up2.pieces) + Size(c.initial)
    /\ Size(c.asked) + Size(c.up2.pieces) + Size(c.initial) <= c.sent - c.head + 1
    /\ c.up1.end # "reset" =>
         Size(c.asked) + Size(c.up2.pieces) + Size(c.initial) + Size(c.up1.pieces)
           = c.sent - c.head + 1

\* What was answered, as far as it has come.
DownInv(c) ==
  /\ c.server = "none" => c.answered = 0 /\ c.down2.pieces = <<>>
  /\ c.token =>
       /\ Numbered(c.got, 0, 0) /\ Numbered(c.down1.pieces, 0, Size(c.got))
       /\ Size(c.got) + Size(c.down1.pieces) <= c.answered
       /\ c.down1.end # "reset" /\ c.down2.end # "reset" =>
            /\ Numbered(c.down2.pieces, 0, Size(c.got) + Size(c.down1.pieces))
            /\ Size(c.got) + Size(c.down1.pieces) + Size(c.down2.pieces) = c.answered
  /\ ~c.token => \/ c.got = <<>> /\ (c.down1.pieces = <<>> \/ c.down1.pieces = <<Unauthorized>>)
                 \/ c.got = <<Unauthorized>> /\ c.down1.pieces = <<>>

\* A thread that copies ends with what it reads, or where something broke off.
EndInv(c) ==
  /\ c.forward = "over" =>
       \/ c.up1.end = "reset" \/ c.up2.end = "reset"
       \/ (c.up1.pieces = <<>> /\ c.up1.end = "fin" /\ c.thread \in {"copy", "join"})
  /\ c.thread = "join" =>
       \/ c.down1.end = "reset" \/ c.down2.end = "reset"
       \/ (c.down2.pieces = <<>> /\ c.down2.end = "fin")

ConnInv(c) ==
  /\ ClientInv(c) /\ ThreadInv(c) /\ HeadInv(c)
  /\ AskedInv(c) /\ UpInv(c) /\ DownInv(c) /\ EndInv(c)

RelayInv == conn \in [Conns -> ConnType] /\ \A k \in Conns : ConnInv(conn[k])

\* What a step of a connection leaves alone.
ConnParts == {"client", "head", "token", "sent", "got", "thread", "forward", "initial",
              "server", "asked", "answered", "up1", "up2", "down1", "down2"}
Same(c, d, parts) == \A f \in ConnParts \ parts : d[f] = c[f]

-----------------------------------------------------------------------------
(* Lemmas about pieces. *)

\* Sizes are numbers, and only nothing has none.
LEMMA Sizes ==
  /\ <<>> \in Sent /\ Size(<<>>) = 0
  /\ \A s \in Sent : Size(s) \in Nat /\ (s # <<>> => Size(s) > 0)
<1>1. \A s \in Seq(Nat) : Len(s) \in Nat /\ (s # <<>> => Len(s) > 0)
  OBVIOUS
<1>2. <<>> \in Seq(Nat) /\ Len(<<>>) = 0
  BY EmptySeq
<1> QED
  BY <1>1, <1>2, Zenon DEF Size, Sent

\* A piece is a number.
LEMMA PieceNat == \A head \in Nat, i \in Nat \ {0} : Piece(head, i) \in Nat
  BY DEF Piece

\* What follows the n-th pieces is a sequence that begins with the next one.
LEMMA NumberedMeans ==
  ASSUME NEW s \in Seq(Nat), NEW head, NEW n
  PROVE  /\ Len(s) \in Nat
         /\ Numbered(s, head, n) <=> \A i \in 1 .. Len(s) : s[i] = Piece(head, n + i)
  BY DEF Numbered

\* Nothing follows anything.
LEMMA NothingIsNumbered == \A head, n : Numbered(<<>>, head, n)
  BY DEF Numbered

\* One more piece is written.
LEMMA NumberedAppend ==
  ASSUME NEW s \in Sent, NEW head \in Nat, NEW n \in Nat, Numbered(s, head, n),
         NEW x \in Nat, x = Piece(head, n + Size(s) + 1)
  PROVE  Append(s, x) \in Sent /\ Size(Append(s, x)) = Size(s) + 1
         /\ Numbered(Append(s, x), head, n)
<1> USE DEF Size, Sent
<1>1. /\ Append(s, x) \in Seq(Nat) /\ Len(Append(s, x)) = Len(s) + 1 /\ Len(s) \in Nat
      /\ \A i \in 1 .. Len(s) : Append(s, x)[i] = s[i]
      /\ Append(s, x)[Len(s) + 1] = x
  OBVIOUS
<1>2. \A i \in 1 .. Len(s) : s[i] = Piece(head, n + i)
  BY NumberedMeans
<1>3. Piece(head, n + (Len(s) + 1)) = x
  <2>1. n + (Len(s) + 1) = n + Len(s) + 1
    BY <1>1
  <2> QED
    BY <2>1
<1>4. ASSUME NEW i \in 1 .. Len(s) + 1
      PROVE  Append(s, x)[i] = Piece(head, n + i)
  <2>1. i \in 1 .. Len(s) \/ i = Len(s) + 1
    BY <1>1
  <2> QED
    BY <1>1, <1>2, <1>3, <2>1
<1> QED
  BY <1>1, <1>4, NumberedMeans

\* The first piece is read.
LEMMA NumberedTail ==
  ASSUME NEW s \in Sent, NEW head \in Nat, NEW n \in Nat, Numbered(s, head, n), s # <<>>
  PROVE  /\ Tail(s) \in Sent /\ Size(Tail(s)) = Size(s) - 1 /\ Size(s) \in Nat \ {0}
         /\ Numbered(Tail(s), head, n + 1)
         /\ Head(s) \in Nat /\ Head(s) = Piece(head, n + 1)
<1> USE DEF Size, Sent
<1>1. /\ Tail(s) \in Seq(Nat) /\ Len(Tail(s)) = Len(s) - 1 /\ Head(s) = s[1] /\ Head(s) \in Nat
      /\ \A i \in 1 .. Len(Tail(s)) : Tail(s)[i] = s[i + 1]
      /\ Len(s) \in Nat \ {0}
  BY HeadTailProperties, EmptySeq
<1>2. \A i \in 1 .. Len(s) : s[i] = Piece(head, n + i)
  BY NumberedMeans
<1>3. ASSUME NEW i \in 1 .. Len(Tail(s))
      PROVE  Tail(s)[i] = Piece(head, n + 1 + i)
  <2>1. i + 1 \in 1 .. Len(s) /\ n + (i + 1) = n + 1 + i
    BY <1>1
  <2>2. Tail(s)[i] = s[i + 1]
    BY <1>1
  <2>3. s[i + 1] = Piece(head, n + (i + 1))
    BY <1>2, <2>1
  <2> QED
    BY <2>1, <2>2, <2>3
<1>4. 1 \in 1 .. Len(s)
  BY <1>1
<1> QED
  BY <1>1, <1>2, <1>3, <1>4, NumberedMeans

\* Pieces and those that follow them.
LEMMA NumberedConcat ==
  ASSUME NEW s \in Sent, NEW t \in Sent, NEW head \in Nat, NEW n \in Nat,
         Numbered(s, head, n), Numbered(t, head, n + Size(s))
  PROVE  s \o t \in Sent /\ Size(s \o t) = Size(s) + Size(t) /\ Numbered(s \o t, head, n)
<1> USE DEF Size, Sent
<1>1. /\ s \o t \in Seq(Nat) /\ Len(s \o t) = Len(s) + Len(t)
      /\ Len(s) \in Nat /\ Len(t) \in Nat
      /\ \A i \in 1 .. Len(s) + Len(t) :
           (s \o t)[i] = IF i <= Len(s) THEN s[i] ELSE t[i - Len(s)]
  BY ConcatProperties
<1>2. /\ \A i \in 1 .. Len(s) : s[i] = Piece(head, n + i)
      /\ \A i \in 1 .. Len(t) : t[i] = Piece(head, n + Len(s) + i)
  BY NumberedMeans
<1>3. ASSUME NEW i \in 1 .. Len(s) + Len(t)
      PROVE  (s \o t)[i] = Piece(head, n + i)
  <2>1. CASE i <= Len(s)
    BY <1>1, <1>2, <2>1
  <2>2. CASE i > Len(s)
    <3>1. i - Len(s) \in 1 .. Len(t) /\ n + Len(s) + (i - Len(s)) = n + i
      BY <1>1, <2>2
    <3>2. (s \o t)[i] = t[i - Len(s)]
      BY <1>1, <2>2
    <3> QED
      BY <1>2, <3>1, <3>2
  <2> QED
    BY <1>1, <2>1, <2>2
<1> QED
  BY <1>1, <1>3, NumberedMeans

\* The first k pieces, and the rest.
LEMMA NumberedSplit ==
  ASSUME NEW s \in Sent, NEW head \in Nat, NEW n \in Nat, Numbered(s, head, n),
         NEW k \in 0 .. Size(s)
  PROVE  /\ SubSeq(s, 1, k) \in Sent /\ Size(SubSeq(s, 1, k)) = k
         /\ Numbered(SubSeq(s, 1, k), head, n)
         /\ SubSeq(s, k + 1, Size(s)) \in Sent /\ Size(SubSeq(s, k + 1, Size(s))) = Size(s) - k
         /\ Numbered(SubSeq(s, k + 1, Size(s)), head, n + k)
<1> USE DEF Size, Sent
<1>1. Len(s) \in Nat /\ k \in Nat /\ k <= Len(s) /\ \A i \in 1 .. Len(s) : s[i] \in Nat
  OBVIOUS
<1>2. \A i \in 1 .. Len(s) : s[i] = Piece(head, n + i)
  BY NumberedMeans
<1>3. /\ SubSeq(s, 1, k) \in Seq(Nat)
      /\ Len(SubSeq(s, 1, k)) = IF 1 <= k THEN k - 1 + 1 ELSE 0
      /\ \A i \in 1 .. k - 1 + 1 : SubSeq(s, 1, k)[i] = s[1 + i - 1]
  <2>1. 1 \in Int /\ k \in Int /\ \A i \in 1 .. k : s[i] \in Nat
    BY <1>1
  <2> QED
    BY <2>1, SubSeqProperties
<1>4. Len(SubSeq(s, 1, k)) = k
  BY <1>1, <1>3
<1>5. ASSUME NEW i \in 1 .. k PROVE SubSeq(s, 1, k)[i] = Piece(head, n + i)
  <2>1. i \in 1 .. k - 1 + 1 /\ 1 + i - 1 = i /\ i \in 1 .. Len(s)
    BY <1>1
  <2> QED
    BY <1>2, <1>3, <2>1
<1>6. /\ SubSeq(s, k + 1, Len(s)) \in Seq(Nat)
      /\ Len(SubSeq(s, k + 1, Len(s))) = IF k + 1 <= Len(s) THEN Len(s) - (k + 1) + 1 ELSE 0
      /\ \A i \in 1 .. Len(s) - (k + 1) + 1 : SubSeq(s, k + 1, Len(s))[i] = s[(k + 1) + i - 1]
  <2>1. k + 1 \in Int /\ Len(s) \in Int /\ \A i \in k + 1 .. Len(s) : s[i] \in Nat
    BY <1>1
  <2> QED
    BY <2>1, SubSeqProperties
<1>7. Len(SubSeq(s, k + 1, Len(s))) = Len(s) - k
  BY <1>1, <1>6
<1>8. ASSUME NEW i \in 1 .. Len(s) - k
      PROVE  SubSeq(s, k + 1, Len(s))[i] = Piece(head, n + k + i)
  <2>1. /\ i \in 1 .. Len(s) - (k + 1) + 1 /\ (k + 1) + i - 1 = k + i
        /\ k + i \in 1 .. Len(s) /\ n + (k + i) = n + k + i
    BY <1>1
  <2>2. SubSeq(s, k + 1, Len(s))[i] = s[k + i]
    BY <1>6, <2>1
  <2>3. s[k + i] = Piece(head, n + (k + i))
    BY <1>2, <2>1
  <2> QED
    BY <2>1, <2>2, <2>3
<1> QED
  BY <1>3, <1>4, <1>5, <1>6, <1>7, <1>8, NumberedMeans

\* Of two sequences with the same first piece the shorter is a prefix.
LEMMA NumberedPrefix ==
  ASSUME NEW s \in Sent, NEW t \in Sent, NEW head \in Nat,
         Numbered(s, head, 0), Numbered(t, head, 0), Size(s) <= Size(t)
  PROVE  IsPrefix(s, t) /\ (Size(s) = Size(t) => s = t)
<1> USE DEF Size, Sent
<1>1. Len(s) \in Nat /\ Len(t) \in Nat /\ Len(s) \in 0 .. Len(s) /\ Len(s) \in 0 .. Len(t)
  OBVIOUS
<1>2. ASSUME NEW u \in Seq(Nat), NEW v \in Seq(Nat), Numbered(u, head, 0), Numbered(v, head, 0),
             Len(u) = Len(v)
      PROVE  u = v
  <2>1. \A i \in 1 .. Len(u) : u[i] = v[i]
    BY <1>2, NumberedMeans
  <2> QED
    BY <1>2, <2>1, SeqEqual
<1>3. /\ SubSeq(s, 1, Len(s)) \in Seq(Nat) /\ Len(SubSeq(s, 1, Len(s))) = Len(s)
      /\ Numbered(SubSeq(s, 1, Len(s)), head, 0)
  BY <1>1, NumberedSplit
<1>4. /\ SubSeq(t, 1, Len(s)) \in Seq(Nat) /\ Len(SubSeq(t, 1, Len(s))) = Len(s)
      /\ Numbered(SubSeq(t, 1, Len(s)), head, 0)
  BY <1>1, NumberedSplit
<1>5. SubSeq(s, 1, Len(s)) = SubSeq(t, 1, Len(s))
  BY <1>2, <1>3, <1>4
<1> QED
  BY <1>2, <1>5 DEF IsPrefix

\* What comes behind a rewritten head.
LEMMA NumberedHead ==
  ASSUME NEW rest \in Seq(Nat), NEW head \in Nat \ {0}, \A i \in 1 .. Len(rest) : rest[i] = head + i
  PROVE  /\ <<0>> \o rest \in Seq(Nat) /\ Len(<<0>> \o rest) = Len(rest) + 1
         /\ Numbered(<<0>> \o rest, head, 0)
<1>1. /\ <<0>> \in Seq(Nat) /\ Len(<<0>>) = 1 /\ <<0>>[1] = 0 /\ Len(rest) \in Nat
  OBVIOUS
<1>2. /\ <<0>> \o rest \in Seq(Nat) /\ Len(<<0>> \o rest) = 1 + Len(rest)
      /\ \A i \in 1 .. 1 + Len(rest) : (<<0>> \o rest)[i] = IF i <= 1 THEN <<0>>[i] ELSE rest[i - 1]
  BY <1>1, ConcatProperties
<1>3. ASSUME NEW i \in 1 .. 1 + Len(rest)
      PROVE  (<<0>> \o rest)[i] = Piece(head, 0 + i)
  <2>1. CASE i = 1
    BY <1>1, <1>2, <2>1 DEF Piece
  <2>2. CASE i # 1
    <3>1. i - 1 \in 1 .. Len(rest) /\ ~(i <= 1) /\ head + (i - 1) = head - 1 + i /\ 0 + i = i
      BY <1>1, <2>2
    <3>2. (<<0>> \o rest)[i] = head + (i - 1)
      BY <1>2, <3>1
    <3> QED
      BY <2>2, <3>1, <3>2 DEF Piece
  <2> QED
    BY <2>1, <2>2
<1>4. Len(<<0>> \o rest) = Len(rest) + 1
  BY <1>1, <1>2
<1> QED
  BY <1>2, <1>3, <1>4, NumberedMeans

\* The new head is in place of the old one's pieces.
LEMMA NumberedRewritten ==
  ASSUME NEW s \in Sent, Numbered(s, 0, 0), NEW head \in Nat \ {0}, head <= Size(s)
  PROVE  /\ Rewritten(s, head) \in Sent /\ Size(Rewritten(s, head)) = Size(s) - head + 1
         /\ Numbered(Rewritten(s, head), head, 0)
<1> USE DEF Size, Sent
<1> DEFINE rest == SubSeq(s, head + 1, Len(s))
<1>1. Len(s) \in Nat /\ head \in 0 .. Len(s) /\ 0 + head = head
  OBVIOUS
<1>2. rest \in Seq(Nat) /\ Len(rest) = Len(s) - head /\ Numbered(rest, 0, head)
  BY <1>1, NumberedSplit
<1>3. Rewritten(s, head) = <<0>> \o rest
  BY <1>1 DEF Rewritten
<1> HIDE DEF rest
<1>4. \A i \in 1 .. Len(rest) : rest[i] = head + i
  <2>1. \A i \in 1 .. Len(rest) : rest[i] = Piece(0, head + i)
    BY <1>2 DEF Numbered
  <2> QED
    BY <2>1 DEF Piece
<1>5. /\ <<0>> \o rest \in Seq(Nat) /\ Len(<<0>> \o rest) = Len(rest) + 1
      /\ Numbered(<<0>> \o rest, head, 0)
  BY <1>2, <1>4, NumberedHead
<1> QED
  BY <1>1, <1>2, <1>3, <1>5

\* What is read at the front, and written behind.
LEMMA ReadAndWritten ==
  ASSUME NEW s \in Sent, NEW t \in Sent, s # <<>>
  PROVE  /\ Head(s) \in Nat /\ Tail(s) \in Sent /\ Size(Tail(s)) = Size(s) - 1
         /\ Append(t, Head(s)) \in Sent /\ Size(Append(t, Head(s))) = Size(t) + 1
<1>1. /\ Head(s) \in Nat /\ Tail(s) \in Seq(Nat) /\ Len(Tail(s)) = Len(s) - 1
  BY HeadTailProperties DEF Sent
<1>2. Append(t, Head(s)) \in Seq(Nat) /\ Len(Append(t, Head(s))) = Len(t) + 1
  BY <1>1 DEF Sent
<1> QED
  BY <1>1, <1>2, Zenon DEF Sent, Size

\* A sequence of one piece.
LEMMA One ==
  \A x \in Nat : <<x>> \in Sent /\ Append(<<>>, x) = <<x>> /\ Head(<<x>>) = x /\ Tail(<<x>>) = <<>>
<1> SUFFICES ASSUME NEW x \in Nat
             PROVE  <<x>> \in Sent /\ Append(<<>>, x) = <<x>> /\ Head(<<x>>) = x /\ Tail(<<x>>) = <<>>
  OBVIOUS
<1> DEFINE s == <<x>>
<1>1. s \in Seq(Nat) /\ Len(s) = 1 /\ s[1] = x
  OBVIOUS
<1>2. <<>> \in Seq(Nat) /\ Len(<<>>) = 0
  BY EmptySeq
<1>3. Append(<<>>, x) = s
  OBVIOUS
<1> HIDE DEF s
<1>4. Head(s) = x
  BY <1>1
<1>5. Tail(s) \in Seq(Nat) /\ Len(Tail(s)) = 0
  <2>1. s # <<>>
    BY <1>1, <1>2
  <2> QED
    BY <1>1, <2>1, HeadTailProperties
<1>6. Tail(s) = <<>>
  BY <1>5, EmptySeq
<1> QED
  BY <1>1, <1>3, <1>4, <1>6 DEF s, Sent

-----------------------------------------------------------------------------
(* Lemmas about directions. *)

\* A direction that nothing was written to, and one that broke off.
LEMMA Sockets ==
  /\ Open \in Directions /\ Open.pieces = <<>> /\ Open.end = "open"
  /\ Broken \in Directions /\ Broken.pieces = <<>> /\ Broken.end = "reset"
<1>1. <<>> \in Sent
  BY Sizes
<1> QED
  BY <1>1 DEF Open, Broken, Directions

\* A direction that its writer shuts keeps what it holds.
LEMMA DirectionShut ==
  ASSUME NEW d \in Directions
  PROVE  /\ Shut(d) \in Directions /\ Shut(d).pieces = d.pieces
         /\ Shut(d).end = "reset" <=> d.end = "reset"
         /\ d.end # "open" => Shut(d) = d
  BY DEF Directions, Shut

\* What is written is behind the rest, or lost.
LEMMA DirectionWritten ==
  ASSUME NEW d \in Directions, NEW x \in Nat
  PROVE  /\ Written(d, x) \in Directions /\ Written(d, x).end = d.end
         /\ d.end = "open" => Written(d, x).pieces = Append(d.pieces, x)
         /\ d.end # "open" => Written(d, x) = d
  BY DEF Directions, Written, Sent

\* A direction of which something was read keeps its end.
LEMMA DirectionRead ==
  ASSUME NEW d \in Directions, NEW s \in Sent, d.end # "reset"
  PROVE  /\ [d EXCEPT !.pieces = s] \in Directions
         /\ [d EXCEPT !.pieces = s].pieces = s /\ [d EXCEPT !.pieces = s].end = d.end
  BY DEF Directions

\* What a direction holds, by its end.
LEMMA DirectionType ==
  ASSUME NEW d \in Directions
  PROVE  /\ d.pieces \in Sent /\ Size(d.pieces) \in Nat /\ d.end \in {"open", "fin", "reset"}
         /\ d.pieces # <<>> => d.end # "reset" /\ Size(d.pieces) > 0
         /\ d.pieces = <<>> => Size(d.pieces) = 0
<1>1. d.pieces \in Sent /\ d.end \in {"open", "fin", "reset"} /\ (d.end = "reset" => d.pieces = <<>>)
  BY DEF Directions
<1> QED
  BY <1>1, Sizes

\* The types of what a connection has.
LEMMA ConnFields ==
  ASSUME NEW c \in ConnType
  PROVE  /\ c.client \in {"none", "open", "closed"} /\ c.server \in {"none", "open", "closed"}
         /\ c.head \in Nat \ {0} /\ c.token \in BOOLEAN /\ c.sent \in Nat /\ c.answered \in Nat
         /\ c.thread \in {"none", "backlog", "headers", "connect", "send", "copy", "join", "over"}
         /\ c.forward \in {"none", "copy", "over"}
         /\ c.got \in Sent /\ c.initial \in Sent /\ c.asked \in Sent
         /\ Size(c.got) \in Nat /\ Size(c.initial) \in Nat /\ Size(c.asked) \in Nat
         /\ c.up1 \in Directions /\ c.up2 \in Directions
         /\ c.down1 \in Directions /\ c.down2 \in Directions
         /\ Size(c.up1.pieces) \in Nat /\ Size(c.up2.pieces) \in Nat
         /\ Size(c.down1.pieces) \in Nat /\ Size(c.down2.pieces) \in Nat
         /\ c.up1.pieces \in Sent /\ c.up2.pieces \in Sent
         /\ c.down1.pieces \in Sent /\ c.down2.pieces \in Sent
<1>1. /\ c.client \in {"none", "open", "closed"} /\ c.server \in {"none", "open", "closed"}
      /\ c.head \in Nat \ {0} /\ c.token \in BOOLEAN /\ c.sent \in Nat /\ c.answered \in Nat
      /\ c.thread \in {"none", "backlog", "headers", "connect", "send", "copy", "join", "over"}
      /\ c.forward \in {"none", "copy", "over"}
      /\ c.got \in Sent /\ c.initial \in Sent /\ c.asked \in Sent
      /\ c.up1 \in Directions /\ c.up2 \in Directions
      /\ c.down1 \in Directions /\ c.down2 \in Directions
  BY DEF ConnType
<1>2. /\ Size(c.got) \in Nat /\ Size(c.initial) \in Nat /\ Size(c.asked) \in Nat
  BY <1>1, Sizes
<1> QED
  BY <1>1, <1>2, DirectionType

\* An invariant is kept where a step leaves alone what it is about.
LEMMA Kept ==
  ASSUME NEW c \in ConnType, NEW d, NEW parts, Same(c, d, parts)
  PROVE  /\ ClientInv(c) /\ parts \cap {"client", "thread", "sent", "up1"} = {} => ClientInv(d)
         /\ ThreadInv(c) /\ parts \cap {"thread", "forward", "initial", "server", "token",
                                        "up1", "up2", "down2"} = {} => ThreadInv(d)
         /\ HeadInv(c) /\ parts \cap {"thread", "initial", "sent", "up1", "head",
                                      "got", "down1"} = {} => HeadInv(d)
         /\ AskedInv(c) /\ parts \cap {"server", "asked", "up2", "head", "sent"} = {}
              => AskedInv(d)
         /\ UpInv(c) /\ parts \cap {"thread", "up1", "up2", "initial", "asked", "head",
                                    "sent"} = {} => UpInv(d)
         /\ DownInv(c) /\ parts \cap {"server", "answered", "down1", "down2", "got",
                                      "token"} = {} => DownInv(d)
         /\ EndInv(c) /\ parts \cap {"thread", "forward", "up1", "up2", "down1",
                                     "down2"} = {} => EndInv(d)
<1>1. \A f \in ConnParts : f \notin parts => d[f] = c[f]
  BY DEF Same
<1>2. ASSUME ClientInv(c), parts \cap {"client", "thread", "sent", "up1"} = {}
      PROVE  ClientInv(d)
  <2>1. d.client = c.client /\ d.thread = c.thread /\ d.sent = c.sent /\ d.up1 = c.up1
    BY <1>1, <1>2 DEF ConnParts
  <2> QED
    BY <1>2, <2>1 DEF ClientInv
<1>3. ASSUME ThreadInv(c), parts \cap {"thread", "forward", "initial", "server", "token",
                                       "up1", "up2", "down2"} = {}
      PROVE  ThreadInv(d)
  <2>1. d.thread = c.thread /\ d.forward = c.forward /\ d.initial = c.initial
        /\ d.server = c.server /\ d.token = c.token /\ d.up1 = c.up1 /\ d.up2 = c.up2
        /\ d.down2 = c.down2
    BY <1>1, <1>3 DEF ConnParts
  <2> QED
    BY <1>3, <2>1 DEF ThreadInv
<1>4. ASSUME HeadInv(c), parts \cap {"thread", "initial", "sent", "up1", "head", "got", "down1"} = {}
      PROVE  HeadInv(d)
  <2>1. d.thread = c.thread /\ d.initial = c.initial /\ d.sent = c.sent /\ d.up1 = c.up1
        /\ d.head = c.head /\ d.got = c.got /\ d.down1 = c.down1
    BY <1>1, <1>4 DEF ConnParts
  <2> QED
    BY <1>4, <2>1 DEF HeadInv
<1>5. ASSUME AskedInv(c), parts \cap {"server", "asked", "up2", "head", "sent"} = {}
      PROVE  AskedInv(d)
  <2>1. d.server = c.server /\ d.asked = c.asked /\ d.up2 = c.up2 /\ d.head = c.head
        /\ d.sent = c.sent
    BY <1>1, <1>5 DEF ConnParts
  <2> QED
    BY <1>5, <2>1 DEF AskedInv
<1>6. ASSUME UpInv(c), parts \cap {"thread", "up1", "up2", "initial", "asked", "head", "sent"} = {}
      PROVE  UpInv(d)
  <2>1. d.thread = c.thread /\ d.up1 = c.up1 /\ d.up2 = c.up2 /\ d.initial = c.initial
        /\ d.asked = c.asked /\ d.head = c.head /\ d.sent = c.sent
    BY <1>1, <1>6 DEF ConnParts
  <2> QED
    BY <1>6, <2>1 DEF UpInv
<1>7. ASSUME DownInv(c), parts \cap {"server", "answered", "down1", "down2", "got", "token"} = {}
      PROVE  DownInv(d)
  <2>1. d.server = c.server /\ d.answered = c.answered /\ d.down1 = c.down1
        /\ d.down2 = c.down2 /\ d.got = c.got /\ d.token = c.token
    BY <1>1, <1>7 DEF ConnParts
  <2> QED
    BY <1>7, <2>1 DEF DownInv
<1>8. ASSUME EndInv(c), parts \cap {"thread", "forward", "up1", "up2", "down1", "down2"} = {}
      PROVE  EndInv(d)
  <2>1. d.thread = c.thread /\ d.forward = c.forward /\ d.up1 = c.up1 /\ d.up2 = c.up2
        /\ d.down1 = c.down1 /\ d.down2 = c.down2
    BY <1>1, <1>8 DEF ConnParts
  <2> QED
    BY <1>8, <2>1 DEF EndInv
<1> QED
  BY <1>2, <1>3, <1>4, <1>5, <1>6, <1>7, <1>8

-----------------------------------------------------------------------------
(* What each step does to a connection. *)

\* The client writes a piece.
LEMMA ConnClientSends ==
  ASSUME NEW c \in ConnType, ConnInv(c), c.client = "open", HasRoom(c.up1)
  PROVE  LET d == [c EXCEPT !.sent = @ + 1, !.up1.pieces = Append(@, c.sent + 1)]
         IN  d \in ConnType /\ ConnInv(d)
<1> DEFINE x == c.sent + 1
           n == c.sent - Size(c.up1.pieces)
           s == Append(c.up1.pieces, x)
           u == [c.up1 EXCEPT !.pieces = s]
           d == [c EXCEPT !.sent = @ + 1, !.up1.pieces = Append(@, c.sent + 1)]
<1>1. /\ c.sent \in Nat /\ c.up1 \in Directions /\ c.up1.end = "open"
      /\ c.up1.pieces \in Sent /\ Size(c.up1.pieces) \in Nat
      /\ Size(c.up1.pieces) <= c.sent /\ Numbered(c.up1.pieces, 0, n)
  BY ConnFields DEF HasRoom, ConnInv, ClientInv
<1>2. x \in Nat /\ x = Piece(0, n + Size(c.up1.pieces) + 1) /\ n \in Nat
      /\ n + Size(c.up1.pieces) = c.sent
  BY <1>1 DEF Piece
<1>3. d = [c EXCEPT !.sent = x, !.up1 = u]
  BY DEF ConnType
<1> HIDE DEF x, n, d
<1>4. s \in Sent /\ Size(s) = Size(c.up1.pieces) + 1 /\ Numbered(s, 0, n)
  BY <1>1, <1>2, NumberedAppend
<1> HIDE DEF s
<1>5. u \in Directions /\ u.pieces = s /\ u.end = "open"
  BY <1>1, <1>4, DirectionRead
<1> HIDE DEF u
<1>6. d \in ConnType /\ d.sent = x /\ d.up1 = u /\ Same(c, d, {"sent", "up1"})
  BY <1>2, <1>3, <1>5 DEF ConnType, Same, ConnParts
<1>7. /\ d.client = c.client /\ d.head = c.head /\ d.thread = c.thread
      /\ d.forward = c.forward /\ d.initial = c.initial /\ d.server = c.server
      /\ d.asked = c.asked /\ d.up2 = c.up2 /\ d.token = c.token
      /\ d.down1 = c.down1 /\ d.down2 = c.down2 /\ d.got = c.got
  BY <1>6 DEF Same, ConnParts
<1>8. /\ d.sent = c.sent + 1 /\ d.sent = n + Size(s)
      /\ d.up1.pieces = s /\ d.up1.end = "open"
  BY <1>1, <1>2, <1>4, <1>5, <1>6 DEF x
<1>9. /\ ClientInv(c) /\ ThreadInv(c) /\ HeadInv(c)
      /\ AskedInv(c) /\ UpInv(c) /\ DownInv(c) /\ EndInv(c)
  BY DEF ConnInv
<1>10. ClientInv(d)
  <2>1. d.sent - Size(s) = n /\ Size(s) <= d.sent
    BY <1>1, <1>2, <1>4, <1>8
  <2> QED
    BY <1>4, <1>7, <1>8, <1>9, <2>1 DEF ClientInv
<1>11. ThreadInv(d)
  BY <1>1, <1>7, <1>8, <1>9 DEF ThreadInv
<1>12. HeadInv(d)
  BY ConnFields, <1>1, <1>4, <1>7, <1>8, <1>9 DEF HeadInv
<1>13. AskedInv(d)
  BY ConnFields, <1>1, <1>7, <1>8, <1>9 DEF AskedInv
<1>14. UpInv(d)
  BY ConnFields, <1>1, <1>4, <1>7, <1>8, <1>9 DEF UpInv
<1>15. DownInv(d)
  BY <1>6, <1>9, Kept
<1>16. EndInv(d)
  BY <1>1, <1>7, <1>8, <1>9 DEF EndInv
<1> QED
  BY <1>6, <1>10, <1>11, <1>12, <1>13, <1>14, <1>15, <1>16 DEF ConnInv, d

\* The client reads a piece.
LEMMA ConnClientReads ==
  ASSUME NEW c \in ConnType, ConnInv(c), c.down1.pieces # <<>>
  PROVE  LET d == [c EXCEPT !.got = Append(@, Head(c.down1.pieces)),
                            !.down1.pieces = Tail(@)]
         IN  d \in ConnType /\ ConnInv(d)
<1> DEFINE x == Head(c.down1.pieces)
           s == Tail(c.down1.pieces)
           g == Append(c.got, x)
           u == [c.down1 EXCEPT !.pieces = s]
           d == [c EXCEPT !.got = Append(@, Head(c.down1.pieces)), !.down1.pieces = Tail(@)]
<1>1. /\ c.got \in Sent /\ Size(c.got) \in Nat /\ c.down1 \in Directions
      /\ c.down1.pieces \in Sent /\ Size(c.down1.pieces) \in Nat /\ c.down1.end # "reset"
      /\ c.token \in BOOLEAN
  BY ConnFields, DirectionType
<1>2. d = [c EXCEPT !.got = g, !.down1 = u]
  BY DEF ConnType
<1>3. /\ ClientInv(c) /\ ThreadInv(c) /\ HeadInv(c)
      /\ AskedInv(c) /\ UpInv(c) /\ DownInv(c) /\ EndInv(c)
  BY DEF ConnInv
<1> HIDE DEF d
<1>4. x \in Nat /\ s \in Sent /\ Size(s) = Size(c.down1.pieces) - 1 /\ g \in Sent
      /\ Size(g) = Size(c.got) + 1
  BY <1>1, ReadAndWritten
<1>5. c.token => /\ Numbered(s, 0, Size(g)) /\ Numbered(g, 0, 0)
  <2>1. ASSUME c.token
        PROVE  /\ Numbered(s, 0, Size(c.got) + 1) /\ x = Piece(0, Size(c.got) + 1)
               /\ Numbered(c.got, 0, 0)
    BY <1>1, <1>3, <2>1, NumberedTail DEF DownInv
  <2>2. 0 + Size(c.got) + 1 = Size(c.got) + 1
    BY <1>1
  <2> QED
    BY <1>1, <1>4, <2>1, <2>2, NumberedAppend
<1>6. ~c.token => c.got = <<>> /\ c.down1.pieces = <<Unauthorized>>
  BY <1>3 DEF DownInv
<1>7. ~c.token => g = <<Unauthorized>> /\ s = <<>>
  <2>1. Unauthorized \in Nat
    BY DEF Unauthorized
  <2> QED
    BY <1>6, <2>1, One
<1> HIDE DEF x, s, g
<1>8. u \in Directions /\ u.pieces = s /\ u.end = c.down1.end
  BY <1>1, <1>4, DirectionRead
<1> HIDE DEF u
<1>9. d \in ConnType /\ d.got = g /\ d.down1 = u /\ Same(c, d, {"got", "down1"})
  BY <1>2, <1>4, <1>8 DEF ConnType, Same, ConnParts
<1>10. ClientInv(d) /\ ThreadInv(d) /\ AskedInv(d) /\ UpInv(d)
  BY <1>3, <1>9, Kept
<1>11. /\ d.thread = c.thread /\ d.server = c.server /\ d.answered = c.answered
       /\ d.down2 = c.down2 /\ d.token = c.token /\ d.forward = c.forward
       /\ d.up1 = c.up1 /\ d.up2 = c.up2
  BY <1>9 DEF Same, ConnParts
<1>12. HeadInv(d)
  BY <1>3, <1>11 DEF HeadInv
<1>13. DownInv(d)
  <2>1. c.server = "none" => c.answered = 0 /\ c.down2.pieces = <<>>
    BY <1>3 DEF DownInv
  <2>2. Size(g) + Size(s) = Size(c.got) + Size(c.down1.pieces)
    BY <1>1, <1>4
  <2>3. CASE c.token
    BY <1>1, <1>3, <1>5, <1>8, <1>9, <1>11, <2>1, <2>2, <2>3 DEF DownInv
  <2>4. CASE ~c.token
    BY <1>7, <1>8, <1>9, <1>11, <2>1, <2>4 DEF DownInv
  <2> QED
    BY <1>1, <2>3, <2>4
<1>14. EndInv(d)
  BY <1>3, <1>8, <1>9, <1>11 DEF EndInv
<1> QED
  BY <1>9, <1>10, <1>12, <1>13, <1>14 DEF ConnInv, d

\* The client connects.
LEMMA ConnConnects ==
  ASSUME NEW c \in ConnType, ConnInv(c), c.client = "none",
         NEW head \in Nat \ {0}, NEW token \in BOOLEAN
  PROVE  LET d == [c EXCEPT !.client = "open", !.head = head, !.token = token,
                            !.thread = "backlog"]
         IN  d \in ConnType /\ ConnInv(d)
<1> DEFINE d == [c EXCEPT !.client = "open", !.head = head, !.token = token,
                          !.thread = "backlog"]
<1>1. /\ d \in ConnType /\ d.client = "open" /\ d.thread = "backlog"
      /\ d.head = head /\ d.token = token
      /\ Same(c, d, {"client", "head", "token", "thread"})
  BY DEF ConnType, Same, ConnParts
<1> HIDE DEF d
<1>2. /\ ClientInv(c) /\ ThreadInv(c) /\ HeadInv(c)
      /\ AskedInv(c) /\ UpInv(c) /\ DownInv(c) /\ EndInv(c)
  BY DEF ConnInv
<1>3. c.thread = "none" /\ c.sent = 0
  BY <1>2 DEF ClientInv
<1>4. /\ d.sent = c.sent /\ d.initial = c.initial /\ d.server = c.server /\ d.asked = c.asked
      /\ d.forward = c.forward /\ d.up1 = c.up1 /\ d.up2 = c.up2
      /\ d.down1 = c.down1 /\ d.down2 = c.down2 /\ d.got = c.got /\ d.answered = c.answered
  BY <1>1 DEF Same, ConnParts
<1>5. /\ c.server = "none" /\ c.forward = "none" /\ c.initial = <<>>
      /\ c.got = <<>> /\ c.down1.pieces = <<>> /\ c.answered = 0 /\ c.down2.pieces = <<>>
      /\ c.up2 = Open /\ c.down2 = Open
  BY <1>2, <1>3 DEF ThreadInv, HeadInv, DownInv, Early
<1>6. ClientInv(d)
  BY <1>1, <1>2, <1>3, <1>4 DEF ClientInv
<1>7. ThreadInv(d)
  BY <1>1, <1>4, <1>5 DEF ThreadInv, Early
<1>8. HeadInv(d)
  BY <1>1, <1>2, <1>3, <1>4, <1>5 DEF HeadInv, Early
<1>9. AskedInv(d) /\ UpInv(d)
  BY <1>1, <1>2, <1>4, <1>5 DEF AskedInv, UpInv
<1>10. DownInv(d)
  BY <1>4, <1>5, NothingIsNumbered, Sizes DEF DownInv
<1>11. EndInv(d)
  BY <1>1, <1>4, <1>5 DEF EndInv
<1> QED
  BY <1>1, <1>6, <1>7, <1>8, <1>9, <1>10, <1>11 DEF ConnInv, d

\* A socket is closed: what is written to it breaks off, and what was written is
\* shut or lost.
LEMMA ClosedMeans ==
  ASSUME NEW c, NEW out, NEW in, NEW e \in Closed(c, out, in)
  PROVE  \E o : (o = Shut(c[out]) \/ o = Broken) /\ e = [c EXCEPT ![out] = o, ![in] = Broken]
<1>1. PICK o \in {Shut(c[out])} \cup (IF c[in].pieces = <<>> THEN {} ELSE {Broken}) :
        e = [c EXCEPT ![out] = o, ![in] = Broken]
  BY DEF Closed
<1> QED
  BY <1>1

\* What is left in a direction that is shut or broken off.
LEMMA DirectionClosed ==
  ASSUME NEW d \in Directions, NEW o, o = Shut(d) \/ o = Broken
  PROVE  /\ o \in Directions
         /\ (o.pieces = d.pieces /\ (o.end = "reset" => d.pieces = <<>>)) \/ o = Broken
         /\ d.end # "open" => o = d \/ o = Broken
         /\ d.end = "reset" => o.end = "reset"
  BY DirectionShut, DirectionType, Sockets DEF Directions, Shut

\* The client closes its socket, or ends.
LEMMA ConnClientCloses ==
  ASSUME NEW c \in ConnType, ConnInv(c), c.client = "open", NEW d \in ClientClosed(c)
  PROVE  d \in ConnType /\ ConnInv(d)
<1>1. PICK e \in Closed(c, "up1", "down1") : d = [e EXCEPT !.client = "closed"]
  BY DEF ClientClosed
<1>2. PICK o : (o = Shut(c.up1) \/ o = Broken) /\ e = [c EXCEPT !.up1 = o, !.down1 = Broken]
  BY ClosedMeans
<1>3. /\ c.up1 \in Directions /\ c.down1 \in Directions /\ Broken \in Directions
      /\ c.down1.pieces \in Sent /\ Size(c.down1.pieces) \in Nat /\ Size(c.got) \in Nat
      /\ c.answered \in Nat /\ Size(<<>>) = 0
      /\ Broken.pieces = <<>> /\ Broken.end = "reset"
  BY ConnFields, Sockets, Sizes
<1>4. /\ o \in Directions
      /\ (o.pieces = c.up1.pieces /\ (o.end = "reset" => c.up1.pieces = <<>>)) \/ o = Broken
      /\ c.up1.end # "open" => o = c.up1 \/ o = Broken
      /\ c.up1.end = "reset" => o.end = "reset"
  BY <1>2, <1>3, DirectionClosed
<1>5. /\ d \in ConnType /\ d.up1 = o /\ d.down1 = Broken /\ d.client = "closed"
      /\ Same(c, d, {"client", "up1", "down1"})
  BY <1>1, <1>2, <1>3, <1>4 DEF ConnType, Same, ConnParts
<1>6. /\ d.sent = c.sent /\ d.initial = c.initial /\ d.server = c.server /\ d.asked = c.asked
      /\ d.forward = c.forward /\ d.up2 = c.up2 /\ d.thread = c.thread /\ d.head = c.head
      /\ d.down2 = c.down2 /\ d.got = c.got /\ d.answered = c.answered /\ d.token = c.token
  BY <1>5 DEF Same, ConnParts
<1>7. /\ ClientInv(c) /\ ThreadInv(c) /\ HeadInv(c)
      /\ AskedInv(c) /\ UpInv(c) /\ DownInv(c) /\ EndInv(c)
  BY DEF ConnInv
<1>8. c.up1.end = "reset" \/ d.up1.end = "reset" \/ d.up1.pieces = c.up1.pieces
  BY <1>3, <1>4, <1>5
<1>9. ClientInv(d)
  BY <1>3, <1>4, <1>5, <1>6, <1>7 DEF ClientInv
<1>10. ThreadInv(d)
  BY <1>4, <1>5, <1>6, <1>7 DEF ThreadInv
<1>11. HeadInv(d)
  BY <1>3, <1>4, <1>5, <1>6, <1>7 DEF HeadInv
<1>12. AskedInv(d)
  BY <1>5, <1>7, Kept
<1>13. UpInv(d)
  BY <1>3, <1>4, <1>5, <1>6, <1>7 DEF UpInv
<1>14. DownInv(d)
  BY <1>3, <1>5, <1>6, <1>7, NothingIsNumbered DEF DownInv
<1>15. EndInv(d)
  BY <1>3, <1>4, <1>5, <1>6, <1>7 DEF EndInv
<1> QED
  BY <1>5, <1>9, <1>10, <1>11, <1>12, <1>13, <1>14, <1>15 DEF ConnInv

\* The server closes its socket, or ends.
LEMMA ConnServerCloses ==
  ASSUME NEW c \in ConnType, ConnInv(c), c.server = "open", NEW d \in ServerClosed(c)
  PROVE  d \in ConnType /\ ConnInv(d)
<1>1. PICK e \in Closed(c, "down2", "up2") : d = [e EXCEPT !.server = "closed"]
  BY DEF ServerClosed
<1>2. PICK o : (o = Shut(c.down2) \/ o = Broken) /\ e = [c EXCEPT !.down2 = o, !.up2 = Broken]
  BY ClosedMeans
<1>3. /\ c.down2 \in Directions /\ c.up2 \in Directions /\ Broken \in Directions
      /\ Size(c.up2.pieces) \in Nat /\ Size(c.asked) \in Nat
      /\ c.sent \in Nat /\ c.head \in Nat /\ Size(<<>>) = 0
      /\ Broken.pieces = <<>> /\ Broken.end = "reset"
  BY ConnFields, Sockets, Sizes
<1>4. /\ o \in Directions
      /\ (o.pieces = c.down2.pieces /\ (o.end = "reset" => c.down2.pieces = <<>>)) \/ o = Broken
      /\ c.down2.end # "open" => o = c.down2 \/ o = Broken
      /\ c.down2.end = "reset" => o.end = "reset"
  BY <1>2, <1>3, DirectionClosed
<1>5. /\ d \in ConnType /\ d.down2 = o /\ d.up2 = Broken /\ d.server = "closed"
      /\ Same(c, d, {"server", "up2", "down2"})
  BY <1>1, <1>2, <1>3, <1>4 DEF ConnType, Same, ConnParts
<1>6. /\ d.sent = c.sent /\ d.initial = c.initial /\ d.client = c.client /\ d.asked = c.asked
      /\ d.forward = c.forward /\ d.up1 = c.up1 /\ d.thread = c.thread /\ d.head = c.head
      /\ d.down1 = c.down1 /\ d.got = c.got /\ d.answered = c.answered /\ d.token = c.token
  BY <1>5 DEF Same, ConnParts
<1>7. /\ ClientInv(c) /\ ThreadInv(c) /\ HeadInv(c)
      /\ AskedInv(c) /\ UpInv(c) /\ DownInv(c) /\ EndInv(c)
  BY DEF ConnInv
<1>8. ClientInv(d) /\ HeadInv(d)
  BY <1>5, <1>7, Kept
<1>9. c.thread \notin Early
  BY <1>7 DEF ThreadInv
<1>10. ThreadInv(d)
  BY <1>5, <1>6, <1>7, <1>9 DEF ThreadInv
<1>11. AskedInv(d)
  BY <1>3, <1>5, <1>6, <1>7, NothingIsNumbered DEF AskedInv
<1>12. UpInv(d)
  BY <1>3, <1>5 DEF UpInv
<1>13. DownInv(d)
  BY <1>3, <1>4, <1>5, <1>6, <1>7 DEF DownInv
<1>14. EndInv(d)
  BY <1>3, <1>4, <1>5, <1>6, <1>7 DEF EndInv
<1> QED
  BY <1>5, <1>8, <1>10, <1>11, <1>12, <1>13, <1>14 DEF ConnInv

\* The relay drops both sockets, whatever was read and written before.
LEMMA ConnDropped ==
  ASSUME NEW c \in ConnType, ClientInv(c), ThreadInv(c), AskedInv(c), DownInv(c),
         c.client # "none", NEW d \in Dropped(c)
  PROVE  d \in ConnType /\ ConnInv(d)
<1>0. PICK f \in UNION {Closed(e, "up2", "down2") : e \in Closed(c, "down1", "up1")} :
        d = [f EXCEPT !.thread = "over", !.forward = "over"]
  BY DEF Dropped
<1>1. PICK e \in Closed(c, "down1", "up1") : f \in Closed(e, "up2", "down2")
  OBVIOUS
<1>2. PICK o1 : (o1 = Shut(c.down1) \/ o1 = Broken) /\ e = [c EXCEPT !.down1 = o1, !.up1 = Broken]
  BY ClosedMeans
<1>3. PICK o2 : (o2 = Shut(e.up2) \/ o2 = Broken) /\ f = [e EXCEPT !.up2 = o2, !.down2 = Broken]
  BY <1>1, ClosedMeans
<1>4. e.up2 = c.up2
  BY <1>2 DEF ConnType
<1>5. /\ c.down1 \in Directions /\ c.up2 \in Directions /\ Broken \in Directions
      /\ Size(c.up2.pieces) \in Nat /\ Size(c.asked) \in Nat /\ Size(c.down1.pieces) \in Nat
      /\ Size(c.got) \in Nat /\ c.answered \in Nat
      /\ c.sent \in Nat /\ c.head \in Nat /\ Size(<<>>) = 0
      /\ Broken.pieces = <<>> /\ Broken.end = "reset"
  BY ConnFields, Sockets, Sizes
<1>6. /\ o1 \in Directions /\ (o1.pieces = c.down1.pieces \/ o1.pieces = <<>>)
      /\ o2 \in Directions /\ (o2.pieces = c.up2.pieces \/ o2.pieces = <<>>)
  BY <1>2, <1>3, <1>4, <1>5, DirectionClosed
<1>7. /\ d \in ConnType /\ d.down1 = o1 /\ d.up2 = o2 /\ d.up1 = Broken /\ d.down2 = Broken
      /\ d.thread = "over" /\ d.forward = "over"
      /\ Same(c, d, {"thread", "forward", "up1", "up2", "down1", "down2"})
  BY <1>0, <1>2, <1>3, <1>4, <1>5, <1>6 DEF ConnType, Same, ConnParts
<1>8. /\ d.sent = c.sent /\ d.initial = c.initial /\ d.client = c.client /\ d.asked = c.asked
      /\ d.head = c.head /\ d.got = c.got /\ d.answered = c.answered /\ d.token = c.token
      /\ d.server = c.server
  BY <1>7 DEF Same, ConnParts
<1>9. ClientInv(d)
  BY <1>5, <1>7, <1>8 DEF ClientInv
<1>10. ThreadInv(d)
  BY <1>5, <1>7, <1>8 DEF ThreadInv, Early
<1>11. HeadInv(d) /\ UpInv(d)
  BY <1>7 DEF HeadInv, UpInv, Early
<1>12. AskedInv(d)
  BY <1>5, <1>6, <1>7, <1>8, NothingIsNumbered DEF AskedInv
<1>13. DownInv(d)
  BY <1>5, <1>6, <1>7, <1>8, NothingIsNumbered DEF DownInv
<1>14. EndInv(d)
  BY <1>5, <1>7 DEF EndInv
<1> QED
  BY <1>7, <1>9, <1>10, <1>11, <1>12, <1>13, <1>14 DEF ConnInv

\* The server reads a piece.
LEMMA ConnServerReads ==
  ASSUME NEW c \in ConnType, ConnInv(c), c.server = "open", c.up2.pieces # <<>>
  PROVE  LET d == [c EXCEPT !.asked = Append(@, Head(c.up2.pieces)), !.up2.pieces = Tail(@)]
         IN  d \in ConnType /\ ConnInv(d)
<1> DEFINE x == Head(c.up2.pieces)
           s == Tail(c.up2.pieces)
           g == Append(c.asked, x)
           u == [c.up2 EXCEPT !.pieces = s]
           d == [c EXCEPT !.asked = Append(@, Head(c.up2.pieces)), !.up2.pieces = Tail(@)]
<1>1. /\ c.asked \in Sent /\ Size(c.asked) \in Nat /\ c.up2 \in Directions
      /\ c.up2.pieces \in Sent /\ Size(c.up2.pieces) \in Nat /\ c.up2.end # "reset"
      /\ c.head \in Nat
  BY ConnFields, DirectionType
<1>2. d = [c EXCEPT !.asked = g, !.up2 = u]
  BY DEF ConnType
<1>3. /\ ClientInv(c) /\ ThreadInv(c) /\ HeadInv(c)
      /\ AskedInv(c) /\ UpInv(c) /\ DownInv(c) /\ EndInv(c)
  BY DEF ConnInv
<1> HIDE DEF d
<1>4. x \in Nat /\ s \in Sent /\ Size(s) = Size(c.up2.pieces) - 1 /\ g \in Sent
      /\ Size(g) = Size(c.asked) + 1
  BY <1>1, ReadAndWritten
<1>5. Numbered(s, c.head, Size(g)) /\ Numbered(g, c.head, 0)
  <2>1. /\ Numbered(s, c.head, Size(c.asked) + 1) /\ x = Piece(c.head, Size(c.asked) + 1)
        /\ Numbered(c.asked, c.head, 0)
    BY <1>1, <1>3, NumberedTail DEF AskedInv
  <2>2. 0 + Size(c.asked) + 1 = Size(c.asked) + 1
    BY <1>1
  <2> QED
    BY <1>1, <1>4, <2>1, <2>2, NumberedAppend
<1> HIDE DEF x, s, g
<1>6. Size(g) + Size(s) = Size(c.asked) + Size(c.up2.pieces)
  BY <1>1, <1>4
<1>7. u \in Directions /\ u.pieces = s /\ u.end = c.up2.end
  BY <1>1, <1>4, DirectionRead
<1> HIDE DEF u
<1>8. d \in ConnType /\ d.asked = g /\ d.up2 = u /\ Same(c, d, {"asked", "up2"})
  BY <1>2, <1>4, <1>7 DEF ConnType, Same, ConnParts
<1>9. ClientInv(d) /\ HeadInv(d) /\ DownInv(d)
  BY <1>3, <1>8, Kept
<1>10. /\ d.thread = c.thread /\ d.server = c.server /\ d.head = c.head /\ d.sent = c.sent
       /\ d.initial = c.initial /\ d.up1 = c.up1 /\ d.forward = c.forward
       /\ d.down1 = c.down1 /\ d.down2 = c.down2 /\ d.token = c.token
  BY <1>8 DEF Same, ConnParts
<1>11. ThreadInv(d)
  <2>1. c.thread \notin Early
    BY <1>3 DEF ThreadInv
  <2> QED
    BY <1>3, <1>10, <2>1 DEF ThreadInv
<1>12. AskedInv(d)
  BY <1>3, <1>5, <1>6, <1>7, <1>8, <1>10 DEF AskedInv
<1>13. UpInv(d)
  BY <1>3, <1>6, <1>7, <1>8, <1>10 DEF UpInv
<1>14. EndInv(d)
  BY <1>3, <1>7, <1>8, <1>10 DEF EndInv
<1> QED
  BY <1>8, <1>9, <1>11, <1>12, <1>13, <1>14 DEF ConnInv, d

\* The server answers with a piece.
LEMMA ConnServerSends ==
  ASSUME NEW c \in ConnType, ConnInv(c), c.server = "open", HasRoom(c.down2)
  PROVE  LET d == [c EXCEPT !.answered = @ + 1, !.down2.pieces = Append(@, c.answered + 1)]
         IN  d \in ConnType /\ ConnInv(d)
<1> DEFINE x == c.answered + 1
           n == Size(c.got) + Size(c.down1.pieces)
           s == Append(c.down2.pieces, x)
           u == [c.down2 EXCEPT !.pieces = s]
           d == [c EXCEPT !.answered = @ + 1, !.down2.pieces = Append(@, c.answered + 1)]
<1>1. /\ c.answered \in Nat /\ c.down2 \in Directions /\ c.down2.end = "open"
      /\ c.down2.pieces \in Sent /\ Size(c.down2.pieces) \in Nat
      /\ Size(c.got) \in Nat /\ Size(c.down1.pieces) \in Nat /\ c.token \in BOOLEAN
  BY ConnFields DEF HasRoom
<1>2. x \in Nat /\ n \in Nat
  BY <1>1
<1>3. d = [c EXCEPT !.answered = x, !.down2 = u]
  BY DEF ConnType
<1>4. /\ ClientInv(c) /\ ThreadInv(c) /\ HeadInv(c)
      /\ AskedInv(c) /\ UpInv(c) /\ DownInv(c) /\ EndInv(c)
  BY DEF ConnInv
<1>5. c.token
  BY <1>4 DEF ThreadInv
<1>6. /\ n <= c.answered
      /\ c.down1.end # "reset" => Numbered(c.down2.pieces, 0, n) /\ n + Size(c.down2.pieces) = c.answered
  BY <1>1, <1>4, <1>5 DEF DownInv
<1> HIDE DEF d, n
<1>7. s \in Sent /\ Size(s) = Size(c.down2.pieces) + 1
  BY <1>1, <1>2 DEF Sent, Size
<1>8. c.down1.end # "reset" => Numbered(s, 0, n)
  <2>1. ASSUME c.down1.end # "reset" PROVE x = Piece(0, n + Size(c.down2.pieces) + 1)
    BY <1>6, <2>1 DEF Piece
  <2> HIDE DEF x
  <2> QED
    BY <1>1, <1>2, <1>6, <2>1, NumberedAppend
<1> HIDE DEF x, s
<1>9. u \in Directions /\ u.pieces = s /\ u.end = "open"
  BY <1>1, <1>7, DirectionRead
<1> HIDE DEF u
<1>10. d \in ConnType /\ d.answered = x /\ d.down2 = u /\ Same(c, d, {"answered", "down2"})
  BY <1>2, <1>3, <1>9 DEF ConnType, Same, ConnParts
<1>11. ClientInv(d) /\ HeadInv(d) /\ AskedInv(d) /\ UpInv(d)
  BY <1>4, <1>10, Kept
<1>12. /\ d.thread = c.thread /\ d.server = c.server /\ d.token = c.token /\ d.got = c.got
       /\ d.initial = c.initial /\ d.up1 = c.up1 /\ d.forward = c.forward
       /\ d.down1 = c.down1 /\ d.up2 = c.up2
  BY <1>10 DEF Same, ConnParts
<1>13. ThreadInv(d)
  <2>1. c.thread \notin Early
    BY <1>4 DEF ThreadInv
  <2> QED
    BY <1>4, <1>12, <2>1 DEF ThreadInv
<1>14. DownInv(d)
  <2>1. d.down2.pieces = s /\ d.down2.end = "open" /\ d.answered = c.answered + 1
    BY <1>9, <1>10 DEF x
  <2>2. n = Size(d.got) + Size(d.down1.pieces)
    BY <1>12 DEF n
  <2>3. n <= d.answered /\ (c.down1.end # "reset" => n + Size(s) = d.answered)
    BY <1>1, <1>2, <1>6, <1>7, <2>1
  <2> QED
    BY <1>4, <1>5, <1>8, <1>12, <2>1, <2>2, <2>3 DEF DownInv
<1>15. EndInv(d)
  BY <1>1, <1>4, <1>10, <1>12 DEF EndInv
<1> QED
  BY <1>10, <1>11, <1>13, <1>14, <1>15 DEF ConnInv, d

\* A connection gets its thread.
LEMMA ConnAccepted ==
  ASSUME NEW c \in ConnType, ConnInv(c), c.thread = "backlog"
  PROVE  LET d == [c EXCEPT !.thread = "headers"] IN d \in ConnType /\ ConnInv(d)
<1> DEFINE d == [c EXCEPT !.thread = "headers"]
<1>1. d \in ConnType /\ d.thread = "headers" /\ Same(c, d, {"thread"})
  BY DEF ConnType, Same, ConnParts
<1> HIDE DEF d
<1>2. /\ ClientInv(c) /\ ThreadInv(c) /\ HeadInv(c)
      /\ AskedInv(c) /\ UpInv(c) /\ DownInv(c) /\ EndInv(c)
  BY DEF ConnInv
<1>3. /\ d.client = c.client /\ d.head = c.head /\ d.token = c.token /\ d.sent = c.sent
      /\ d.got = c.got /\ d.forward = c.forward /\ d.initial = c.initial
      /\ d.server = c.server /\ d.up1 = c.up1 /\ d.up2 = c.up2
      /\ d.down1 = c.down1 /\ d.down2 = c.down2
  BY <1>1 DEF Same, ConnParts
<1>4. AskedInv(d) /\ DownInv(d)
  BY <1>1, <1>2, Kept
<1>5. ClientInv(d) /\ HeadInv(d)
  BY <1>1, <1>2, <1>3 DEF ClientInv, HeadInv, Early
<1>6. ThreadInv(d) /\ UpInv(d) /\ EndInv(d)
  BY <1>1, <1>2, <1>3 DEF ThreadInv, UpInv, EndInv, Early
<1> QED
  BY <1>1, <1>4, <1>5, <1>6 DEF ConnInv, d

\* The listener is closed before a connection was accepted.
LEMMA ConnRefused ==
  ASSUME NEW c \in ConnType, ConnInv(c), c.thread = "backlog"
  PROVE  LET d == [c EXCEPT !.thread = "over", !.forward = "over",
                            !.up1 = Broken, !.down1 = Broken]
         IN  d \in ConnType /\ ConnInv(d)
<1> DEFINE d == [c EXCEPT !.thread = "over", !.forward = "over",
                          !.up1 = Broken, !.down1 = Broken]
<1>1. /\ d \in ConnType /\ d.thread = "over" /\ d.forward = "over"
      /\ d.up1 = Broken /\ d.down1 = Broken
      /\ Same(c, d, {"thread", "forward", "up1", "down1"})
  BY Sockets DEF ConnType, Same, ConnParts
<1> HIDE DEF d
<1>2. /\ ClientInv(c) /\ ThreadInv(c) /\ HeadInv(c)
      /\ AskedInv(c) /\ UpInv(c) /\ DownInv(c) /\ EndInv(c)
  BY DEF ConnInv
<1>3. /\ d.client = c.client /\ d.token = c.token /\ d.sent = c.sent /\ d.got = c.got
      /\ d.server = c.server /\ d.down2 = c.down2 /\ d.answered = c.answered
  BY <1>1 DEF Same, ConnParts
<1>4. /\ Broken.pieces = <<>> /\ Broken.end = "reset" /\ Size(<<>>) = 0 /\ c.answered \in Nat
  BY Sockets, Sizes, ConnFields
<1>5. AskedInv(d)
  BY <1>1, <1>2, Kept
<1>6. ClientInv(d) /\ ThreadInv(d) /\ HeadInv(d) /\ UpInv(d) /\ EndInv(d)
  BY <1>1, <1>2, <1>3, <1>4 DEF ClientInv, ThreadInv, HeadInv, UpInv, EndInv, Early
<1>7. DownInv(d)
  <2>1. c.got = <<>>
    BY <1>2 DEF HeadInv, Early
  <2> QED
    BY <1>1, <1>2, <1>3, <1>4, <2>1, NothingIsNumbered DEF DownInv
<1> QED
  BY <1>1, <1>5, <1>6, <1>7 DEF ConnInv, d

\* A part of the head is read.
LEMMA ConnReads ==
  ASSUME NEW c \in ConnType, ConnInv(c), c.thread = "headers",
         NEW n \in 1 .. Len(c.up1.pieces)
  PROVE  LET d == [c EXCEPT !.initial = @ \o SubSeq(c.up1.pieces, 1, n),
                            !.up1.pieces = SubSeq(@, n + 1, Len(@))]
         IN  d \in ConnType /\ ConnInv(d) /\ d.thread = "headers" /\ d.client # "none"
<1> DEFINE p == SubSeq(c.up1.pieces, 1, n)
           s == SubSeq(c.up1.pieces, n + 1, Len(c.up1.pieces))
           i == c.initial \o p
           u == [c.up1 EXCEPT !.pieces = s]
           d == [c EXCEPT !.initial = @ \o SubSeq(c.up1.pieces, 1, n),
                          !.up1.pieces = SubSeq(@, n + 1, Len(@))]
<1>1. /\ c.initial \in Sent /\ Size(c.initial) \in Nat /\ c.up1 \in Directions
      /\ c.up1.pieces \in Sent /\ Size(c.up1.pieces) \in Nat /\ c.sent \in Nat
  BY ConnFields
<1>2. n \in Nat /\ n \in 0 .. Size(c.up1.pieces) /\ n <= Size(c.up1.pieces) /\ c.up1.pieces # <<>>
  <2>1. n \in 1 .. Size(c.up1.pieces)
    BY DEF Size
  <2>2. n \in Nat /\ n \in 0 .. Size(c.up1.pieces) /\ n <= Size(c.up1.pieces)
        /\ Size(c.up1.pieces) # 0
    BY <1>1, <2>1
  <2> QED
    BY <2>2, Sizes
<1>3. c.up1.end # "reset"
  BY <1>1, <1>2, DirectionType
<1>4. /\ ClientInv(c) /\ ThreadInv(c) /\ HeadInv(c)
      /\ AskedInv(c) /\ UpInv(c) /\ DownInv(c) /\ EndInv(c)
  BY DEF ConnInv
<1>5. /\ Size(c.initial) + Size(c.up1.pieces) = c.sent /\ Numbered(c.initial, 0, 0)
      /\ c.got = <<>> /\ c.down1.pieces = <<>>
  BY <1>3, <1>4 DEF HeadInv, Early
<1>6. Numbered(c.up1.pieces, 0, Size(c.initial))
  <2>1. c.sent - Size(c.up1.pieces) = Size(c.initial)
    BY <1>1, <1>5
  <2> QED
    BY <1>3, <1>4, <2>1 DEF ClientInv
<1>7. d = [c EXCEPT !.initial = i, !.up1 = u]
  BY DEF ConnType
<1> HIDE DEF d
<1>8. /\ p \in Sent /\ Size(p) = n /\ Numbered(p, 0, Size(c.initial))
      /\ s \in Sent /\ Size(s) = Size(c.up1.pieces) - n
      /\ Numbered(s, 0, Size(c.initial) + n)
  <2>1. Size(c.up1.pieces) = Len(c.up1.pieces)
    BY DEF Size
  <2> QED
    BY <1>1, <1>2, <1>6, <2>1, NumberedSplit
<1> HIDE DEF p, s
<1>9. i \in Sent /\ Size(i) = Size(c.initial) + n /\ Numbered(i, 0, 0)
  <2>1. 0 + Size(c.initial) = Size(c.initial)
    BY <1>1
  <2> QED
    BY <1>1, <1>5, <1>8, <2>1, NumberedConcat
<1> HIDE DEF i
<1>10. u \in Directions /\ u.pieces = s /\ u.end = c.up1.end
  BY <1>1, <1>3, <1>8, DirectionRead
<1> HIDE DEF u
<1>11. d \in ConnType /\ d.initial = i /\ d.up1 = u /\ Same(c, d, {"initial", "up1"})
  BY <1>7, <1>9, <1>10 DEF ConnType, Same, ConnParts
<1>12. /\ d.client = c.client /\ d.head = c.head /\ d.token = c.token /\ d.sent = c.sent
       /\ d.got = c.got /\ d.thread = c.thread /\ d.forward = c.forward
       /\ d.server = c.server /\ d.up2 = c.up2 /\ d.down1 = c.down1 /\ d.down2 = c.down2
  BY <1>11 DEF Same, ConnParts
<1>13. AskedInv(d) /\ DownInv(d)
  BY <1>4, <1>11, Kept
<1>14. /\ Size(i) + Size(s) = d.sent /\ Size(i) <= d.sent
       /\ d.sent - Size(s) = Size(c.initial) + n /\ Size(s) <= d.sent
  BY <1>1, <1>2, <1>5, <1>8, <1>9, <1>12
<1>15. ClientInv(d)
  BY <1>4, <1>8, <1>10, <1>11, <1>12, <1>14 DEF ClientInv
<1>16. HeadInv(d)
  BY <1>5, <1>9, <1>10, <1>11, <1>12, <1>14 DEF HeadInv, Early
<1>17. ThreadInv(d) /\ UpInv(d) /\ EndInv(d)
  BY <1>4, <1>11, <1>12 DEF ThreadInv, UpInv, EndInv, Early
<1>18. d.thread = "headers" /\ d.client # "none"
  BY <1>4, <1>12 DEF ClientInv
<1> QED
  BY <1>11, <1>13, <1>15, <1>16, <1>17, <1>18 DEF ConnInv, d

\* What becomes of a connection by what was read of its head.
LEMMA ConnHeadRead ==
  ASSUME NEW c \in ConnType, ConnInv(c), c.thread = "headers", c.client # "none",
         NEW d \in HeadRead(c)
  PROVE  d \in ConnType /\ ConnInv(d)
<1>1. /\ ClientInv(c) /\ ThreadInv(c) /\ HeadInv(c)
      /\ AskedInv(c) /\ UpInv(c) /\ DownInv(c) /\ EndInv(c)
  BY DEF ConnInv
<1>2. CASE d \in Dropped(c)
  BY <1>1, <1>2, ConnDropped
<1>3. CASE d = c
  BY <1>3
<1>4. CASE ~(Len(c.initial) < c.head) /\ c.token /\ d = [c EXCEPT !.thread = "connect"]
  <2>1. d \in ConnType /\ d.thread = "connect" /\ Same(c, d, {"thread"})
    BY <1>4 DEF ConnType, Same, ConnParts
  <2>2. c.head <= Size(c.initial)
    <3>1. ~(Size(c.initial) < c.head)
      BY <1>4 DEF Size
    <3> QED
      BY <3>1, ConnFields
  <2>3. /\ d.client = c.client /\ d.head = c.head /\ d.token = c.token /\ d.sent = c.sent
        /\ d.got = c.got /\ d.forward = c.forward /\ d.initial = c.initial
        /\ d.server = c.server /\ d.up1 = c.up1 /\ d.up2 = c.up2
        /\ d.down1 = c.down1 /\ d.down2 = c.down2
    BY <2>1 DEF Same, ConnParts
  <2>4. AskedInv(d) /\ DownInv(d)
    BY <1>1, <2>1, Kept
  <2>5. ClientInv(d) /\ HeadInv(d)
    BY <1>1, <2>1, <2>2, <2>3 DEF ClientInv, HeadInv, Early
  <2>6. ThreadInv(d)
    BY <1>1, <1>4, <2>1, <2>3 DEF ThreadInv, Early
  <2>7. UpInv(d) /\ EndInv(d)
    BY <1>1, <2>1, <2>3 DEF UpInv, EndInv
  <2> QED
    BY <2>1, <2>4, <2>5, <2>6, <2>7 DEF ConnInv
<1>5. CASE ~c.token /\ d \in Dropped([c EXCEPT !.down1 = Written(@, Unauthorized)])
  <2> DEFINE e == [c EXCEPT !.down1 = Written(@, Unauthorized)]
  <2>1. c.down1 \in Directions /\ Unauthorized \in Nat
    BY ConnFields DEF Unauthorized
  <2>2. /\ Written(c.down1, Unauthorized) \in Directions
        /\ \/ Written(c.down1, Unauthorized) = c.down1
           \/ Written(c.down1, Unauthorized).pieces = Append(c.down1.pieces, Unauthorized)
    BY <2>1, DirectionWritten
  <2>3. /\ e \in ConnType /\ e.down1 = Written(c.down1, Unauthorized)
        /\ Same(c, e, {"down1"})
    BY <2>2 DEF ConnType, Same, ConnParts
  <2>4. d \in Dropped(e)
    BY <1>5
  <2> HIDE DEF e
  <2>5. /\ e.client = c.client /\ e.token = c.token /\ e.got = c.got
        /\ e.server = c.server /\ e.answered = c.answered /\ e.down2 = c.down2
    BY <2>3 DEF Same, ConnParts
  <2>6. ClientInv(e) /\ ThreadInv(e) /\ AskedInv(e)
    BY <1>1, <2>3, Kept
  <2>7. c.got = <<>> /\ c.down1.pieces = <<>>
    BY <1>1 DEF HeadInv, Early
  <2>8. e.down1.pieces = <<>> \/ e.down1.pieces = <<Unauthorized>>
    BY <2>1, <2>2, <2>3, <2>7, One
  <2>9. DownInv(e)
    BY <1>1, <1>5, <2>5, <2>7, <2>8 DEF DownInv
  <2> QED
    BY <2>3, <2>4, <2>5, <2>6, <2>9, ConnDropped
<1> QED
  BY <1>2, <1>3, <1>4, <1>5 DEF HeadRead

\* The server is there: the rewritten head is to be sent.
LEMMA ConnConnected ==
  ASSUME NEW c \in ConnType, ConnInv(c), c.thread = "connect"
  PROVE  LET d == [c EXCEPT !.thread = "send", !.server = "open",
                            !.initial = Rewritten(c.initial, c.head)]
         IN  d \in ConnType /\ ConnInv(d)
<1> DEFINE i == Rewritten(c.initial, c.head)
           d == [c EXCEPT !.thread = "send", !.server = "open",
                          !.initial = Rewritten(c.initial, c.head)]
<1>1. /\ ClientInv(c) /\ ThreadInv(c) /\ HeadInv(c)
      /\ AskedInv(c) /\ UpInv(c) /\ DownInv(c) /\ EndInv(c)
  BY DEF ConnInv
<1>2. /\ c.initial \in Sent /\ Size(c.initial) \in Nat /\ c.head \in Nat \ {0} /\ c.sent \in Nat
      /\ Size(c.up1.pieces) \in Nat
  BY ConnFields
<1>3. /\ Numbered(c.initial, 0, 0) /\ Size(c.initial) <= c.sent /\ c.head <= Size(c.initial)
      /\ c.up1.end # "reset" => Size(c.initial) + Size(c.up1.pieces) = c.sent
  BY <1>1 DEF HeadInv, Early
<1>4. i \in Sent /\ Size(i) = Size(c.initial) - c.head + 1 /\ Numbered(i, c.head, 0)
  BY <1>2, <1>3, NumberedRewritten
<1>5. d = [c EXCEPT !.thread = "send", !.server = "open", !.initial = i]
  OBVIOUS
<1> HIDE DEF i, d
<1>6. /\ d \in ConnType /\ d.thread = "send" /\ d.server = "open" /\ d.initial = i
      /\ Same(c, d, {"thread", "server", "initial"})
  BY <1>4, <1>5 DEF ConnType, Same, ConnParts
<1>7. /\ d.client = c.client /\ d.head = c.head /\ d.token = c.token /\ d.sent = c.sent
      /\ d.got = c.got /\ d.forward = c.forward /\ d.asked = c.asked
      /\ d.answered = c.answered /\ d.up1 = c.up1 /\ d.up2 = c.up2
      /\ d.down1 = c.down1 /\ d.down2 = c.down2
  BY <1>6 DEF Same, ConnParts
<1>8. /\ c.server = "none" /\ c.forward = "none" /\ c.token
      /\ c.asked = <<>> /\ c.up2.pieces = <<>>
  BY <1>1 DEF ThreadInv, AskedInv, Early
<1>9. Size(<<>>) = 0
  BY Sizes
<1>10. ClientInv(d) /\ ThreadInv(d) /\ EndInv(d)
  BY <1>1, <1>6, <1>7, <1>8 DEF ClientInv, ThreadInv, EndInv, Early
<1>11. HeadInv(d) /\ DownInv(d)
  BY <1>1, <1>6, <1>7, <1>8 DEF HeadInv, DownInv, Early
<1>12. AskedInv(d)
  <2>1. d.head <= d.sent /\ 0 <= d.sent - d.head + 1
    BY <1>2, <1>3, <1>7
  <2> QED
    BY <1>6, <1>7, <1>8, <1>9, <2>1, NothingIsNumbered DEF AskedInv
<1>13. UpInv(d)
  <2>1. Size(d.asked) + Size(d.up2.pieces) = 0
    BY <1>7, <1>8, <1>9
  <2>2. /\ 1 <= 0 + Size(i) /\ 0 + Size(i) <= d.sent - d.head + 1
        /\ d.up1.end # "reset" => 0 + Size(i) + Size(d.up1.pieces) = d.sent - d.head + 1
    BY <1>2, <1>3, <1>4, <1>7
  <2> QED
    BY <1>4, <1>6, <1>7, <2>1, <2>2 DEF UpInv
<1> QED
  BY <1>6, <1>10, <1>11, <1>12, <1>13 DEF ConnInv, d

\* A piece of the head is written, or lost if the server has left.
LEMMA ConnHeadSent ==
  ASSUME NEW c \in ConnType, ConnInv(c), c.thread = "send", c.initial # <<>>, IsWritable(c.up2)
  PROVE  LET d == [c EXCEPT !.initial = Tail(@), !.up2 = Written(@, Head(c.initial))]
         IN  d \in ConnType /\ ConnInv(d)
<1> DEFINE x == Head(c.initial)
           i == Tail(c.initial)
           u == Written(c.up2, x)
           n == Size(c.asked) + Size(c.up2.pieces)
           d == [c EXCEPT !.initial = Tail(@), !.up2 = Written(@, Head(c.initial))]
<1>1. /\ ClientInv(c) /\ ThreadInv(c) /\ HeadInv(c)
      /\ AskedInv(c) /\ UpInv(c) /\ DownInv(c) /\ EndInv(c)
  BY DEF ConnInv
<1>2. /\ c.initial \in Sent /\ Size(c.initial) \in Nat /\ c.head \in Nat \ {0} /\ c.sent \in Nat
      /\ Size(c.up1.pieces) \in Nat /\ c.up2 \in Directions /\ c.up2.pieces \in Sent
      /\ Size(c.asked) \in Nat /\ Size(c.up2.pieces) \in Nat
  BY ConnFields
<1>3. c.server # "none" /\ c.thread \notin Early
  BY <1>1 DEF ThreadInv, Early
<1>4. d = [c EXCEPT !.initial = i, !.up2 = u]
  BY DEF ConnType
<1> HIDE DEF d
<1>5. x \in Nat /\ i \in Sent /\ Size(i) = Size(c.initial) - 1
  BY <1>2, ReadAndWritten
<1>6. u \in Directions /\ u.end = c.up2.end /\ (c.up2.end # "open" => u = c.up2)
  BY <1>2, <1>5, DirectionWritten
<1>7. c.up2.end = "open" \/ c.up2.end = "reset"
  BY DEF IsWritable, HasRoom
<1>8. /\ d \in ConnType /\ d.initial = i /\ d.up2 = u /\ Same(c, d, {"initial", "up2"})
  BY <1>4, <1>5, <1>6 DEF ConnType, Same, ConnParts
<1>9. /\ d.thread = c.thread /\ d.server = c.server /\ d.head = c.head /\ d.sent = c.sent
      /\ d.asked = c.asked /\ d.up1 = c.up1 /\ d.forward = c.forward
      /\ d.down1 = c.down1 /\ d.down2 = c.down2 /\ d.token = c.token
  BY <1>8 DEF Same, ConnParts
<1>10. n \in Nat /\ n = Size(d.asked) + Size(c.up2.pieces)
  BY <1>2, <1>9
<1>11. ASSUME c.up2.end = "open"
       PROVE  /\ Numbered(u.pieces, c.head, Size(c.asked)) /\ Size(u.pieces) = Size(c.up2.pieces) + 1
              /\ Numbered(i, c.head, n + 1)
              /\ 1 <= n + Size(c.initial) /\ n + Size(c.initial) <= c.sent - c.head + 1
              /\ c.up1.end # "reset" =>
                   n + Size(c.initial) + Size(c.up1.pieces) = c.sent - c.head + 1
  <2>1. /\ Numbered(c.initial, c.head, n)
        /\ 1 <= n + Size(c.initial) /\ n + Size(c.initial) <= c.sent - c.head + 1
        /\ c.up1.end # "reset" => n + Size(c.initial) + Size(c.up1.pieces) = c.sent - c.head + 1
    BY <1>1, <1>11 DEF UpInv
  <2> HIDE DEF n
  <2>2. Numbered(i, c.head, n + 1) /\ x = Piece(c.head, n + 1)
    BY <1>2, <1>10, <2>1, NumberedTail
  <2>3. x = Piece(c.head, Size(c.asked) + Size(c.up2.pieces) + 1)
    BY <2>2 DEF n
  <2>4. Numbered(c.up2.pieces, c.head, Size(c.asked))
    BY <1>1, <1>3 DEF AskedInv
  <2>5. u.pieces = Append(c.up2.pieces, x)
    BY <1>2, <1>5, <1>11, DirectionWritten
  <2> HIDE DEF x, u, i
  <2>6. /\ Numbered(Append(c.up2.pieces, x), c.head, Size(c.asked))
        /\ Size(Append(c.up2.pieces, x)) = Size(c.up2.pieces) + 1
    BY <1>2, <1>5, <2>3, <2>4, NumberedAppend
  <2> QED
    BY <2>1, <2>2, <2>5, <2>6
<1> HIDE DEF x, i, u
<1>12. ClientInv(d) /\ DownInv(d)
  BY <1>1, <1>8, Kept
<1>13. ThreadInv(d) /\ HeadInv(d) /\ EndInv(d)
  BY <1>1, <1>3, <1>6, <1>8, <1>9 DEF ThreadInv, HeadInv, EndInv
<1>14. CASE c.up2.end = "open"
  <2>1. Size(d.up2.pieces) = Size(c.up2.pieces) + 1 /\ Size(d.asked) = Size(c.asked)
        /\ Size(d.initial) = Size(c.initial) - 1
    BY <1>5, <1>8, <1>9, <1>11, <1>14
  <2>2. Size(d.asked) + Size(d.up2.pieces) = n + 1
    BY <1>2, <2>1
  <2> HIDE DEF n
  <2>3. /\ n + 1 <= d.sent - d.head + 1
        /\ 1 <= n + 1 + Size(d.initial) /\ n + 1 + Size(d.initial) <= d.sent - d.head + 1
        /\ d.up1.end # "reset" =>
             n + 1 + Size(d.initial) + Size(d.up1.pieces) = d.sent - d.head + 1
    <3>1. Size(c.initial) > 0
      BY <1>2, Sizes
    <3>2. /\ d.sent = c.sent /\ d.head = c.head /\ d.up1 = c.up1
          /\ Size(d.initial) = Size(c.initial) - 1
      BY <1>9, <2>1
    <3>3. /\ 1 <= n + Size(c.initial) /\ n + Size(c.initial) <= c.sent - c.head + 1
          /\ c.up1.end # "reset" =>
               n + Size(c.initial) + Size(c.up1.pieces) = c.sent - c.head + 1
      BY <1>11, <1>14
    <3>4. /\ n \in Nat /\ Size(c.initial) \in Nat /\ Size(c.up1.pieces) \in Nat
          /\ c.sent \in Nat /\ c.head \in Nat
      BY <1>2, <1>10
    <3>5. /\ n + 1 <= c.sent - c.head + 1
          /\ 1 <= n + 1 + (Size(c.initial) - 1)
          /\ n + 1 + (Size(c.initial) - 1) <= c.sent - c.head + 1
      BY <3>1, <3>3, <3>4
    <3>6. c.up1.end # "reset" =>
            n + 1 + (Size(c.initial) - 1) + Size(c.up1.pieces) = c.sent - c.head + 1
      BY <3>3, <3>4
    <3> QED
      BY <3>2, <3>5, <3>6
  <2>4. AskedInv(d)
    BY <1>1, <1>3, <1>8, <1>9, <1>11, <1>14, <2>2, <2>3 DEF AskedInv
  <2>5. UpInv(d)
    BY <1>8, <1>9, <1>11, <1>14, <2>2, <2>3 DEF UpInv
  <2> QED
    BY <1>8, <1>12, <1>13, <2>4, <2>5 DEF ConnInv, d
<1>15. CASE c.up2.end = "reset"
  <2>1. d.up2 = c.up2
    BY <1>6, <1>8, <1>15
  <2>2. AskedInv(d) /\ UpInv(d)
    BY <1>1, <1>9, <1>15, <2>1 DEF AskedInv, UpInv
  <2> QED
    BY <1>8, <1>12, <1>13, <2>2 DEF ConnInv, d
<1> QED
  BY <1>7, <1>14, <1>15

\* The head is sent: both directions are copied.
LEMMA ConnHeadIsSent ==
  ASSUME NEW c \in ConnType, ConnInv(c), c.thread = "send", c.initial = <<>>
  PROVE  LET d == [c EXCEPT !.thread = "copy", !.forward = "copy"] IN d \in ConnType /\ ConnInv(d)
<1> DEFINE d == [c EXCEPT !.thread = "copy", !.forward = "copy"]
<1>1. d \in ConnType /\ d.thread = "copy" /\ d.forward = "copy" /\ Same(c, d, {"thread", "forward"})
  BY DEF ConnType, Same, ConnParts
<1> HIDE DEF d
<1>2. /\ ClientInv(c) /\ ThreadInv(c) /\ HeadInv(c)
      /\ AskedInv(c) /\ UpInv(c) /\ DownInv(c) /\ EndInv(c)
  BY DEF ConnInv
<1>3. /\ d.client = c.client /\ d.head = c.head /\ d.token = c.token /\ d.sent = c.sent
      /\ d.got = c.got /\ d.asked = c.asked /\ d.initial = c.initial
      /\ d.server = c.server /\ d.up1 = c.up1 /\ d.up2 = c.up2
      /\ d.down1 = c.down1 /\ d.down2 = c.down2
  BY <1>1 DEF Same, ConnParts
<1>4. AskedInv(d) /\ DownInv(d)
  BY <1>1, <1>2, Kept
<1>5. ClientInv(d) /\ ThreadInv(d) /\ HeadInv(d)
  BY <1>1, <1>2, <1>3 DEF ClientInv, ThreadInv, HeadInv, Early
<1>6. UpInv(d) /\ EndInv(d)
  BY <1>1, <1>2, <1>3 DEF UpInv, EndInv
<1> QED
  BY <1>1, <1>4, <1>5, <1>6 DEF ConnInv, d

\* A piece is copied forth.
LEMMA ConnCopiesForth ==
  ASSUME NEW c \in ConnType, ConnInv(c), c.forward = "copy",
         c.up1.pieces # <<>>, IsWritable(c.up2)
  PROVE  Passed(c, "up1", "up2") \in ConnType /\ ConnInv(Passed(c, "up1", "up2"))
<1> DEFINE x == Head(c.up1.pieces)
           s == Tail(c.up1.pieces)
           v == [c.up1 EXCEPT !.pieces = s]
           u == Written(c.up2, x)
           m == Size(c.asked) + Size(c.up2.pieces)
           d == Passed(c, "up1", "up2")
<1>1. /\ ClientInv(c) /\ ThreadInv(c) /\ HeadInv(c)
      /\ AskedInv(c) /\ UpInv(c) /\ DownInv(c) /\ EndInv(c)
  BY DEF ConnInv
<1>2. /\ c.head \in Nat \ {0} /\ c.sent \in Nat
      /\ c.up1 \in Directions /\ c.up1.pieces \in Sent /\ Size(c.up1.pieces) \in Nat
      /\ c.up2 \in Directions /\ c.up2.pieces \in Sent
      /\ Size(c.asked) \in Nat /\ Size(c.up2.pieces) \in Nat
  BY ConnFields
<1>3. /\ c.thread \in {"copy", "join"} /\ c.thread \notin Early /\ c.initial = <<>>
      /\ c.server # "none" /\ c.up1.end # "reset" /\ Size(<<>>) = 0 /\ Size(c.up1.pieces) > 0
  BY <1>1, <1>2, DirectionType, Sizes DEF ThreadInv, Early
<1>4. d = [c EXCEPT !.up2 = u, !.up1 = v]
  BY DEF ConnType, Passed
<1> HIDE DEF d
<1>5. x \in Nat /\ s \in Sent /\ Size(s) = Size(c.up1.pieces) - 1
  BY <1>2, ReadAndWritten
<1>6. u \in Directions /\ u.end = c.up2.end /\ (c.up2.end # "open" => u = c.up2)
  BY <1>2, <1>5, DirectionWritten
<1>7. c.up2.end = "open" \/ c.up2.end = "reset"
  BY DEF IsWritable, HasRoom
<1>8. PICK n \in Nat : /\ n = c.sent - Size(c.up1.pieces) /\ Numbered(c.up1.pieces, 0, n)
                       /\ Size(c.up1.pieces) <= c.sent
  BY <1>1, <1>2, <1>3 DEF ClientInv
<1>9. Numbered(s, 0, n + 1) /\ x = Piece(0, n + 1)
  BY <1>2, <1>8, NumberedTail
<1>10. v \in Directions /\ v.pieces = s /\ v.end = c.up1.end
  BY <1>2, <1>3, <1>5, DirectionRead
<1>11. ASSUME c.up2.end = "open"
       PROVE  /\ Numbered(u.pieces, c.head, Size(c.asked)) /\ Size(u.pieces) = Size(c.up2.pieces) + 1
              /\ 1 <= m /\ m + Size(c.up1.pieces) = c.sent - c.head + 1
  <2>1. 1 <= m + Size(c.initial) /\ m + Size(c.initial) + Size(c.up1.pieces) = c.sent - c.head + 1
    BY <1>1, <1>3, <1>11 DEF UpInv
  <2>2. m \in Nat /\ 1 <= m /\ m + Size(c.up1.pieces) = c.sent - c.head + 1
    BY <1>2, <1>3, <2>1
  <2>3. n + 1 = c.head - 1 + (m + 1) /\ m + 1 # 1 /\ c.head # 0
    <3> HIDE DEF m, x, s, u, v
    <3>1. n = c.sent - Size(c.up1.pieces)
      BY <1>8
    <3>2. /\ c.head \in Nat /\ c.head # 0 /\ c.sent \in Nat /\ Size(c.up1.pieces) \in Nat
      BY <1>2
    <3>3. \A sent, size, before, head \in Nat :
            /\ 1 <= before /\ before + size = sent - head + 1 /\ head # 0
            => sent - size + 1 = head - 1 + (before + 1) /\ before + 1 # 1
      OBVIOUS
    <3>4. c.sent - Size(c.up1.pieces) + 1 = c.head - 1 + (m + 1) /\ m + 1 # 1
      BY <2>2, <3>2, <3>3
    <3>5. n + 1 = c.head - 1 + (m + 1)
      BY <3>1, <3>4
    <3> QED
      BY <3>2, <3>4, <3>5
  <2> HIDE DEF x, m
  <2>4. x = Piece(c.head, m + 1)
    BY <1>9, <2>3 DEF Piece
  <2>5. x = Piece(c.head, Size(c.asked) + Size(c.up2.pieces) + 1)
    BY <2>4 DEF m
  <2>6. Numbered(c.up2.pieces, c.head, Size(c.asked))
    BY <1>1, <1>3 DEF AskedInv
  <2>7. u.pieces = Append(c.up2.pieces, x)
    BY <1>2, <1>5, <1>11, DirectionWritten
  <2>8. /\ Numbered(Append(c.up2.pieces, x), c.head, Size(c.asked))
        /\ Size(Append(c.up2.pieces, x)) = Size(c.up2.pieces) + 1
    BY <1>2, <1>5, <2>5, <2>6, NumberedAppend
  <2> QED
    BY <2>2, <2>7, <2>8
<1> HIDE DEF x, s, u, v
<1>12. /\ d \in ConnType /\ d.up1 = v /\ d.up2 = u /\ Same(c, d, {"up1", "up2"})
  BY <1>4, <1>6, <1>10 DEF ConnType, Same, ConnParts
<1>13. /\ d.thread = c.thread /\ d.server = c.server /\ d.head = c.head /\ d.sent = c.sent
       /\ d.asked = c.asked /\ d.initial = c.initial /\ d.forward = c.forward
       /\ d.down1 = c.down1 /\ d.down2 = c.down2 /\ d.token = c.token /\ d.client = c.client
  BY <1>12 DEF Same, ConnParts
<1>14. DownInv(d)
  BY <1>1, <1>12, Kept
<1>15. ClientInv(d)
  <2>1. d.sent - Size(s) = n + 1 /\ Size(s) <= d.sent
    BY <1>2, <1>5, <1>8, <1>13
  <2> QED
    BY <1>1, <1>9, <1>10, <1>12, <1>13, <2>1 DEF ClientInv
<1>16. ThreadInv(d) /\ HeadInv(d) /\ EndInv(d)
  BY <1>1, <1>3, <1>12, <1>13 DEF ThreadInv, HeadInv, EndInv
<1>17. CASE c.up2.end = "open"
  <2>1. Size(d.up2.pieces) = Size(c.up2.pieces) + 1 /\ Size(d.asked) = Size(c.asked)
        /\ Size(d.up1.pieces) = Size(c.up1.pieces) - 1
    BY <1>5, <1>10, <1>11, <1>12, <1>13, <1>17
  <2>2. m \in Nat /\ Size(d.asked) + Size(d.up2.pieces) = m + 1
    BY <1>2, <2>1
  <2> HIDE DEF m
  <2>3. /\ m + 1 <= d.sent - d.head + 1 /\ 1 <= m + 1 + 0 /\ m + 1 + 0 <= d.sent - d.head + 1
        /\ m + 1 + 0 + Size(d.up1.pieces) = d.sent - d.head + 1
    BY <1>2, <1>3, <1>11, <1>13, <1>17, <2>1, <2>2
  <2>4. AskedInv(d)
    BY <1>1, <1>3, <1>11, <1>12, <1>13, <1>17, <2>2, <2>3 DEF AskedInv
  <2>5. UpInv(d)
    BY <1>3, <1>13, <2>2, <2>3, NothingIsNumbered DEF UpInv
  <2> QED
    BY <1>12, <1>14, <1>15, <1>16, <2>4, <2>5 DEF ConnInv, d
<1>18. CASE c.up2.end = "reset"
  <2>1. d.up2 = c.up2
    BY <1>6, <1>12, <1>18
  <2>2. AskedInv(d) /\ UpInv(d)
    BY <1>1, <1>13, <1>18, <2>1 DEF AskedInv, UpInv
  <2> QED
    BY <1>12, <1>14, <1>15, <1>16, <2>2 DEF ConnInv, d
<1> QED
  BY <1>7, <1>17, <1>18

\* The thread that copies forth ends.
LEMMA ConnEndsForward ==
  ASSUME NEW c \in ConnType, ConnInv(c), c.forward = "copy",
         AtEnd(c.up1) \/ (c.up1.pieces # <<>> /\ c.up2.end = "reset")
  PROVE  LET d == [c EXCEPT !.forward = "over", !.up2 = Shut(@)] IN d \in ConnType /\ ConnInv(d)
<1> DEFINE d == [c EXCEPT !.forward = "over", !.up2 = Shut(@)]
<1>1. c.up2 \in Directions
  BY ConnFields
<1>2. /\ Shut(c.up2) \in Directions /\ Shut(c.up2).pieces = c.up2.pieces
      /\ Shut(c.up2).end = "reset" <=> c.up2.end = "reset"
  BY <1>1, DirectionShut
<1>3. /\ d \in ConnType /\ d.forward = "over" /\ d.up2 = Shut(c.up2)
      /\ Same(c, d, {"forward", "up2"})
  BY <1>2 DEF ConnType, Same, ConnParts
<1> HIDE DEF d
<1>4. /\ ClientInv(c) /\ ThreadInv(c) /\ HeadInv(c)
      /\ AskedInv(c) /\ UpInv(c) /\ DownInv(c) /\ EndInv(c)
  BY DEF ConnInv
<1>5. c.thread \in {"copy", "join"} /\ c.thread \notin Early
  BY <1>4 DEF ThreadInv, Early
<1>6. /\ d.thread = c.thread /\ d.server = c.server /\ d.head = c.head /\ d.sent = c.sent
      /\ d.asked = c.asked /\ d.initial = c.initial /\ d.up1 = c.up1
      /\ d.down1 = c.down1 /\ d.down2 = c.down2 /\ d.token = c.token
  BY <1>3 DEF Same, ConnParts
<1>7. ClientInv(d) /\ HeadInv(d) /\ DownInv(d)
  BY <1>3, <1>4, Kept
<1>8. ThreadInv(d)
  BY <1>3, <1>4, <1>5, <1>6 DEF ThreadInv
<1>9. AskedInv(d) /\ UpInv(d)
  BY <1>2, <1>3, <1>4, <1>6 DEF AskedInv, UpInv
<1>10. EndInv(d)
  BY <1>2, <1>3, <1>4, <1>5, <1>6 DEF EndInv, AtEnd
<1> QED
  BY <1>3, <1>7, <1>8, <1>9, <1>10 DEF ConnInv, d

\* A piece is copied back.
LEMMA ConnCopiesBack ==
  ASSUME NEW c \in ConnType, ConnInv(c), c.thread = "copy",
         c.down2.pieces # <<>>, IsWritable(c.down1)
  PROVE  Passed(c, "down2", "down1") \in ConnType /\ ConnInv(Passed(c, "down2", "down1"))
<1> DEFINE x == Head(c.down2.pieces)
           s == Tail(c.down2.pieces)
           v == [c.down2 EXCEPT !.pieces = s]
           u == Written(c.down1, x)
           n == Size(c.got) + Size(c.down1.pieces)
           d == Passed(c, "down2", "down1")
<1>1. /\ ClientInv(c) /\ ThreadInv(c) /\ HeadInv(c)
      /\ AskedInv(c) /\ UpInv(c) /\ DownInv(c) /\ EndInv(c)
  BY DEF ConnInv
<1>2. /\ c.answered \in Nat /\ Size(c.got) \in Nat
      /\ c.down1 \in Directions /\ c.down1.pieces \in Sent /\ Size(c.down1.pieces) \in Nat
      /\ c.down2 \in Directions /\ c.down2.pieces \in Sent /\ Size(c.down2.pieces) \in Nat
  BY ConnFields
<1>3. /\ c.thread \notin Early /\ c.token /\ c.server # "none"
      /\ c.down2.end # "reset" /\ Size(c.down2.pieces) > 0
  BY <1>1, <1>2, DirectionType, Sizes DEF ThreadInv, Early
<1>4. d = [c EXCEPT !.down1 = u, !.down2 = v]
  BY DEF ConnType, Passed
<1> HIDE DEF d
<1>5. x \in Nat /\ s \in Sent /\ Size(s) = Size(c.down2.pieces) - 1
  BY <1>2, ReadAndWritten
<1>6. u \in Directions /\ u.end = c.down1.end /\ (c.down1.end # "open" => u = c.down1)
  BY <1>2, <1>5, DirectionWritten
<1>7. c.down1.end = "open" \/ c.down1.end = "reset"
  BY DEF IsWritable, HasRoom
<1>8. v \in Directions /\ v.pieces = s /\ v.end = c.down2.end
  BY <1>2, <1>3, <1>5, DirectionRead
<1>9. ASSUME c.down1.end = "open"
      PROVE  /\ Numbered(u.pieces, 0, Size(c.got)) /\ Size(u.pieces) = Size(c.down1.pieces) + 1
             /\ n \in Nat /\ Numbered(s, 0, n + 1) /\ n + Size(c.down2.pieces) = c.answered
  <2>1. /\ Numbered(c.down1.pieces, 0, Size(c.got)) /\ Numbered(c.down2.pieces, 0, n)
        /\ n + Size(c.down2.pieces) = c.answered
    BY <1>1, <1>3, <1>9 DEF DownInv
  <2>2. n \in Nat
    BY <1>2
  <2> HIDE DEF n
  <2>3. Numbered(s, 0, n + 1) /\ x = Piece(0, n + 1)
    BY <1>2, <2>1, <2>2, NumberedTail
  <2>4. x = Piece(0, Size(c.got) + Size(c.down1.pieces) + 1)
    BY <2>3 DEF n
  <2>5. u.pieces = Append(c.down1.pieces, x)
    BY <1>2, <1>5, <1>9, DirectionWritten
  <2> HIDE DEF x, u, s
  <2>6. /\ Numbered(Append(c.down1.pieces, x), 0, Size(c.got))
        /\ Size(Append(c.down1.pieces, x)) = Size(c.down1.pieces) + 1
    BY <1>2, <1>5, <2>1, <2>4, NumberedAppend
  <2> QED
    BY <2>1, <2>2, <2>3, <2>5, <2>6
<1> HIDE DEF x, s, u, v
<1>10. /\ d \in ConnType /\ d.down1 = u /\ d.down2 = v /\ Same(c, d, {"down1", "down2"})
  BY <1>4, <1>6, <1>8 DEF ConnType, Same, ConnParts
<1>11. /\ d.thread = c.thread /\ d.server = c.server /\ d.got = c.got /\ d.answered = c.answered
       /\ d.initial = c.initial /\ d.forward = c.forward /\ d.token = c.token
       /\ d.up1 = c.up1 /\ d.up2 = c.up2
  BY <1>10 DEF Same, ConnParts
<1>12. ClientInv(d) /\ AskedInv(d) /\ UpInv(d)
  BY <1>1, <1>10, Kept
<1>13. ThreadInv(d) /\ HeadInv(d) /\ EndInv(d)
  BY <1>1, <1>3, <1>10, <1>11 DEF ThreadInv, HeadInv, EndInv
<1>14. CASE c.down1.end = "open"
  <2>1. Size(d.down1.pieces) = Size(c.down1.pieces) + 1 /\ Size(d.got) = Size(c.got)
        /\ Size(d.down2.pieces) = Size(c.down2.pieces) - 1
    BY <1>5, <1>8, <1>9, <1>10, <1>11, <1>14
  <2>2. n \in Nat /\ Size(d.got) + Size(d.down1.pieces) = n + 1
    BY <1>2, <2>1
  <2> HIDE DEF n
  <2>3. n + 1 <= d.answered /\ n + 1 + Size(d.down2.pieces) = d.answered
    BY <1>2, <1>3, <1>9, <1>11, <1>14, <2>1, <2>2
  <2>4. DownInv(d)
    BY <1>1, <1>3, <1>8, <1>9, <1>10, <1>11, <1>14, <2>2, <2>3 DEF DownInv
  <2> QED
    BY <1>10, <1>12, <1>13, <2>4 DEF ConnInv, d
<1>15. CASE c.down1.end = "reset"
  <2>1. d.down1 = c.down1
    BY <1>6, <1>10, <1>15
  <2>2. DownInv(d)
    BY <1>1, <1>3, <1>11, <1>15, <2>1 DEF DownInv
  <2> QED
    BY <1>10, <1>12, <1>13, <2>2 DEF ConnInv, d
<1> QED
  BY <1>7, <1>14, <1>15

\* The copying back ends.
LEMMA ConnEndsBack ==
  ASSUME NEW c \in ConnType, ConnInv(c), c.thread = "copy",
         AtEnd(c.down2) \/ (c.down2.pieces # <<>> /\ c.down1.end = "reset")
  PROVE  LET d == [c EXCEPT !.thread = "join", !.down1 = Shut(@)] IN d \in ConnType /\ ConnInv(d)
<1> DEFINE d == [c EXCEPT !.thread = "join", !.down1 = Shut(@)]
<1>1. c.down1 \in Directions
  BY ConnFields
<1>2. /\ Shut(c.down1) \in Directions /\ Shut(c.down1).pieces = c.down1.pieces
      /\ Shut(c.down1).end = "reset" <=> c.down1.end = "reset"
  BY <1>1, DirectionShut
<1>3. /\ d \in ConnType /\ d.thread = "join" /\ d.down1 = Shut(c.down1)
      /\ Same(c, d, {"thread", "down1"})
  BY <1>2 DEF ConnType, Same, ConnParts
<1> HIDE DEF d
<1>4. /\ ClientInv(c) /\ ThreadInv(c) /\ HeadInv(c)
      /\ AskedInv(c) /\ UpInv(c) /\ DownInv(c) /\ EndInv(c)
  BY DEF ConnInv
<1>5. /\ d.client = c.client /\ d.server = c.server /\ d.head = c.head /\ d.sent = c.sent
      /\ d.asked = c.asked /\ d.initial = c.initial /\ d.up1 = c.up1 /\ d.up2 = c.up2
      /\ d.down2 = c.down2 /\ d.token = c.token /\ d.forward = c.forward
      /\ d.got = c.got /\ d.answered = c.answered
  BY <1>3 DEF Same, ConnParts
<1>6. AskedInv(d)
  BY <1>3, <1>4, Kept
<1>7. ClientInv(d) /\ ThreadInv(d) /\ HeadInv(d)
  BY <1>3, <1>4, <1>5 DEF ClientInv, ThreadInv, HeadInv, Early
<1>8. UpInv(d)
  BY <1>3, <1>4, <1>5 DEF UpInv
<1>9. DownInv(d)
  BY <1>2, <1>3, <1>4, <1>5 DEF DownInv
<1>10. EndInv(d)
  BY <1>2, <1>3, <1>4, <1>5 DEF EndInv, AtEnd
<1> QED
  BY <1>3, <1>6, <1>7, <1>8, <1>9, <1>10 DEF ConnInv, d

-----------------------------------------------------------------------------
(* The steps of the relay. *)

\* A step changes one connection.
LEMMA OneConnection ==
  ASSUME RelayInv, NEW k \in Conns, NEW d \in ConnType, ConnInv(d), Set(k, d)
  PROVE  RelayInv'
<1>1. conn' = [conn EXCEPT ![k] = d]
  BY DEF Set
<1>2. conn' \in [Conns -> ConnType]
  BY <1>1 DEF RelayInv
<1>3. ASSUME NEW i \in Conns PROVE ConnInv(conn'[i])
  <2>1. conn'[i] = d \/ conn'[i] = conn[i]
    BY <1>1 DEF RelayInv
  <2> QED
    BY <2>1 DEF RelayInv
<1> QED
  BY <1>2, <1>3 DEF RelayInv

\* What is known of each.
LEMMA EachConnection ==
  ASSUME RelayInv, NEW k \in Conns
  PROVE  conn[k] \in ConnType /\ ConnInv(conn[k])
  BY DEF RelayInv

\* A connection is dropped.
LEMMA FailsStep ==
  ASSUME RelayInv, NEW k \in Conns, Fails(k), conn[k].thread # "none"
  PROVE  RelayInv'
<1>1. PICK d \in Dropped(conn[k]) : Set(k, d)
  BY DEF Fails
<1>2. conn[k] \in ConnType /\ ConnInv(conn[k])
  BY EachConnection
<1>3. d \in ConnType /\ ConnInv(d)
  BY <1>2, ConnDropped DEF ConnInv, ClientInv
<1> QED
  BY <1>1, <1>3, OneConnection

\* The client's steps.
LEMMA ClientStep ==
  ASSUME RelayInv, NEW k \in Conns,
         ClientConnects(k) \/ ClientSends(k) \/ ClientReads(k) \/ ClientCloses(k)
  PROVE  RelayInv'
<1>1. conn[k] \in ConnType /\ ConnInv(conn[k])
  BY EachConnection
<1>2. CASE ClientConnects(k)
  <2>1. PICK head \in 1 .. ClientPieces : \E token \in BOOLEAN :
          Set(k, [conn[k] EXCEPT !.client = "open", !.head = head, !.token = token,
                                 !.thread = "backlog"])
    BY <1>2 DEF ClientConnects
  <2>2. PICK token \in BOOLEAN :
          Set(k, [conn[k] EXCEPT !.client = "open", !.head = head, !.token = token,
                                 !.thread = "backlog"])
    BY <2>1
  <2> DEFINE d == [conn[k] EXCEPT !.client = "open", !.head = head, !.token = token,
                                  !.thread = "backlog"]
  <2>3. head \in Nat \ {0} /\ conn[k].client = "none"
    <3>1. conn[k].client = "none"
      BY <1>2 DEF ClientConnects
    <3>2. ClientPieces \in Nat
      BY RelayBounds
    <3> QED
      BY <3>1, <3>2
  <2>4. d \in ConnType /\ ConnInv(d)
    BY <1>1, <2>3, ConnConnects
  <2> HIDE DEF d
  <2>5. Set(k, d)
    BY <2>2 DEF d
  <2> QED
    BY <2>4, <2>5, OneConnection
<1>3. CASE ClientSends(k)
  <2> DEFINE d == [conn[k] EXCEPT !.sent = @ + 1, !.up1.pieces = Append(@, conn[k].sent + 1)]
  <2>1. Set(k, d) /\ conn[k].client = "open" /\ HasRoom(conn[k].up1)
    BY <1>3 DEF ClientSends
  <2>2. d \in ConnType /\ ConnInv(d)
    BY <1>1, <2>1, ConnClientSends
  <2> HIDE DEF d
  <2> QED
    BY <2>1, <2>2, OneConnection
<1>4. CASE ClientReads(k)
  <2> DEFINE d == [conn[k] EXCEPT !.got = Append(@, Head(conn[k].down1.pieces)),
                                  !.down1.pieces = Tail(@)]
  <2>1. Set(k, d) /\ conn[k].down1.pieces # <<>>
    BY <1>4 DEF ClientReads
  <2>2. d \in ConnType /\ ConnInv(d)
    BY <1>1, <2>1, ConnClientReads
  <2> HIDE DEF d
  <2> QED
    BY <2>1, <2>2, OneConnection
<1>5. CASE ClientCloses(k)
  <2>1. PICK d \in ClientClosed(conn[k]) : Set(k, d)
    BY <1>5 DEF ClientCloses
  <2>2. d \in ConnType /\ ConnInv(d)
    BY <1>1, <1>5, ConnClientCloses DEF ClientCloses
  <2> QED
    BY <2>1, <2>2, OneConnection
<1> QED
  BY <1>2, <1>3, <1>4, <1>5

\* The server's steps.
LEMMA ServerStep ==
  ASSUME RelayInv, NEW k \in Conns, ServerReads(k) \/ ServerSends(k) \/ ServerCloses(k)
  PROVE  RelayInv'
<1>1. conn[k] \in ConnType /\ ConnInv(conn[k])
  BY EachConnection
<1>2. CASE ServerReads(k)
  <2> DEFINE d == [conn[k] EXCEPT !.asked = Append(@, Head(conn[k].up2.pieces)),
                                  !.up2.pieces = Tail(@)]
  <2>1. Set(k, d) /\ conn[k].server = "open" /\ conn[k].up2.pieces # <<>>
    BY <1>2 DEF ServerReads
  <2>2. d \in ConnType /\ ConnInv(d)
    BY <1>1, <2>1, ConnServerReads
  <2> HIDE DEF d
  <2> QED
    BY <2>1, <2>2, OneConnection
<1>3. CASE ServerSends(k)
  <2> DEFINE d == [conn[k] EXCEPT !.answered = @ + 1,
                                  !.down2.pieces = Append(@, conn[k].answered + 1)]
  <2>1. Set(k, d) /\ conn[k].server = "open" /\ HasRoom(conn[k].down2)
    BY <1>3 DEF ServerSends
  <2>2. d \in ConnType /\ ConnInv(d)
    BY <1>1, <2>1, ConnServerSends
  <2> HIDE DEF d
  <2> QED
    BY <2>1, <2>2, OneConnection
<1>4. CASE ServerCloses(k)
  <2>1. PICK d \in ServerClosed(conn[k]) : Set(k, d)
    BY <1>4 DEF ServerCloses
  <2>2. d \in ConnType /\ ConnInv(d)
    BY <1>1, <1>4, ConnServerCloses DEF ServerCloses
  <2> QED
    BY <2>1, <2>2, OneConnection
<1> QED
  BY <1>2, <1>3, <1>4

\* The accept loop's steps.
LEMMA AcceptStep ==
  ASSUME RelayInv, AcceptLoopEnds \/ \E k \in Conns : Accepts(k)
  PROVE  RelayInv'
<1>1. CASE AcceptLoopEnds
  <2> DEFINE e(k) == [conn[k] EXCEPT !.thread = "over", !.forward = "over",
                                     !.up1 = Broken, !.down1 = Broken]
  <2>1. conn' = [k \in Conns |-> IF conn[k].thread # "backlog" THEN conn[k] ELSE e(k)]
    BY <1>1 DEF AcceptLoopEnds
  <2>2. ASSUME NEW k \in Conns, conn[k].thread = "backlog"
        PROVE  e(k) \in ConnType /\ ConnInv(e(k))
    BY <2>2, EachConnection, ConnRefused
  <2> HIDE DEF e
  <2>3. ASSUME NEW k \in Conns PROVE conn'[k] \in ConnType /\ ConnInv(conn'[k])
    BY <2>1, <2>2, EachConnection
  <2>4. conn' \in [Conns -> ConnType]
    BY <2>1, <2>3
  <2> QED
    BY <2>3, <2>4 DEF RelayInv
<1>2. ASSUME NEW k \in Conns, Accepts(k) PROVE RelayInv'
  <2> DEFINE d == [conn[k] EXCEPT !.thread = "headers"]
  <2>1. conn[k].thread = "backlog" /\ (Set(k, d) \/ Fails(k))
    BY <1>2 DEF Accepts
  <2>2. d \in ConnType /\ ConnInv(d)
    BY <2>1, EachConnection, ConnAccepted
  <2> HIDE DEF d
  <2> QED
    BY <2>1, <2>2, OneConnection, FailsStep
<1> QED
  BY <1>1, <1>2

\* The steps of a connection's threads.
LEMMA ThreadStep ==
  ASSUME RelayInv, NEW k \in Conns, ConnectionThread(k) \/ CopiesForth(k)
  PROVE  RelayInv'
<1>1. conn[k] \in ConnType /\ ConnInv(conn[k])
  BY EachConnection
<1>2. CASE ReadsHead(k)
  <2>1. conn[k].thread = "headers"
    BY <1>2 DEF ReadsHead
  <2>2. CASE Fails(k)
    BY <2>1, <2>2, FailsStep
  <2>3. ASSUME NEW n \in 1 .. Len(conn[k].up1.pieces),
               \E d \in HeadRead([conn[k] EXCEPT
                                    !.initial = @ \o SubSeq(conn[k].up1.pieces, 1, n),
                                    !.up1.pieces = SubSeq(@, n + 1, Len(@))]) : Set(k, d)
        PROVE  RelayInv'
    <3> DEFINE c == [conn[k] EXCEPT !.initial = @ \o SubSeq(conn[k].up1.pieces, 1, n),
                                    !.up1.pieces = SubSeq(@, n + 1, Len(@))]
    <3>1. c \in ConnType /\ ConnInv(c) /\ c.thread = "headers" /\ c.client # "none"
      BY <1>1, <2>1, ConnReads
    <3>2. PICK d \in HeadRead(c) : Set(k, d)
      BY <2>3
    <3> HIDE DEF c
    <3>3. d \in ConnType /\ ConnInv(d)
      BY <3>1, ConnHeadRead
    <3> QED
      BY <3>2, <3>3, OneConnection
  <2> QED
    BY <1>2, <2>2, <2>3 DEF ReadsHead
<1>3. CASE Connects(k)
  <2> DEFINE d == [conn[k] EXCEPT !.thread = "send", !.server = "open",
                                  !.initial = Rewritten(conn[k].initial, conn[k].head)]
  <2>1. conn[k].thread = "connect" /\ (Set(k, d) \/ Fails(k))
    BY <1>3 DEF Connects
  <2>2. d \in ConnType /\ ConnInv(d)
    BY <1>1, <2>1, ConnConnected
  <2> HIDE DEF d
  <2> QED
    BY <2>1, <2>2, OneConnection, FailsStep
<1>4. CASE SendsHead(k)
  <2> DEFINE d == [conn[k] EXCEPT !.initial = Tail(@),
                                  !.up2 = Written(@, Head(conn[k].initial))]
             e == [conn[k] EXCEPT !.thread = "copy", !.forward = "copy"]
  <2>1. /\ conn[k].thread = "send"
        /\ \/ conn[k].initial # <<>> /\ IsWritable(conn[k].up2) /\ Set(k, d)
           \/ Fails(k)
           \/ conn[k].initial = <<>> /\ Set(k, e)
    BY <1>4 DEF SendsHead
  <2>2. conn[k].initial # <<>> /\ IsWritable(conn[k].up2) => d \in ConnType /\ ConnInv(d)
    BY <1>1, <2>1, ConnHeadSent
  <2>3. conn[k].initial = <<>> => e \in ConnType /\ ConnInv(e)
    BY <1>1, <2>1, ConnHeadIsSent
  <2> HIDE DEF d, e
  <2> QED
    BY <2>1, <2>2, <2>3, OneConnection, FailsStep
<1>5. CASE CopiesForth(k)
  <2> DEFINE d == Passed(conn[k], "up1", "up2")
             e == [conn[k] EXCEPT !.forward = "over", !.up2 = Shut(@)]
             ends == AtEnd(conn[k].up1) \/ (conn[k].up1.pieces # <<>> /\ conn[k].up2.end = "reset")
  <2>1. /\ conn[k].forward = "copy"
        /\ \/ conn[k].up1.pieces # <<>> /\ IsWritable(conn[k].up2) /\ Set(k, d)
           \/ ends /\ Set(k, e)
    BY <1>5 DEF CopiesForth, EndsForward
  <2>2. conn[k].up1.pieces # <<>> /\ IsWritable(conn[k].up2) => d \in ConnType /\ ConnInv(d)
    BY <1>1, <2>1, ConnCopiesForth
  <2>3. ends => e \in ConnType /\ ConnInv(e)
    BY <1>1, <2>1, ConnEndsForward
  <2> HIDE DEF d, e, ends
  <2> QED
    BY <2>1, <2>2, <2>3, OneConnection
<1>6. CASE CopiesBack(k)
  <2> DEFINE d == Passed(conn[k], "down2", "down1")
             e == [conn[k] EXCEPT !.thread = "join", !.down1 = Shut(@)]
             ends == AtEnd(conn[k].down2) \/ (conn[k].down2.pieces # <<>> /\ conn[k].down1.end = "reset")
  <2>1. /\ conn[k].thread = "copy"
        /\ \/ conn[k].down2.pieces # <<>> /\ IsWritable(conn[k].down1) /\ Set(k, d)
           \/ ends /\ Set(k, e)
    BY <1>6 DEF CopiesBack
  <2>2. conn[k].down2.pieces # <<>> /\ IsWritable(conn[k].down1) => d \in ConnType /\ ConnInv(d)
    BY <1>1, <2>1, ConnCopiesBack
  <2>3. ends => e \in ConnType /\ ConnInv(e)
    BY <1>1, <2>1, ConnEndsBack
  <2> HIDE DEF d, e, ends
  <2> QED
    BY <2>1, <2>2, <2>3, OneConnection
<1>7. CASE Joins(k)
  BY <1>7, FailsStep DEF Joins
<1> QED
  BY <1>2, <1>3, <1>4, <1>5, <1>6, <1>7 DEF ConnectionThread

\* Each connection becomes one of those that keep the invariant.
LEMMA FollowsStep ==
  ASSUME RelayInv, NEW choices, Follows(choices),
         \A k \in Conns : \A d \in choices[k] : d \in ConnType /\ ConnInv(d)
  PROVE  RelayInv'
<1>1. PICK f \in [Conns -> UNION {choices[k] : k \in Conns}] :
        (\A k \in Conns : f[k] \in choices[k]) /\ conn' = f
  BY DEF Follows
<1>2. \A k \in Conns : conn'[k] \in ConnType /\ ConnInv(conn'[k])
  BY <1>1
<1>3. conn' \in [Conns -> ConnType]
  BY <1>1, <1>2
<1> QED
  BY <1>2, <1>3 DEF RelayInv

\* The connections of a process that ends.
LEMMA EndsRelay ==
  ASSUME RelayInv, NEW p \in Procs, Ends(p)
  PROVE  RelayInv'
<1> DEFINE choices == [k \in Conns |->
             CASE p = "server" /\ conn[k].server = "open" -> ServerClosed(conn[k])
               [] p = "app" /\ conn[k].client = "open" -> ClientClosed(conn[k])
               [] OTHER -> {conn[k]}]
<1>1. Follows(choices)
  BY DEF Ends
<1>2. ASSUME NEW k \in Conns, NEW d \in choices[k]
      PROVE  d \in ConnType /\ ConnInv(d)
  <2>1. conn[k] \in ConnType /\ ConnInv(conn[k])
    BY EachConnection
  <2>2. CASE p = "server" /\ conn[k].server = "open"
    <3>1. d \in ServerClosed(conn[k])
      BY <1>2, <2>2
    <3> QED
      BY <2>1, <2>2, <3>1, ConnServerCloses
  <2>3. CASE p = "app" /\ conn[k].client = "open"
    <3>1. d \in ClientClosed(conn[k])
      BY <1>2, <2>3
    <3> QED
      BY <2>1, <2>3, <3>1, ConnClientCloses
  <2>4. CASE ~(p = "server" /\ conn[k].server = "open") /\ ~(p = "app" /\ conn[k].client = "open")
    <3>1. d = conn[k]
      BY <1>2, <2>4
    <3> QED
      BY <2>1, <3>1
  <2> QED
    BY <2>2, <2>3, <2>4
<1> HIDE DEF choices
<1> QED
  BY <1>1, <1>2, FollowsStep

\* The connections that the end of the session drops.
LEMMA ExitsRelay ==
  ASSUME RelayInv, Exits
  PROVE  RelayInv'
<1> DEFINE choices == [k \in Conns |-> IF conn[k].thread \in {"none", "over"} THEN {conn[k]}
                                       ELSE Dropped(conn[k])]
<1>1. Follows(choices)
  BY DEF Exits
<1>2. ASSUME NEW k \in Conns, NEW d \in choices[k]
      PROVE  d \in ConnType /\ ConnInv(d)
  <2>1. conn[k] \in ConnType /\ ConnInv(conn[k])
    BY EachConnection
  <2>2. CASE conn[k].thread \in {"none", "over"}
    BY <1>2, <2>1, <2>2
  <2>3. CASE conn[k].thread \notin {"none", "over"}
    <3>1. d \in Dropped(conn[k])
      BY <1>2, <2>3
    <3> QED
      BY <2>1, <2>3, <3>1, ConnDropped DEF ConnInv, ClientInv
  <2> QED
    BY <2>2, <2>3
<1> HIDE DEF choices
<1> QED
  BY <1>1, <1>2, FollowsStep

\* Every step of the session keeps the relay's invariant.
LEMMA RelayStep ==
  ASSUME RelayInv, [Next]_vars
  PROVE  RelayInv'
<1>1. CASE UNCHANGED conn
  BY <1>1 DEF RelayInv
<1>2. CASE MainStep /\ ~Exits
  <2>1. UNCHANGED conn
    BY <1>2 DEF MainStep, PreparationFails, Binds, Spawns, ChecksAfterSpawn, CommandIsGone,
       WaitEnds, ServerIsLate, ChecksWhenServed, Builds, ChecksWhenBuilt, LaunchesProcess,
       CommandSucceeds, CommandRetries, CommandFails, ChecksWhenLaunched, SupervisesSignal,
       SupervisesExit, SupervisesOn, SupervisesApp, PollsGroup, Kills, WaitsForRoot, DropsRelay,
       Checks, Continues, Errs, Stopped, relayVars
  <2> QED
    BY <1>1, <2>1
<1>3. CASE Exits
  BY <1>3, ExitsRelay
<1>4. CASE (\E k \in Conns : ClientConnects(k)) \/ RelayNext \/ AcceptLoopEnds
  BY <1>4, ClientStep, ServerStep, AcceptStep, ThreadStep DEF RelayNext
<1>5. CASE Signals \/ Forks \/ ServerListens
  BY <1>1, <1>5 DEF Signals, Forks, ServerListens, relayVars
<1>6. CASE \E p \in Procs : Ends(p)
  BY <1>6, EndsRelay
<1>7. CASE UNCHANGED vars
  BY <1>1, <1>7 DEF vars, relayVars
<1> QED
  BY <1>2, <1>3, <1>4, <1>5, <1>6, <1>7 DEF Next

-----------------------------------------------------------------------------
(* What each side gets. *)

\* No connection is one that keeps the invariant.
LEMMA NothingConnected == NoConnection \in ConnType /\ ConnInv(NoConnection)
<1> DEFINE c == NoConnection
<1>1. /\ c.client = "none" /\ c.head = 1 /\ c.token = TRUE /\ c.sent = 0 /\ c.got = <<>>
      /\ c.thread = "none" /\ c.forward = "none" /\ c.initial = <<>>
      /\ c.server = "none" /\ c.asked = <<>> /\ c.answered = 0
      /\ c.up1 = Open /\ c.up2 = Open /\ c.down1 = Open /\ c.down2 = Open
  BY DEF NoConnection
<1>2. <<>> \in Sent /\ Size(<<>>) = 0 /\ \A head, n : Numbered(<<>>, head, n)
  BY Sizes, NothingIsNumbered
<1>3. Open \in Directions /\ Open.pieces = <<>> /\ Open.end = "open"
  BY Sockets
<1>4. c \in ConnType
  BY <1>2, <1>3 DEF NoConnection, ConnType
<1> HIDE DEF c
<1>5. ClientInv(c)
  <2>1. Size(c.up1.pieces) = 0 /\ c.sent = 0 /\ Numbered(c.up1.pieces, 0, 0)
    BY <1>1, <1>2, <1>3
  <2> QED
    BY <1>1, <2>1 DEF ClientInv
<1>6. ThreadInv(c) /\ EndInv(c)
  BY <1>1 DEF ThreadInv, EndInv
<1>7. HeadInv(c) /\ AskedInv(c) /\ UpInv(c) /\ DownInv(c)
  BY <1>1, <1>2, <1>3 DEF HeadInv, AskedInv, UpInv, DownInv
<1> QED
  BY <1>4, <1>5, <1>6, <1>7 DEF ConnInv, c

\* The whole of a request of which that much was sent.
LEMMA MeantIsNumbered ==
  ASSUME NEW k \in Conns, conn[k] \in ConnType
  PROVE  /\ Meant(k) \in Sent /\ Numbered(Meant(k), conn[k].head, 0)
         /\ conn[k].head <= conn[k].sent => Size(Meant(k)) = conn[k].sent - conn[k].head + 1
<1> DEFINE head == conn[k].head
           n == conn[k].sent - head
           rest == [i \in 1 .. n |-> head + i]
<1>1. head \in Nat \ {0} /\ conn[k].sent \in Nat
  BY ConnFields
<1>2. CASE conn[k].sent < head
  <2>1. Meant(k) = <<>> /\ ~(head <= conn[k].sent)
    BY <1>1, <1>2 DEF Meant
  <2> QED
    BY <2>1, Sizes, NothingIsNumbered
<1>3. CASE ~(conn[k].sent < head)
  <2>1. Meant(k) = <<0>> \o rest /\ n \in Nat
    BY <1>1, <1>3 DEF Meant
  <2> HIDE DEF n, head
  <2>2. rest \in Seq(Nat) /\ Len(rest) = n /\ \A i \in 1 .. Len(rest) : rest[i] = head + i
    BY <1>1, <2>1
  <2> HIDE DEF rest
  <2>3. /\ <<0>> \o rest \in Seq(Nat) /\ Len(<<0>> \o rest) = n + 1
        /\ Numbered(<<0>> \o rest, head, 0)
    BY <1>1, <2>2, NumberedHead
  <2> QED
    BY <2>1, <2>3 DEF n, head, Sent, Size
<1> QED
  BY <1>2, <1>3

\* The whole of what was answered.
LEMMA AnsweredIsNumbered ==
  ASSUME NEW k \in Conns, conn[k] \in ConnType
  PROVE  /\ Answered(k) \in Sent /\ Numbered(Answered(k), 0, 0)
         /\ Size(Answered(k)) = conn[k].answered
<1> DEFINE n == conn[k].answered
           s == [i \in 1 .. n |-> i]
<1>1. n \in Nat
  BY ConnFields
<1> HIDE DEF n
<1>2. s \in Seq(Nat) /\ Len(s) = n /\ \A i \in DOMAIN s : s[i] = i
  BY <1>1
<1>3. \A i \in Nat : Piece(0, 0 + i) = i
  BY DEF Piece
<1>4. Answered(k) = s
  BY DEF Answered, n
<1> HIDE DEF s
<1>5. DOMAIN s \subseteq Nat
  BY <1>2
<1>6. Numbered(s, 0, 0)
  BY <1>2, <1>3, <1>5 DEF Numbered
<1> QED
  BY <1>2, <1>4, <1>6 DEF Sent, Size, n

\* The request, of a connection with the token.
LEMMA RequestIsCarried ==
  ASSUME NEW k \in Conns, conn[k] \in ConnType, ConnInv(conn[k])
  PROVE  LET up == conn[k].asked \o conn[k].up2.pieces
         IN  /\ IsPrefix(up, Meant(k))
             /\ ~conn[k].token => up = <<>>
             /\ conn[k].forward = "over" /\ conn[k].up1.end = "fin" /\ conn[k].up2.end = "fin"
                  => up = Meant(k)
<1> DEFINE c == conn[k]
           up == c.asked \o c.up2.pieces
<1>1. /\ ThreadInv(c) /\ AskedInv(c) /\ UpInv(c) /\ EndInv(c)
  BY DEF ConnInv
<1>2. /\ c.head \in Nat \ {0} /\ c.sent \in Nat /\ c.asked \in Sent /\ c.up2.pieces \in Sent
      /\ Size(c.asked) \in Nat /\ Size(c.up2.pieces) \in Nat
  BY ConnFields
<1>3. /\ Meant(k) \in Sent /\ Numbered(Meant(k), c.head, 0) /\ Size(Meant(k)) \in Nat
      /\ c.head <= c.sent => Size(Meant(k)) = c.sent - c.head + 1
  BY MeantIsNumbered, Sizes
<1>4. /\ c.forward = "over" /\ c.up1.end = "fin" /\ c.up2.end = "fin"
           => /\ c.thread \in {"copy", "join"} /\ c.initial = <<>> /\ c.up1.pieces = <<>>
              /\ c.server # "none"
      /\ ~c.token => c.server = "none"
  BY <1>1 DEF ThreadInv, EndInv
<1> HIDE DEF c
<1>5. CASE c.server = "none"
  <2>1. up = <<>>
    <3>1. c.asked = <<>> /\ c.up2.pieces = <<>>
      BY <1>1, <1>5 DEF AskedInv
    <3> QED
      BY <3>1, <1>2, ConcatEmptySeq DEF Sent
  <2>2. <<>> \in Sent /\ Size(<<>>) = 0 /\ Numbered(<<>>, c.head, 0)
    BY Sizes, NothingIsNumbered
  <2>3. Size(<<>>) <= Size(Meant(k))
    BY <1>3, <2>2
  <2>4. IsPrefix(up, Meant(k))
    BY <1>2, <1>3, <2>1, <2>2, <2>3, NumberedPrefix
  <2> QED
    BY <1>4, <1>5, <2>1, <2>4 DEF c
<1>6. CASE c.server # "none"
  <2>1. /\ c.head <= c.sent
        /\ Numbered(c.asked, c.head, 0) /\ Numbered(c.up2.pieces, c.head, Size(c.asked))
        /\ Size(c.asked) + Size(c.up2.pieces) <= c.sent - c.head + 1
    BY <1>1, <1>6 DEF AskedInv
  <2>2. Numbered(c.up2.pieces, c.head, 0 + Size(c.asked))
    <3>1. 0 + Size(c.asked) = Size(c.asked)
      BY <1>2
    <3> QED
      BY <2>1, <3>1
  <2>3. /\ up \in Sent /\ Size(up) = Size(c.asked) + Size(c.up2.pieces)
        /\ Numbered(up, c.head, 0)
    BY <1>2, <2>1, <2>2, NumberedConcat
  <2>4. Size(up) <= Size(Meant(k))
    BY <1>3, <2>1, <2>3
  <2>5. IsPrefix(up, Meant(k)) /\ (Size(up) = Size(Meant(k)) => up = Meant(k))
    BY <1>2, <1>3, <2>3, <2>4, NumberedPrefix
  <2>6. ASSUME c.forward = "over", c.up1.end = "fin", c.up2.end = "fin"
        PROVE  up = Meant(k)
    <3>1. /\ Size(c.asked) + Size(c.up2.pieces) + Size(c.initial) + Size(c.up1.pieces)
               = c.sent - c.head + 1
          /\ Size(c.initial) = 0 /\ Size(c.up1.pieces) = 0
      BY <1>1, <1>4, <2>6, Sizes DEF UpInv
    <3>2. Size(c.asked) + Size(c.up2.pieces) = c.sent - c.head + 1
      BY <1>2, <3>1
    <3>3. Size(up) = Size(Meant(k))
      BY <1>3, <2>1, <2>3, <3>2
    <3> QED
      BY <2>5, <3>3
  <2> QED
    BY <1>4, <1>6, <2>5, <2>6 DEF c
<1> QED
  BY <1>5, <1>6

\* The answer, of a connection with the token or without.
LEMMA AnswerIsCarried ==
  ASSUME NEW k \in Conns, conn[k] \in ConnType, ConnInv(conn[k])
  PROVE  LET down == conn[k].got \o conn[k].down1.pieces
         IN  /\ conn[k].token => IsPrefix(down, Answered(k))
             /\ ~conn[k].token => down \in {<<>>, <<Unauthorized>>}
             /\ conn[k].thread = "join" /\ conn[k].down2.end = "fin" /\ conn[k].down1.end = "fin"
                  => down = Answered(k)
<1> DEFINE c == conn[k]
           down == c.got \o c.down1.pieces
<1>1. /\ ThreadInv(c) /\ DownInv(c) /\ EndInv(c)
  BY DEF ConnInv
<1>2. /\ c.got \in Sent /\ c.down1.pieces \in Sent /\ c.token \in BOOLEAN /\ c.answered \in Nat
      /\ Size(c.got) \in Nat /\ Size(c.down1.pieces) \in Nat
  BY ConnFields
<1>3. /\ Answered(k) \in Sent /\ Numbered(Answered(k), 0, 0) /\ Size(Answered(k)) = c.answered
  BY AnsweredIsNumbered
<1>4. /\ c.thread = "join" /\ c.down2.end = "fin" /\ c.down1.end = "fin"
           => c.down2.pieces = <<>> /\ c.token
  BY <1>1 DEF ThreadInv, EndInv
<1> HIDE DEF c
<1>5. CASE c.token
  <2>1. /\ Numbered(c.got, 0, 0) /\ Numbered(c.down1.pieces, 0, Size(c.got))
        /\ Size(c.got) + Size(c.down1.pieces) <= c.answered
    BY <1>1, <1>5 DEF DownInv
  <2>2. Numbered(c.down1.pieces, 0, 0 + Size(c.got))
    <3>1. 0 + Size(c.got) = Size(c.got)
      BY <1>2
    <3> QED
      BY <2>1, <3>1
  <2>3. /\ down \in Sent /\ Size(down) = Size(c.got) + Size(c.down1.pieces)
        /\ Numbered(down, 0, 0)
    BY <1>2, <2>1, <2>2, NumberedConcat
  <2>4. Size(down) <= Size(Answered(k))
    BY <1>3, <2>1, <2>3
  <2>5. IsPrefix(down, Answered(k)) /\ (Size(down) = Size(Answered(k)) => down = Answered(k))
    BY <1>3, <2>3, <2>4, NumberedPrefix
  <2>6. ASSUME c.thread = "join", c.down2.end = "fin", c.down1.end = "fin"
        PROVE  down = Answered(k)
    <3>1. /\ Size(c.got) + Size(c.down1.pieces) + Size(c.down2.pieces) = c.answered
          /\ Size(c.down2.pieces) = 0
      BY <1>1, <1>4, <1>5, <2>6, Sizes DEF DownInv
    <3>2. Size(down) = Size(Answered(k))
      BY <1>2, <1>3, <2>3, <3>1
    <3> QED
      BY <2>5, <3>2
  <2> QED
    BY <1>5, <2>5, <2>6 DEF c
<1>6. CASE ~c.token
  <2>1. \/ c.got = <<>> /\ (c.down1.pieces = <<>> \/ c.down1.pieces = <<Unauthorized>>)
        \/ c.got = <<Unauthorized>> /\ c.down1.pieces = <<>>
    BY <1>1, <1>6 DEF DownInv
  <2>2. (\A s \in Seq(Nat) : s \o <<>> = s /\ <<>> \o s = s) /\ <<>> \in Seq(Nat)
    BY ConcatEmptySeq, EmptySeq
  <2>3. c.got \in Seq(Nat) /\ c.down1.pieces \in Seq(Nat)
    BY <1>2 DEF Sent
  <2>4. down \in {<<>>, <<Unauthorized>>}
    BY <2>1, <2>2, <2>3
  <2> QED
    BY <1>4, <1>6, <2>4 DEF c
<1> QED
  BY <1>2, <1>5, <1>6

-----------------------------------------------------------------------------
(* Theorems about the relay. *)

\* The relay's invariant holds for any number of connections and pieces, however
\* much a direction holds, and whatever the session does.
THEOREM RelayInvariance == Spec => []RelayInv
<1>1. Init => RelayInv
  BY NothingConnected DEF Init, RelayInit, RelayInv
<1>2. RelayInv /\ [Next]_vars => RelayInv'
  BY RelayStep
<1> QED
  BY <1>1, <1>2, PTL DEF Spec

\* The relay passes on what was sent, in its order, each piece once, with the new
\* head in place of the old one, and its end behind it; and nothing, but the
\* answer 401, of a connection without the token (read_headers, authorized,
\* rewrite_request and the two threads that copy).
THEOREM RelayCarriesAll == Spec => []RelayIsTransparent
<1>1. RelayInv => RelayIsTransparent
  <2> SUFFICES ASSUME RelayInv, NEW k \in Conns
               PROVE  LET c     == conn[k]
                          up    == c.asked \o c.up2.pieces
                          down  == c.got \o c.down1.pieces
                          whole == Meant(k)
                      IN /\ IF c.token THEN IsPrefix(up, whole) /\ IsPrefix(down, Answered(k))
                                       ELSE up = <<>> /\ down \in {<<>>, <<Unauthorized>>}
                         /\ c.forward = "over" /\ c.up1.end = "fin" /\ c.up2.end = "fin"
                              => up = whole
                         /\ c.thread = "join" /\ c.down2.end = "fin" /\ c.down1.end = "fin"
                              => down = Answered(k)
    BY Zenon DEF RelayIsTransparent
  <2>1. conn[k] \in ConnType /\ ConnInv(conn[k])
    BY EachConnection
  <2> QED
    BY <2>1, RequestIsCarried, AnswerIsCarried
<1> QED
  BY <1>1, RelayInvariance, PTL
=============================================================================
