-------------------------------- MODULE Boot ---------------------------------
(***************************************************************************)
(* The start of the daemon (cmd/root.go, server/manager.go): the servers   *)
(* are loaded from the panel, the states saved by the last daemon are      *)
(* read, each server is brought back to its state by a task of a worker    *)
(* pool, and only then are requests served. Meanwhile the states are saved *)
(* to the disk at each tick. The daemon, or the machine with all its       *)
(* containers, may crash at any time. What a power action does in detail   *)
(* is the subject of ServerPower; here it has its outcome in one step.     *)
(***************************************************************************)
EXTENDS Naturals, FiniteSets

CONSTANTS
    Servers,
    Workers,     \* tasks that run at a time
    MaxFaults    \* bound on crashes and failures

ASSUME BootAssumption ==
    /\ IsFiniteSet(Servers) /\ "none" \notin Servers
    /\ Workers \in Nat \ {0} /\ MaxFaults \in Nat

VARIABLES
    phase,       \* what the main goroutine does
    manager,     \* servers that are loaded
    todo,        \* servers that the loop of the boot has not reached
    at,          \* the server whose environment it creates
    task,        \* the boot task of a server
    states,      \* what ReadStates returned
    file,        \* states.json
    saver,       \* PersistStates of the ticker's goroutine
    cont,        \* servers whose container runs
    st,          \* Environment.st
    attached,    \* servers whose output is read
    suspended,   \* Configuration.Suspended, servers
    enforcing,   \* servers that are stopped for a suspension
    panel,       \* servers that are suspended on the panel
    hung,        \* servers for whose container Docker does not answer
    kept,        \* history: servers that the next boot has to bring back
    blind,       \* history: servers whose task, start or stop went wrong
    faults       \* crashes and failures so far

bootVars == <<manager, todo, at, task, states>>
diskVars == <<file, saver>>
envVars == <<cont, st, attached, enforcing>>
worldVars == <<panel, hung>>
vars == <<phase, bootVars, diskVars, envVars, suspended, worldVars, kept, blind, faults>>

NoServer == "none"
On == {"starting", "running"}
States == On \cup {"stopping", "offline"}
Absent == "absent"
Empty == [s \in Servers |-> Absent]
NoSave == [pc |-> "idle"]

Init ==
    /\ phase = "down" /\ manager = {} /\ todo = {} /\ at = NoServer
    /\ task = [s \in Servers |-> "none"]
    /\ states = Empty /\ file = Empty /\ saver = NoSave
    /\ cont = {} /\ attached = {} /\ enforcing = {}
    /\ st = [s \in Servers |-> "offline"]
    /\ suspended = {} /\ panel = {} /\ hung = {}
    /\ kept = {} /\ blind = {} /\ faults = 0

TypeOK ==
    /\ phase \in {"down", "load", "boot", "serving"}
    /\ manager \subseteq Servers /\ todo \subseteq manager
    /\ at \in manager \cup {NoServer}
    /\ task \in [Servers -> {"none", "wait", "start", "attach", "settle", "sync", "done"}]
    /\ states \in [Servers -> States \cup {Absent}]
    /\ file \in [Servers -> States \cup {Absent}]
    /\ saver \in {NoSave} \cup [pc : {"collected", "truncated"},
                                data : [Servers -> States \cup {Absent}]]
    /\ cont \subseteq Servers /\ attached \subseteq Servers
    /\ st \in [Servers -> States]
    /\ suspended \subseteq Servers /\ enforcing \subseteq Servers
    /\ panel \subseteq Servers /\ hung \subseteq Servers
    /\ kept \subseteq Servers /\ blind \subseteq Servers
    /\ faults \in 0 .. MaxFaults

Fault == faults < MaxFaults /\ faults' = faults + 1

\* A call about the container of s fails, because its deadline is over or for
\* another reason.
DockerFails(s) == IF s \in hung THEN UNCHANGED faults ELSE Fault

SetState(s, state) == st' = [st EXCEPT ![s] = state]
------------------------------------------------------------------------------
\* The main goroutine.

\* InitServer for each of them: one whose configuration cannot be read or that
\* cannot be set up is left out.
InitServer(skipped) ==
    /\ IF skipped = {} THEN UNCHANGED faults ELSE Fault
    /\ manager' = Servers \ skipped
    /\ kept' = kept \ skipped
    /\ suspended' = panel

\* NewManager: all the pages of GetServers; the daemon exits if one is missing.
NewManager ==
    /\ phase = "down" /\ phase' = "load"
    /\ \E skipped \in SUBSET Servers : InitServer(skipped)
    /\ UNCHANGED <<todo, at, task, states, diskVars, envVars, worldVars, blind>>

\* Mutant: the loop runs over the saved states.
ReadAllStates ==
    /\ phase = "load" /\ phase' = "boot"
    /\ states' = file
    /\ todo' = {s \in Servers : file[s] # Absent}
    /\ UNCHANGED <<manager, at, task, diskVars, envVars, suspended, worldVars, kept, blind, faults>>

\* ReadStates: a file that is empty or cannot be decoded gives no states, and
\* those of servers that are not loaded are ignored.
ReadStates ==
    /\ phase = "load" /\ phase' = "boot"
    /\ states' = [s \in Servers |-> IF s \in manager THEN file[s] ELSE Absent]
    /\ todo' = manager
    /\ UNCHANGED <<manager, at, task, diskVars, envVars, suspended, worldVars, kept, blind, faults>>

\* The loop goes on to a server and looks for its container, without a timeout.
NextServer(s) ==
    /\ phase = "boot" /\ at = NoServer /\ s \in todo
    /\ at' = s /\ todo' = todo \ {s}
    /\ UNCHANGED <<phase, manager, task, states, diskVars, envVars, suspended, worldVars,
                   kept, blind, faults>>

\* CreateEnvironment: the task is submitted, or skipped if this fails. It has no
\* deadline: as long as Docker does not answer, the loop stays here.
CreateEnvironment(s) ==
    /\ at = s
    /\ at' = NoServer
    /\ \/ /\ s \notin hung /\ task' = [task EXCEPT ![s] = "wait"]
          /\ UNCHANGED <<kept, blind, faults>>
       \/ /\ Fault /\ task' = [task EXCEPT ![s] = "done"]
          /\ kept' = kept \ {s} /\ blind' = blind \cup {s}
    /\ UNCHANGED <<phase, manager, todo, states, diskVars, envVars, suspended, worldVars>>

\* Mutant: servers that were left out are waited for as well.
ServeAll ==
    /\ phase = "boot" /\ at = NoServer /\ todo = {}
    /\ \A s \in Servers : task[s] = "done"
    /\ phase' = "serving"
    /\ UNCHANGED <<bootVars, diskVars, envVars, suspended, worldVars, kept, blind, faults>>

\* pool.StopWait; then the crons, the SFTP server, ResetServersState and the
\* HTTP server are started.
Serve ==
    /\ phase = "boot" /\ at = NoServer /\ todo = {}
    /\ \A s \in manager : task[s] = "done"
    /\ phase' = "serving"
    /\ UNCHANGED <<bootVars, diskVars, envVars, suspended, worldVars, kept, blind, faults>>
------------------------------------------------------------------------------
\* The task of a server.

Busy == {s \in Servers : task[s] \in {"start", "attach", "settle", "sync"}}
Goto(s, t) == task' = [task EXCEPT ![s] = t]

\* Mutant: only the saved state counts.
DecideByFile(s, r) == IF states[s] \in On THEN "start" ELSE "settle"

\* Mutant: a server that was starting is not brought back.
DecideRunning(s, r) ==
    IF ~r /\ states[s] = "running" THEN "start"
    ELSE IF r \/ st[s] # "offline" THEN "attach" ELSE "settle"

\* What to do with a server whose container was found running or not.
Decide(s, r) ==
    IF ~r /\ states[s] \in On THEN "start"
    ELSE IF r \/ st[s] # "offline" THEN "attach" ELSE "settle"

\* IsRunning, with a timeout. An error counts as not running.
Inspect(s) ==
    /\ phase = "boot" /\ task[s] = "wait" /\ Cardinality(Busy) < Workers
    /\ \/ s \notin hung /\ Goto(s, Decide(s, s \in cont)) /\ UNCHANGED <<blind, faults>>
       \/ DockerFails(s) /\ Goto(s, Decide(s, FALSE)) /\ blind' = blind \cup {s}
    /\ UNCHANGED <<phase, manager, todo, at, states, diskVars, envVars, suspended, worldVars, kept>>

\* The configuration of the panel takes the place of ours, and a process that
\* runs although it is suspended is stopped by a goroutine of its own.
Sync(s) ==
    /\ suspended' = IF s \in panel THEN suspended \cup {s} ELSE suspended \ {s}
    /\ enforcing' = IF s \in panel /\ st[s] # "offline"
                      THEN enforcing \cup {s} ELSE enforcing

\* A start that goes wrong on the way: the panel or Docker gives an error, after
\* which the state is as it was, offline, or running for a container that was
\* found running; or the attachment finds the stream of the last container. The
\* container may have been started, and its output may be read.
StartFails(s) ==
    /\ cont' \in {cont, cont \cup {s}} /\ attached' \in {attached, attached \cup {s}}
    /\ \E state \in {"offline", "starting", "running"} : SetState(s, state)
    /\ kept' = kept \ {s} /\ blind' = blind \cup {s}

\* HandlePowerAction(start): syncs, refuses a suspended server, takes over a
\* container that runs and boots one that does not; or fails on the way. The
\* inspection, the removal and the creation of the container have no deadline.
TaskStart(s) ==
    /\ phase = "boot" /\ task[s] = "start"
    /\ Goto(s, "sync")
    /\ \/ /\ Sync(s) /\ s \notin panel \cup hung
          /\ cont' = cont \cup {s} /\ attached' = attached \cup {s}
          /\ SetState(s, IF s \in cont THEN "running" ELSE "starting")
          /\ UNCHANGED <<kept, blind, faults>>
       \/ /\ Sync(s) /\ s \in panel /\ kept' = kept \ {s}
          /\ UNCHANGED <<cont, attached, st, blind, faults>>
       \/ Fault /\ StartFails(s) /\ UNCHANGED <<enforcing, suspended>>
    /\ UNCHANGED <<phase, manager, todo, at, states, diskVars, worldVars>>

\* The container runs: it is not touched, only its output is read again.
TaskAttach(s) ==
    /\ phase = "boot" /\ task[s] = "attach"
    /\ Goto(s, "sync") /\ SetState(s, "running")
    /\ \/ s \notin hung /\ attached' = attached \cup {s} /\ UNCHANGED <<blind, faults>>
       \/ DockerFails(s) /\ blind' = blind \cup {s} /\ UNCHANGED attached
    /\ UNCHANGED <<phase, manager, todo, at, states, diskVars, cont, enforcing, suspended,
                   worldVars, kept>>

TaskSettle(s) ==
    /\ phase = "boot" /\ task[s] = "settle"
    /\ Goto(s, "sync") /\ SetState(s, "offline")
    /\ UNCHANGED <<phase, manager, todo, at, states, diskVars, cont, attached, enforcing,
                   suspended, worldVars, kept, blind, faults>>

\* Mutant: only a server that is being started is synced.
SyncStarting(s) ==
    /\ phase = "boot" /\ task[s] = "sync" /\ Goto(s, "done")
    /\ \/ st[s] = "starting" /\ Sync(s) /\ UNCHANGED <<blind, faults>>
       \/ st[s] # "starting" /\ UNCHANGED <<suspended, enforcing, blind, faults>>
    /\ kept' = kept \ enforcing'
    /\ UNCHANGED <<phase, manager, todo, at, states, diskVars, cont, st, attached, worldVars>>

\* A server that runs is synced with the panel, which may fail.
TaskSync(s) ==
    /\ phase = "boot" /\ task[s] = "sync" /\ Goto(s, "done")
    /\ \/ st[s] \in On /\ Sync(s) /\ UNCHANGED <<blind, faults>>
       \/ /\ st[s] \in On /\ Fault /\ blind' = blind \cup {s}
          /\ UNCHANGED <<suspended, enforcing>>
       \/ st[s] \notin On /\ UNCHANGED <<suspended, enforcing, blind, faults>>
    /\ kept' = kept \ enforcing'
    /\ UNCHANGED <<phase, manager, todo, at, states, diskVars, cont, st, attached, worldVars>>

\* WaitForStop, which ends by killing the process, or with an error that is only
\* logged: the process then runs on with nobody at it.
Enforce(s) ==
    /\ s \in enforcing /\ enforcing' = enforcing \ {s}
    /\ kept' = kept \ {s}
    /\ \/ /\ s \notin hung
          /\ cont' = cont \ {s} /\ attached' = attached \ {s} /\ SetState(s, "offline")
          /\ UNCHANGED <<blind, faults>>
       \/ /\ DockerFails(s) /\ blind' = blind \cup {s}
          /\ SetState(s, IF st[s] = "offline" THEN "offline" ELSE "stopping")
          /\ UNCHANGED <<cont, attached>>
    /\ UNCHANGED <<phase, bootVars, diskVars, suspended, worldVars>>
------------------------------------------------------------------------------
\* PersistStates, at the ticks of a timer that is started before the tasks.

Collect ==
    /\ phase \in {"boot", "serving"} /\ saver = NoSave
    /\ saver' = [pc |-> "collected",
                 data |-> [s \in Servers |-> IF s \in manager THEN st[s] ELSE Absent]]
    /\ UNCHANGED <<phase, bootVars, file, envVars, suspended, worldVars, kept, blind, faults>>

\* os.WriteFile truncates the file before it writes.
Truncate ==
    /\ saver # NoSave /\ saver.pc = "collected"
    /\ file' = Empty /\ saver' = [saver EXCEPT !.pc = "truncated"]
    /\ kept' = {}
    /\ UNCHANGED <<phase, bootVars, envVars, suspended, worldVars, blind, faults>>

\* A server that was saved as being on, and still is, will be brought back.
Write ==
    /\ saver # NoSave /\ saver.pc = "truncated"
    /\ file' = saver.data /\ saver' = NoSave
    /\ kept' = {s \in manager : saver.data[s] \in On /\ st[s] \in On
                                  /\ s \in cont \ (blind \cup enforcing \cup suspended)
                                  /\ task[s] = "done"}
    /\ UNCHANGED <<phase, bootVars, envVars, suspended, worldVars, blind, faults>>
------------------------------------------------------------------------------
\* What happens to the servers otherwise.

\* Power actions of users, once requests are served. That the process reports to
\* be started makes no difference to a boot: starting stands for both states.
PowerOn(s) ==
    /\ phase = "serving" /\ s \in manager \ suspended /\ st[s] = "offline"
    /\ \/ /\ s \notin hung
          /\ SetState(s, IF s \in cont THEN "running" ELSE "starting")
          /\ cont' = cont \cup {s} /\ attached' = attached \cup {s}
          /\ blind' = blind \ {s} /\ UNCHANGED <<kept, faults>>
       \/ Fault /\ StartFails(s)
    /\ UNCHANGED <<phase, bootVars, diskVars, enforcing, suspended, worldVars>>

PowerOff(s) ==
    /\ phase = "serving" /\ s \in manager /\ st[s] \in On
    /\ SetState(s, "stopping") /\ kept' = kept \ {s}
    /\ UNCHANGED <<phase, bootVars, diskVars, cont, attached, enforcing, suspended, worldVars,
                   blind, faults>>

\* The process ends, by itself or because it was told to. The daemon sees it
\* if it reads the output.
Exits(s) ==
    /\ s \in cont /\ cont' = cont \ {s} /\ attached' = attached \ {s}
    /\ IF s \in attached THEN SetState(s, "offline") ELSE UNCHANGED st
    /\ kept' = IF phase \in {"down", "load"} \/ task[s] \in {"none", "wait"}
                 THEN kept ELSE kept \ {s}
    /\ UNCHANGED <<phase, bootVars, diskVars, enforcing, suspended, worldVars, blind, faults>>

\* The panel suspends a server while the daemon cannot be told.
PanelSuspends(s) ==
    /\ phase = "down" /\ s \notin panel /\ panel' = panel \cup {s}
    /\ UNCHANGED <<phase, bootVars, diskVars, envVars, suspended, hung, kept, blind, faults>>

\* Docker stops to answer for a container, at the latest until the next crash.
DockerHangs(s) ==
    /\ s \notin hung /\ Fault /\ hung' = hung \cup {s}
    /\ UNCHANGED <<phase, bootVars, diskVars, envVars, suspended, panel, kept, blind>>

\* All that is in memory is gone. With the machine, the containers stop.
Crash ==
    /\ phase # "down" /\ Fault /\ phase' = "down"
    /\ cont' \in {cont, {}} /\ hung' \in {hung, {}}
    /\ manager' = {} /\ todo' = {} /\ at' = NoServer
    /\ task' = [s \in Servers |-> "none"] /\ states' = Empty
    /\ saver' = NoSave /\ attached' = {} /\ enforcing' = {}
    /\ st' = [s \in Servers |-> "offline"]
    /\ suspended' = {} /\ blind' = {}
    /\ UNCHANGED <<file, panel, kept>>

Main == NewManager \/ ReadStates \/ Serve \/ \E s \in Servers : NextServer(s)

Task(s) ==
    CreateEnvironment(s) \/ Inspect(s) \/ TaskStart(s) \/ TaskAttach(s) \/ TaskSettle(s)
      \/ TaskSync(s)

Persist == Collect \/ Truncate \/ Write

Next ==
    \/ Main \/ Persist \/ Crash
    \/ \E s \in Servers : \/ Task(s) \/ Enforce(s)
                          \/ PowerOn(s) \/ PowerOff(s) \/ Exits(s)
                          \/ PanelSuspends(s) \/ DockerHangs(s)

\* Calls to Docker without a deadline that nobody answers: CreateEnvironment in
\* the loop, and the start of a task.
Hangs(s) == s \in hung /\ (at = s \/ (task[s] = "start" /\ s \notin panel))

\* The goroutines of the boot go on unless they are in such a call; users, the
\* panel and the processes do as they like.
Fairness == WF_vars(Main) /\ \A s \in Servers : WF_vars(~Hangs(s) /\ Task(s))

Spec == Init /\ [][Next]_vars
FairSpec == Spec /\ Fairness
------------------------------------------------------------------------------
\* Properties.

\* Once requests are served, a server that was on when the states were saved
\* and that nobody has stopped since is on: after a crash of the daemon or of
\* the machine, at any moment of an earlier boot as well.
PickedUp ==
    phase = "serving" => \A s \in kept \cap manager : st[s] \in On /\ s \in cont

\* Once requests are served, the daemon knows of every process that runs and reads
\* its output, whatever was saved, unless an error was only logged for it: by its
\* task, by a start or by the stop of a suspended server.
RunningIsTracked ==
    phase = "serving" =>
        \A s \in (cont \cap manager) \ blind : st[s] # "offline" /\ s \in attached

\* A server that was suspended while the daemon was away does not go on running
\* once requests are served: it is stopped, or somebody is at it, unless its task
\* or the goroutine that stops it met an error, which is only logged.
SuspensionEnforced ==
    phase = "serving" =>
        \A s \in (panel \cap manager) \ blind : s \notin cont \/ s \in enforcing

\* Each boot comes to an end, unless Docker never answers the creation of an
\* environment or a start, neither of which has a deadline: the timed context in
\* cmd/root.go, which is to cost "a single failed server instance" and not "an
\* entire offline node", covers the other calls.
BootFinishes == []<>(phase # "boot") \/ <>[](\E s \in Servers : Hangs(s))
==============================================================================
