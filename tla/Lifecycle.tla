------------------------------ MODULE Lifecycle ------------------------------
(***************************************************************************)
(* The long operations on a server: installation and reinstallation        *)
(* (server/install.go), restoration of a backup                            *)
(* (router/router_server_backup.go, server/backup.go), and deletion. Each  *)
(* is a goroutine of its own; flags keep power actions out meanwhile, and  *)
(* the panel is told the result. A power action has its checks here and    *)
(* its effect in one step; its details are in ServerPower.                 *)
(***************************************************************************)
EXTENDS Naturals, FiniteSets

CONSTANTS
    Jobs,        \* requests to install, reinstall or restore
    MaxFaults    \* bound on failures

ASSUME LifecycleAssumption == MaxFaults \in Nat

VARIABLES
    installing, restoring,   \* the flags of the server
    suspended,   \* Configuration.Suspended
    panel,       \* is the server suspended on the panel?
    deleted,     \* the server's context is cancelled
    proc,        \* the server's process runs
    state,       \* Environment.st: is it offline?
    enforcing,   \* SyncWithEnvironment stops the server
    starter,     \* a power action that starts the server
    kind, pc,    \* what a job does, and where it is
    good,        \* a job has met no error
    installer,   \* the container <id>_installer
    script,      \* the job whose script is in the temporary directory
    told,        \* what the panel has heard of a job
    completed,   \* history: jobs whose script has run to its end
    exposed,     \* history: restores whose flag another one has cleared
    raced,       \* history: restores that met a start or an unseen process
    faults

flags == <<installing, restoring, suspended>>
server == <<proc, state, enforcing>>
jobs == <<kind, pc, good, told>>
install == <<installer, script, completed>>
history == <<exposed, raced>>
vars == <<flags, panel, deleted, server, starter, jobs, install, history, faults>>

NoJob == "none"
NoContainer == [owner |-> NoJob, st |-> "absent"]
Kinds == {"install", "reinstall", "restore"}

Init ==
    /\ installing = FALSE /\ restoring = FALSE /\ suspended = FALSE /\ panel = FALSE
    /\ deleted = FALSE /\ proc = FALSE /\ state = "offline" /\ enforcing = FALSE
    /\ starter = "idle"
    /\ kind = [j \in Jobs |-> NoJob] /\ pc = [j \in Jobs |-> "idle"]
    /\ good = [j \in Jobs |-> TRUE] /\ told = [j \in Jobs |-> "nothing"]
    /\ installer = NoContainer /\ script = NoJob
    /\ completed = {} /\ exposed = {} /\ raced = {} /\ faults = 0

\* The part of an installation that holds the flag, and of a restoration.
InRun == {"before", "create", "start", "wait", "after", "release"}
InRestore == {"truncate", "locate", "suspend", "quiesce", "write", "answer", "unsuspend", "clear"}

TypeOK ==
    /\ {installing, restoring, suspended, panel, deleted, proc, enforcing} \subseteq BOOLEAN
    /\ state \in {"offline", "on"}
    /\ starter \in {"idle", "locked", "sync", "gate", "boot"}
    /\ kind \in [Jobs -> Kinds \cup {NoJob}]
    /\ pc \in [Jobs -> {"idle", "stop", "sync", "script", "swap", "report", "offline", "done"}
                       \cup InRun \cup InRestore]
    /\ good \in [Jobs -> BOOLEAN]
    /\ told \in [Jobs -> {"nothing", "success", "failure"}]
    /\ installer \in {NoContainer} \cup [owner : Jobs, st : {"created", "running", "exited"}]
    /\ script \in Jobs \cup {NoJob}
    /\ completed \subseteq Jobs /\ exposed \subseteq Jobs /\ raced \subseteq Jobs
    /\ faults \in 0 .. MaxFaults

Fault == faults < MaxFaults /\ faults' = faults + 1
Goes(j, to) == pc' = [pc EXCEPT ![j] = to]
Fails(j, to) == Goes(j, to) /\ good' = [good EXCEPT ![j] = FALSE]
IsInstall(j) == kind[j] \in {"install", "reinstall"}

\* A step of a job that may fail: because of a fault, or because it uses the
\* context of a server that is deleted.
Either(j, next, failure) ==
    \/ ~deleted /\ Goes(j, next) /\ UNCHANGED <<good, faults>>
    \/ deleted /\ Fails(j, failure) /\ UNCHANGED faults
    \/ Fault /\ Fails(j, failure)

\* A step that may, or may not, use that context.
Attempts(j, next, failure) ==
    \/ Goes(j, next) /\ UNCHANGED <<good, faults>>
    \/ (IF deleted THEN UNCHANGED faults ELSE Fault) /\ Fails(j, failure)
------------------------------------------------------------------------------
\* The requests. A reinstallation is refused while a power action runs.
Accept(j, k) ==
    /\ pc[j] = "idle" /\ ~deleted
    /\ k = "reinstall" => starter = "idle"
    /\ kind' = [kind EXCEPT ![j] = k]
    /\ Goes(j, CASE k = "install" -> "sync" [] k = "reinstall" -> "stop" [] OTHER -> "truncate")
    /\ restoring' = (restoring \/ k = "restore")
    /\ raced' = IF k = "restore" /\ (starter # "idle" \/ (proc /\ state = "offline"))
                THEN raced \cup {j} ELSE raced
    /\ UNCHANGED <<installing, suspended, panel, deleted, server, starter, good, told, install,
                   exposed, faults>>

\* Reinstall: WaitForStop of ten seconds, then the process is killed.
StopForReinstall(j) ==
    /\ pc[j] = "stop"
    /\ \/ state = "offline" /\ Goes(j, "sync") /\ UNCHANGED <<good, faults, proc, state>>
       \/ /\ state # "offline" /\ ~deleted
          /\ proc' = FALSE /\ state' = "offline"
          /\ Goes(j, "sync") /\ UNCHANGED <<good, faults>>
       \/ state # "offline" /\ deleted /\ Fails(j, "done") /\ UNCHANGED <<proc, state, faults>>
       \/ state # "offline" /\ Fault /\ Fails(j, "done") /\ UNCHANGED <<proc, state>>
    /\ UNCHANGED <<flags, panel, deleted, enforcing, starter, kind, told, install, history>>

\* Sync replaces the whole configuration; a suspended server is stopped.
Sync ==
    /\ suspended' = panel
    /\ enforcing' = (enforcing \/ (panel /\ state # "offline"))

\* The error of Sync is only logged: the panel is not told.
SyncForInstall(j) ==
    /\ pc[j] = "sync"
    /\ Either(j, "script", "done")
    /\ IF pc'[j] = "script" THEN Sync ELSE UNCHANGED <<suspended, enforcing>>
    /\ UNCHANGED <<installing, restoring, panel, deleted, proc, state, starter, kind, told,
                   install, history>>

\* internalInstall: GetInstallationScript; or the scripts are to be skipped.
GetScript(j) ==
    /\ pc[j] = "script"
    /\ \/ Either(j, "swap", "report") /\ UNCHANGED completed
       \/ /\ Goes(j, "report") /\ completed' = completed \cup {j}
          /\ UNCHANGED <<good, faults>>
    /\ UNCHANGED <<flags, panel, deleted, server, starter, kind, told, installer, script, history>>
------------------------------------------------------------------------------
\* InstallationProcess.Run.

\* Mutant: the flag is set without a test.
SwapAlways(j) ==
    /\ pc[j] = "swap"
    /\ installing' = TRUE /\ Goes(j, "before")
    /\ UNCHANGED <<restoring, suspended, panel, deleted, server, starter, kind, told, install,
                   history, faults, good>>

\* installing.SwapIf(true).
Swap(j) ==
    /\ pc[j] = "swap"
    /\ installing' = TRUE
    /\ IF installing THEN Fails(j, "report") ELSE Goes(j, "before") /\ UNCHANGED good
    /\ UNCHANGED <<restoring, suspended, panel, deleted, server, starter, kind, told, install,
                   history, faults>>

\* ContainerRemove with the server's context: forced, and by name.
RemoveContainer ==
    \/ ~deleted /\ installer' = NoContainer /\ UNCHANGED faults
    \/ deleted /\ UNCHANGED <<installer, faults>>
    \/ Fault /\ UNCHANGED installer

\* The script is written, the image pulled, an old container removed; any error
\* ends the process.
BeforeExecute(j) ==
    /\ pc[j] = "before"
    /\ Either(j, "create", "release")
    /\ script' \in (IF pc'[j] = "create" THEN {j} ELSE {script, j})
    /\ installer' \in (IF pc'[j] = "create" THEN {NoContainer} ELSE {installer})
    /\ UNCHANGED <<flags, panel, deleted, server, starter, kind, told, completed, history>>

\* Execute. On each way out the temporary directory is removed (but not if the
\* data directory is missing, before the removal is deferred).
ContainerCreate(j) ==
    /\ pc[j] = "create"
    /\ \/ /\ installer = NoContainer /\ Either(j, "start", "after")
          /\ installer' = IF pc'[j] = "start" THEN [owner |-> j, st |-> "created"] ELSE installer
       \/ /\ installer # NoContainer /\ Fails(j, "after")
          /\ UNCHANGED <<installer, faults>>
    /\ script' \in (IF pc'[j] = "start" THEN {script} ELSE {script, NoJob})
    /\ UNCHANGED <<flags, panel, deleted, server, starter, kind, told, completed, history>>

ContainerStart(j) ==
    /\ pc[j] = "start"
    /\ IF installer.owner = j THEN Either(j, "wait", "after")
       ELSE Fails(j, "after") /\ UNCHANGED faults
    /\ installer' = IF pc'[j] = "wait" THEN [installer EXCEPT !.st = "running"] ELSE installer
    /\ script' = IF pc'[j] = "wait" THEN script ELSE NoJob
    /\ UNCHANGED <<flags, panel, deleted, server, starter, kind, told, completed, history>>

\* The script comes to its end, or fails: its exit code is not looked at.
ScriptEnds ==
    /\ installer.st = "running"
    /\ installer' = [installer EXCEPT !.st = "exited"]
    /\ completed' = IF script = installer.owner THEN completed \cup {script} ELSE completed
    /\ UNCHANGED <<flags, panel, deleted, server, starter, jobs, script, history, faults>>

\* Mutant: an error while waiting counts as the end of the script.
WaitAny(j) ==
    /\ pc[j] = "wait"
    /\ \/ (installer.owner # j \/ installer.st = "exited" \/ deleted) /\ UNCHANGED faults
       \/ Fault
    /\ Goes(j, "after") /\ UNCHANGED good
    /\ script' = NoJob
    /\ UNCHANGED <<flags, panel, deleted, server, starter, kind, told, installer, completed, history>>

\* ContainerWait: the container does not run any more (also if it is removed),
\* or the wait fails.
ContainerWait(j) ==
    /\ pc[j] = "wait"
    /\ \/ /\ ~deleted /\ (installer.owner # j \/ installer.st = "exited")
          /\ Goes(j, "after") /\ UNCHANGED <<good, faults>>
       \/ deleted /\ Fails(j, "after") /\ UNCHANGED faults
       \/ Fault /\ Fails(j, "after")
    /\ script' = NoJob
    /\ UNCHANGED <<flags, panel, deleted, server, starter, kind, told, installer, completed, history>>

\* AfterExecute, or RemoveContainer after an error: their errors are ignored.
AfterExecute(j) ==
    /\ pc[j] = "after"
    /\ RemoveContainer
    /\ Goes(j, "release")
    /\ UNCHANGED <<flags, panel, deleted, server, starter, kind, good, told, script, completed,
                   history>>

\* Mutant: the flag is kept after an error.
ReleaseGood(j) ==
    /\ pc[j] = "release"
    /\ installing' = ~good[j] /\ Goes(j, "report")
    /\ UNCHANGED <<restoring, suspended, panel, deleted, server, starter, kind, good, told,
                   install, history, faults>>

\* The deferred release of the flag.
Release(j) ==
    /\ pc[j] = "release"
    /\ installing' = FALSE /\ Goes(j, "report")
    /\ UNCHANGED <<restoring, suspended, panel, deleted, server, starter, kind, good, told,
                   install, history, faults>>

Tell(j) ==
    \/ ~deleted /\ told' = [told EXCEPT ![j] = IF good[j] THEN "success" ELSE "failure"]
                /\ UNCHANGED faults
    \/ deleted /\ UNCHANGED <<told, faults>>
    \/ Fault /\ UNCHANGED told

\* SyncInstallState: its error is only logged.
SyncInstallState(j) ==
    /\ pc[j] = "report"
    /\ Tell(j) /\ Goes(j, "offline")
    /\ UNCHANGED <<flags, panel, deleted, server, starter, kind, good, install, history>>

\* Mutant: the state is left blank.
SetBlank(j) ==
    /\ pc[j] = "offline"
    /\ state' = "" /\ Goes(j, "done")
    /\ UNCHANGED <<flags, panel, deleted, proc, enforcing, starter, kind, good, told, install,
                   history, faults>>

\* install: the state is set to offline, whatever runs by now.
SetOffline(j) ==
    /\ pc[j] = "offline"
    /\ state' = "offline" /\ Goes(j, "done")
    /\ raced' = IF proc THEN raced \cup {k \in Jobs : pc[k] \in InRestore} ELSE raced
    /\ UNCHANGED <<flags, panel, deleted, proc, enforcing, starter, kind, good, told, install,
                   exposed, faults>>
------------------------------------------------------------------------------
\* postServerRestoreBackup and RestoreBackup.

\* SetRestoring(false), also when another restoration has set the flag.
ClearRestoring(j) ==
    /\ restoring' = FALSE
    /\ UNCHANGED raced
    /\ exposed' = exposed \cup {k \in Jobs \ {j} : kind[k] = "restore" /\ pc[k] \in InRestore}

\* Mutant: hasError is not reset, and the handler clears the flag when it returns.
PrepareClearing(j, here, next) ==
    /\ pc[j] = here /\ Attempts(j, next, "done")
    /\ IF next = "suspend" \/ pc'[j] = "done"
       THEN restoring' = FALSE /\ UNCHANGED history ELSE UNCHANGED <<restoring, history>>
    /\ UNCHANGED <<installing, suspended, panel, deleted, server, starter, kind, told, install>>

\* The handler: the directory is truncated if asked for; the archive is found, or
\* its download begins, with the server's context. An error clears the flag; the
\* panel sees it in the answer.
Prepare(j, here, next) ==
    /\ pc[j] = here /\ Attempts(j, next, "done")
    /\ IF pc'[j] = "done" THEN ClearRestoring(j) ELSE UNCHANGED <<restoring, history>>
    /\ UNCHANGED <<installing, suspended, panel, deleted, server, starter, kind, told, install>>

SuspendForRestore(j) ==
    /\ pc[j] = "suspend"
    /\ suspended' = TRUE /\ Goes(j, "quiesce")
    /\ UNCHANGED <<installing, restoring, panel, deleted, server, starter, kind, good, told,
                   install, history, faults>>

\* WaitForStop for two minutes, if the state is not offline.
StopForRestore(j) ==
    /\ pc[j] = "quiesce"
    /\ IF state = "offline"
       THEN Goes(j, "write") /\ UNCHANGED <<good, faults, proc, state>>
       ELSE /\ Either(j, "write", "answer")
            /\ IF pc'[j] = "write" THEN proc' = FALSE /\ state' = "offline"
               ELSE UNCHANGED <<proc, state>>
    /\ UNCHANGED <<flags, panel, deleted, enforcing, starter, kind, told, install, history>>

\* Restore of the adapters: the archive is opened or streamed, and read by a
\* library, which may refuse the reader it is given.
Restore(j) == Either(j, "answer", "answer")

\* Every file of the archive is written to the server's directory.
WriteFiles(j) ==
    /\ pc[j] = "write"
    /\ Restore(j)
    /\ UNCHANGED <<flags, panel, deleted, server, starter, kind, told, install, history>>

SendRestorationStatus(j) ==
    /\ pc[j] = "answer"
    /\ Tell(j) /\ Goes(j, "unsuspend")
    /\ UNCHANGED <<flags, panel, deleted, server, starter, kind, good, install, history>>

\* The deferred SetSuspended(false).
Unsuspend(j) ==
    /\ pc[j] = "unsuspend"
    /\ suspended' = FALSE /\ Goes(j, "clear")
    /\ UNCHANGED <<installing, restoring, panel, deleted, server, starter, kind, good, told,
                   install, history, faults>>

EndRestore(j) ==
    /\ pc[j] = "clear"
    /\ ClearRestoring(j) /\ Goes(j, "done")
    /\ UNCHANGED <<installing, suspended, panel, deleted, server, starter, kind, good, told,
                   install, faults>>
------------------------------------------------------------------------------
\* A power action that starts the server (HandlePowerAction).

\* Mutant: a restoration does not keep starts out.
StartUnchecked ==
    /\ starter = "idle" /\ ~deleted
    /\ ~installing
    /\ starter' = "locked"
    /\ UNCHANGED <<flags, panel, deleted, server, jobs, install, history, faults>>

StartRequest ==
    /\ starter = "idle" /\ ~deleted
    /\ ~installing /\ ~restoring
    /\ starter' = "locked"
    /\ UNCHANGED <<flags, panel, deleted, server, jobs, install, history, faults>>

StartCheckState ==
    /\ starter = "locked"
    /\ starter' = IF state = "offline" THEN "sync" ELSE "idle"
    /\ UNCHANGED <<flags, panel, deleted, server, jobs, install, history, faults>>

StartSync ==
    /\ starter = "sync"
    /\ \/ ~deleted /\ Sync /\ starter' = "gate" /\ UNCHANGED faults
       \/ deleted /\ starter' = "idle" /\ UNCHANGED <<suspended, enforcing, faults>>
       \/ Fault /\ starter' = "idle" /\ UNCHANGED <<suspended, enforcing>>
    /\ UNCHANGED <<installing, restoring, panel, deleted, proc, state, jobs, install, history>>

StartGate ==
    /\ starter = "gate"
    /\ starter' = IF suspended THEN "idle" ELSE "boot"
    /\ UNCHANGED <<flags, panel, deleted, server, jobs, install, history, faults>>

StartBoot ==
    /\ starter = "boot" /\ starter' = "idle"
    /\ IF deleted THEN UNCHANGED <<proc, state>> ELSE proc' = TRUE /\ state' = "on"
    /\ UNCHANGED <<flags, panel, deleted, enforcing, jobs, install, history, faults>>

\* The goroutine of SyncWithEnvironment: an error of WaitForStop is only logged.
Enforce ==
    /\ enforcing /\ enforcing' = FALSE
    /\ \/ ~deleted /\ proc' = FALSE /\ state' = "offline" /\ UNCHANGED faults
       \/ (IF deleted THEN UNCHANGED faults ELSE Fault) /\ UNCHANGED <<proc, state>>
    /\ UNCHANGED <<flags, panel, deleted, starter, jobs, install, history>>

ProcessExits ==
    /\ proc /\ proc' = FALSE /\ state' = "offline"
    /\ UNCHANGED <<flags, panel, deleted, enforcing, starter, jobs, install, history, faults>>

PanelSuspends ==
    /\ panel' = ~panel
    /\ UNCHANGED <<flags, deleted, server, starter, jobs, install, history, faults>>

\* deleteServer: the server is suspended, its context is cancelled, and its
\* container destroyed, but not that of an installation.
DeleteServer ==
    /\ ~deleted /\ deleted' = TRUE
    /\ suspended' = TRUE /\ proc' = FALSE /\ state' = "offline"
    /\ UNCHANGED <<installing, restoring, panel, enforcing, starter, jobs, install, history, faults>>
------------------------------------------------------------------------------
InstallStep(j) ==
    \/ StopForReinstall(j) \/ SyncForInstall(j) \/ GetScript(j) \/ Swap(j) \/ BeforeExecute(j)
    \/ ContainerCreate(j) \/ ContainerStart(j) \/ ContainerWait(j) \/ AfterExecute(j)
    \/ Release(j) \/ SyncInstallState(j) \/ SetOffline(j)

RestoreStep(j) ==
    \/ Prepare(j, "truncate", "locate") \/ Prepare(j, "locate", "suspend")
    \/ SuspendForRestore(j) \/ StopForRestore(j) \/ WriteFiles(j) \/ SendRestorationStatus(j)
    \/ Unsuspend(j) \/ EndRestore(j)

StartStep == StartCheckState \/ StartSync \/ StartGate \/ StartBoot

Next ==
    \/ \E j \in Jobs : InstallStep(j) \/ RestoreStep(j) \/ \E k \in Kinds : Accept(j, k)
    \/ ScriptEnds \/ StartRequest \/ StartStep
    \/ Enforce \/ ProcessExits \/ PanelSuspends \/ DeleteServer

Spec == Init /\ [][Next]_vars

\* Calls that need not return: those to Docker, which have no deadline and end at
\* the latest when the server is deleted; the stop command, which is written to the
\* process; the script; and the rest of a download that goes to the disk.
Unanswered(j) ==
    \/ ~deleted /\ \/ pc[j] \in {"before", "create", "start", "wait", "after"}
                   \/ pc[j] \in {"stop", "quiesce"} /\ state # "offline"
    \/ pc[j] = "write"

\* Goroutines go on, except in such a call; the panel's client has a timeout. The
\* wait for a process that comes and goes ends when it is gone.
FairSpec ==
    /\ Spec
    /\ \A j \in Jobs : SF_vars(~Unanswered(j) /\ (InstallStep(j) \/ RestoreStep(j)))
------------------------------------------------------------------------------
Running(j) == IsInstall(j) /\ pc[j] \in InRun
Restoring(j) == kind[j] = "restore" /\ pc[j] \in InRestore

\* The flags that keep power actions out are up for as long as an operation works
\* (Run, postServerRestoreBackup): installations exclude each other, and a
\* restoration loses its flag only to another one that ended meanwhile.
Guarded ==
    /\ \A j \in Jobs : Running(j) => installing /\ \A k \in Jobs \ {j} : ~Running(k)
    /\ \A j \in Jobs : Restoring(j) => restoring \/ j \in exposed

\* The panel hears of a successful installation only if the script of this very
\* request has run to its end in its own container (install, Execute).
InstallHonest ==
    \A j \in Jobs : (IsInstall(j) /\ told[j] = "success") => j \in completed

\* A restoration writes to a directory in which nothing else runs (RestoreBackup:
\* not "until we have completely stopped the running instance"), although each Sync
\* clears its suspension: the flag keeps starts out, unless it was lost, a start was
\* already past the check, or an installation has marked a server offline that runs.
WritesAlone ==
    \A j \in Jobs : pc[j] = "write" /\ j \notin exposed \cup raced => ~proc

\* Every operation ends and gives its flag back, also when it fails or the server
\* is deleted, unless it is in a call that is never answered: a flag that stays up
\* for ever has such an operation behind it.
FlagsReleased ==
    <>[](/\ installing => \E j \in Jobs : Running(j) /\ Unanswered(j)
         /\ restoring => \E j \in Jobs : Restoring(j) /\ Unanswered(j)
         /\ \A j \in Jobs : Running(j) \/ Restoring(j) => Unanswered(j))
==============================================================================
