---------------------------- MODULE ServerPower ----------------------------
(***************************************************************************)
(* Power management of one server: HandlePowerAction and the power lock    *)
(* (server/power.go, system/locker.go), the state-change listener and      *)
(* crash detection (server/listeners.go, server/server.go,                 *)
(* server/crash.go), and the operations that stop a server without taking  *)
(* the lock (suspension, transfer, deletion), over the Docker environment  *)
(* of module DockerEnv.                                                    *)
(*                                                                         *)
(* Clients run requests; Handlers are the goroutines started for each      *)
(* state event, which may turn into crash handlers and then start the      *)
(* server; Consoles are the goroutines started for each console line.      *)
(***************************************************************************)
EXTENDS Locker, DockerEnv

CONSTANTS
  Clients, Handlers, Consoles,   \* the three kinds of thread
  Ops,                           \* the operations clients request
  CrashDetectionEnabled, DetectCleanExitAsCrash

ASSUME ServerPowerAssumption ==
  /\ Threads = Clients \cup Handlers \cup Consoles
  /\ Clients \cap (Handlers \cup Consoles) = {} /\ Handlers \cap Consoles = {}
  /\ Ops \subseteq {"start", "stop", "restart", "kill", "enforce", "transfer",
                    "command", "delete"}
  /\ CrashDetectionEnabled \in BOOLEAN
  /\ DetectCleanExitAsCrash \in BOOLEAN

VARIABLES
  holds,         \* thread t has deferred the release of the power lock
  tracked,       \* Server.resources.State
  prev, cur,     \* OnStateChange's prevState (was it online?) and st
  recentCrash,   \* the last crash is younger than the crash timeout
  transferring,  \* Server.transferring
  deleted,       \* the server is no longer in the manager
  panicked       \* the daemon process has died

serverVars == <<tracked, prev, cur, recentCrash, transferring, deleted, panicked>>
vars == <<lockerVars, envVars, cancelled, threadVars, holds, serverVars>>

Labels ==
  {"idle", "begin", "lock", "check", "sync", "done", "failed",
   "inspect", "starting", "remove", "create", "attach", "reattach", "boot",
   "booting", "unwind", "unwound",
   "stop", "write", "writing", "native", "wait", "signal", "deadStopping", "deadOffline",
   "liveStopping", "sendSignal", "terminated",
   "flag", "archive", "giveUp",
   "cancel", "closeLock", "destroy", "destroyRemove", "destroyed", "destroyError",
   "loaded", "read", "stored", "crash", "exitState", "markCrash",
   "doneLine", "stopLine", "markRunning", "markOffline"}

Init ==
  /\ LockerInit /\ EnvInit
  /\ pc = [t \in Threads |-> "idle"]
  /\ op = [t \in Threads |-> "none"]
  /\ force = [t \in Threads |-> FALSE]
  /\ holds = [t \in Threads |-> FALSE]
  /\ tracked = "offline"
  /\ prev = [h \in Handlers |-> FALSE]
  /\ cur = [h \in Handlers |-> "offline"]
  /\ recentCrash = FALSE /\ transferring = FALSE
  /\ deleted = FALSE /\ panicked = FALSE

TypeOK ==
  /\ LockerTypeOK /\ EnvTypeOK
  /\ pc \in [Threads -> Labels]
  /\ op \in [Threads -> Operations]
  /\ force \in [Threads -> BOOLEAN]
  /\ holds \in [Threads -> BOOLEAN]
  /\ tracked \in States
  /\ prev \in [Handlers -> BOOLEAN]
  /\ cur \in [Handlers -> States]
  /\ recentCrash \in BOOLEAN /\ transferring \in BOOLEAN
  /\ deleted \in BOOLEAN /\ panicked \in BOOLEAN

----------------------------------------------------------------------------
\* Helpers.

lockVars == <<ch, closed, holds>>

\* Thread t starts to run operation o at label l.
Run(t, o, l) ==
  /\ pc' = [pc EXCEPT ![t] = l]
  /\ op' = [op EXCEPT ![t] = o]
  /\ force' = [force EXCEPT ![t] = FALSE]

Quit(t) == Run(t, "none", "idle")

----------------------------------------------------------------------------
\* Requests.  A request for a server that is still in the manager starts a
\* goroutine.  Only a running process is stopped for a suspension, and the
\* panel deletes a server once.
Entry(o) ==
  CASE o \in {"start", "stop", "restart", "kill"} -> "begin"
    [] o = "enforce" -> "stop"
    [] o = "transfer" -> "flag"
    [] o = "command" -> "write"
    [] o = "delete" -> "cancel"

Request(t) ==
  /\ pc[t] = "idle" /\ ~deleted
  /\ \E o \in Ops :
       /\ o = "enforce" => st # "offline"
       /\ o = "transfer" => ~transferring
       /\ o = "command" => cont \in Running
       /\ o = "delete" => ~cancelled /\ \A u \in Clients : op[u] # "delete"
       /\ Run(t, o, Entry(o))
  /\ UNCHANGED <<lockVars, envVars, cancelled, serverVars>>

----------------------------------------------------------------------------
\* HandlePowerAction.

\* The check of the protected states, made before the lock is asked for.
Begin(t) ==
  /\ pc[t] = "begin"
  /\ IF transferring THEN Quit(t) ELSE Goto(t, "lock")
  /\ UNCHANGED <<lockVars, envVars, cancelled, serverVars>>

\* First step under the lock.
Dispatch(t) ==
  /\ pc' = [pc EXCEPT ![t] = CASE op[t] = "start" -> "check"
                               [] op[t] = "kill" -> "signal"
                               [] OTHER -> "stop"]
  /\ force' = [force EXCEPT ![t] = op[t] = "kill"]
  /\ UNCHANGED op

AcquireLock(t) ==
  /\ pc[t] = "lock"
  /\ Acquired
  /\ holds' = [holds EXCEPT ![t] = TRUE]
  /\ Dispatch(t)
  /\ UNCHANGED <<envVars, cancelled, serverVars>>

\* Mutant: every action goes on when the lock is taken.
LockIgnored(t) ==
  /\ pc[t] = "lock"
  /\ ErrLockerLocked(cancelled)
  /\ Dispatch(t)
  /\ UNCHANGED <<holds, envVars, cancelled, serverVars>>

\* The lock is taken: a kill goes on without it, the others give up, at once
\* or when their wait ends.
LockBusy(t) ==
  /\ pc[t] = "lock"
  /\ ErrLockerLocked(cancelled)
  /\ IF op[t] = "kill" THEN IsLocked /\ Dispatch(t) ELSE Quit(t)
  /\ UNCHANGED <<holds, envVars, cancelled, serverVars>>

\* The channel is closed: the send panics, and nothing recovers the goroutine.
LockPanics(t) ==
  /\ pc[t] = "lock"
  /\ SendOnClosed
  /\ panicked' = TRUE
  /\ UNCHANGED <<holds, envVars, cancelled, threadVars, tracked, prev, cur,
                 recentCrash, transferring, deleted>>

\* A start is refused unless the state is offline.
CheckOffline(t) ==
  /\ pc[t] = "check"
  /\ Goto(t, IF st = "offline" THEN "sync" ELSE "failed")
  /\ UNCHANGED <<lockVars, envVars, cancelled, serverVars>>

\* onBeforeStart: the panel may be out of reach, the server suspended or out of
\* disk space, the ownership of its files not repairable.
OnBeforeStart(t) ==
  /\ pc[t] = "sync"
  /\ \/ Goto(t, "failed")
     \/ ~cancelled /\ Goto(t, "inspect")
  /\ UNCHANGED <<lockVars, envVars, cancelled, serverVars>>

\* Mutant: the release is deferred whether or not the lock was acquired.
FinishAlways(t) ==
  /\ pc[t] \in {"done", "failed"}
  /\ Release
  /\ holds' = [holds EXCEPT ![t] = FALSE]
  /\ Quit(t)
  /\ UNCHANGED <<envVars, cancelled, serverVars>>

\* Mutant: an error path returns before the release.
FinishLeaks(t) ==
  /\ pc[t] \in {"done", "failed"}
  /\ IF holds[t] /\ pc[t] = "done" THEN Release ELSE UNCHANGED lockerVars
  /\ holds' = [holds EXCEPT ![t] = FALSE]
  /\ Quit(t)
  /\ UNCHANGED <<envVars, cancelled, serverVars>>

\* The operation returns; the deferred release runs if the lock was acquired.
Finish(t) ==
  /\ pc[t] \in {"done", "failed"}
  /\ IF holds[t] THEN Release ELSE UNCHANGED lockerVars
  /\ holds' = [holds EXCEPT ![t] = FALSE]
  /\ Quit(t)
  /\ UNCHANGED <<envVars, cancelled, serverVars>>

PowerStep(t) ==
  \/ Begin(t) \/ AcquireLock(t) \/ LockBusy(t) \/ LockPanics(t)
  \/ CheckOffline(t) \/ OnBeforeStart(t) \/ Finish(t)

EnvStep(t) ==
  /\ StartStep(t) \/ StopStep(t) \/ DestroyStopping(t) \/ DestroyRemove(t)
  /\ UNCHANGED <<lockVars, serverVars>>

\* A write to a stream that is gone.  Nothing recovers the goroutines of power
\* actions, suspensions and websockets, so the daemon dies; the router recovers
\* the handler of postServerCommands.
WriteToNil(t) ==
  /\ WritePanics(t)
  /\ \/ panicked' = TRUE
     \/ op[t] = "command" /\ UNCHANGED panicked
  /\ UNCHANGED <<lockVars, tracked, prev, cur, recentCrash, transferring, deleted>>

----------------------------------------------------------------------------
\* postServerTransfer, after its check of the flag: the flag is set, the server
\* is stopped if it is not offline, and its files are sent to the other node.
SetTransferring(t) ==
  /\ pc[t] = "flag"
  /\ transferring' = TRUE
  /\ Goto(t, IF st = "offline" THEN "archive" ELSE "stop")
  /\ UNCHANGED <<lockVars, envVars, cancelled, tracked, prev, cur, recentCrash,
                 deleted, panicked>>

\* The transfer ends.  A failure clears the flag, a success leaves it set until
\* the panel deletes the server.
EndTransfer(t) ==
  /\ pc[t] \in {"archive", "giveUp"}
  /\ \/ transferring' = FALSE
     \/ pc[t] = "archive" /\ UNCHANGED transferring
  /\ Quit(t)
  /\ UNCHANGED <<lockVars, envVars, cancelled, tracked, prev, cur, recentCrash,
                 deleted, panicked>>

----------------------------------------------------------------------------
\* deleteServer: CleanupForDestroy cancels the context and destroys the lock,
\* then the environment is destroyed and the server leaves the manager.
CancelContext(t) ==
  /\ pc[t] = "cancel"
  /\ cancelled' = TRUE
  /\ Goto(t, "closeLock")
  /\ UNCHANGED <<lockVars, envVars, serverVars>>

CloseLock(t) ==
  /\ pc[t] = "closeLock"
  /\ Destroy
  /\ Goto(t, "destroy")
  /\ UNCHANGED <<holds, envVars, cancelled, serverVars>>

\* The end of Environment.Destroy.  An error keeps the server in the manager.
EndDelete(t) ==
  /\ pc[t] \in {"destroyed", "destroyError"}
  /\ SetState("offline")
  /\ deleted' = (pc[t] = "destroyed")
  /\ Quit(t)
  /\ UNCHANGED <<lockVars, cont, stream, reader, cancelled, tracked, prev, cur,
                 recentCrash, transferring, panicked>>

\* The listener goroutine sees the cancelled context.  Events still in its
\* channel are lost, handlers already started are not.
ListenerStops ==
  /\ cancelled /\ listening
  /\ listening' = FALSE
  /\ events' \in 0..events
  /\ UNCHANGED <<lockVars, st, cont, stream, reader, cancelled, threadVars,
                 serverVars>>

----------------------------------------------------------------------------
\* A handler goroutine: OnStateChange, then handleServerCrash.

LoadPrevious(t) ==
  /\ pc[t] = "idle" /\ events > 0
  /\ events' = events - 1
  /\ prev' = [prev EXCEPT ![t] = tracked \in Online]
  /\ Run(t, "event", "loaded")
  /\ UNCHANGED <<lockVars, st, listening, cont, stream, reader, cancelled,
                 tracked, cur, recentCrash, transferring, deleted, panicked>>

ReadState(t) ==
  /\ pc[t] = "loaded"
  /\ cur' = [cur EXCEPT ![t] = st]
  /\ Goto(t, "read")
  /\ UNCHANGED <<lockVars, envVars, cancelled, tracked, prev, recentCrash,
                 transferring, deleted, panicked>>

StoreState(t) ==
  /\ pc[t] = "read"
  /\ tracked' = cur[t]
  /\ cur' = [cur EXCEPT ![t] = "offline"]
  /\ Goto(t, "stored")
  /\ UNCHANGED <<lockVars, envVars, cancelled, prev, recentCrash, transferring,
                 deleted, panicked>>

\* A server that was online and is offline now is handled as crashed.
DetectCrash(t) ==
  /\ pc[t] = "stored"
  /\ IF prev[t] /\ st = "offline" THEN Goto(t, "crash") ELSE Quit(t)
  /\ prev' = [prev EXCEPT ![t] = FALSE]
  /\ UNCHANGED <<lockVars, envVars, cancelled, tracked, cur, recentCrash,
                 transferring, deleted, panicked>>

CrashState(t) ==
  /\ pc[t] = "crash"
  /\ IF st = "offline" /\ CrashDetectionEnabled THEN Goto(t, "exitState") ELSE Quit(t)
  /\ UNCHANGED <<lockVars, envVars, cancelled, serverVars>>

\* The exit state: a missing container counts as exit code 1, a container that
\* has not exited reports 0.  A crash soon after the last one is not handled.
IsCrash ==
  \/ cont \in {"absent", "exitDirty"}
  \/ DetectCleanExitAsCrash

CrashExit(t) ==
  /\ pc[t] = "exitState"
  /\ \/ IsCrash /\ ~recentCrash /\ Goto(t, "markCrash")
     \/ Quit(t)
  /\ UNCHANGED <<lockVars, envVars, cancelled, serverVars>>

\* Mutant: the crash handler calls Environment.Start itself.
MarkCrashUnlocked(t) ==
  /\ pc[t] = "markCrash"
  /\ recentCrash' = TRUE
  /\ Run(t, "start", "inspect")
  /\ UNCHANGED <<lockVars, envVars, cancelled, tracked, prev, cur,
                 transferring, deleted, panicked>>

\* The time of the crash is noted and the server started, without a wait.
MarkCrash(t) ==
  /\ pc[t] = "markCrash"
  /\ recentCrash' = TRUE
  /\ Run(t, "start", "begin")
  /\ UNCHANGED <<lockVars, envVars, cancelled, tracked, prev, cur,
                 transferring, deleted, panicked>>

\* The crash timeout passes.
CrashTimeoutPasses ==
  /\ recentCrash /\ recentCrash' = FALSE
  /\ UNCHANGED <<lockVars, envVars, cancelled, threadVars, tracked, prev, cur,
                 transferring, deleted, panicked>>

HandlerStep(t) ==
  \/ ReadState(t) \/ StoreState(t) \/ DetectCrash(t)
  \/ CrashState(t) \/ CrashExit(t) \/ MarkCrash(t)

----------------------------------------------------------------------------
\* A console goroutine: onConsoleOutput for a line that marks the server as
\* started, or that repeats the stop command.

ConsoleLine(t) ==
  /\ pc[t] = "idle"
  /\ cont \in Running
  /\ \E r \in Readers : reader[r] = "reading"
  /\ \E l \in {"doneLine", "stopLine"} : Run(t, "console", l)
  /\ UNCHANGED <<lockVars, envVars, cancelled, serverVars>>

CheckLine(t) ==
  /\ \/ /\ pc[t] = "doneLine"
        /\ IF st = "starting" THEN Goto(t, "markRunning") ELSE Quit(t)
     \/ /\ pc[t] = "stopLine"
        /\ IF st \in Online THEN Goto(t, "markOffline") ELSE Quit(t)
  /\ UNCHANGED <<lockVars, envVars, cancelled, serverVars>>

MarkLine(t) ==
  /\ \/ pc[t] = "markRunning" /\ SetState("running")
     \/ pc[t] = "markOffline" /\ SetState("offline")
  /\ Quit(t)
  /\ UNCHANGED <<lockVars, cont, stream, reader, cancelled, serverVars>>

----------------------------------------------------------------------------
ThreadStep(t) ==
  \/ PowerStep(t) \/ EnvStep(t) \/ WriteToNil(t)
  \/ SetTransferring(t) \/ EndTransfer(t)
  \/ CancelContext(t) \/ CloseLock(t) \/ EndDelete(t)

ReaderStep(r) ==
  (ReaderOffline(r) \/ ReaderClose(r)) /\ UNCHANGED <<lockVars, serverVars>>

Exit == ContainerExit /\ UNCHANGED <<lockVars, serverVars>>
StreamBreaks(r) == ReaderFails(r) /\ UNCHANGED <<lockVars, serverVars>>

Next ==
  /\ ~panicked
  /\ \/ \E t \in Clients : Request(t)
     \/ \E t \in Threads : ThreadStep(t)
     \/ \E t \in Handlers : LoadPrevious(t) \/ HandlerStep(t)
     \/ \E t \in Consoles : ConsoleLine(t) \/ CheckLine(t) \/ MarkLine(t)
     \/ \E r \in Readers : ReaderStep(r) \/ StreamBreaks(r)
     \/ Exit \/ ListenerStops \/ CrashTimeoutPasses

Spec == Init /\ [][Next]_vars

\* Calls that need not return: the Docker client has no timeout, so the calls
\* made with the server's context, Terminate included, end only with an answer or
\* the deletion of the server, and those made with a background context only
\* with an answer.  A write to the stream of a process that does not read, an
\* archive sent to a node that does not, and a configuration file that is a pipe
\* block as well.  Start's Attach and ContainerStart and the calls of Stop and
\* WaitForStop run with a deadline.
Unanswered(t) ==
  \/ pc[t] \in {"create", "destroyRemove", "exitState", "writing", "archive", "sync"}
  \/ ~cancelled /\ pc[t] \in {"inspect", "remove", "reattach"}
  \/ ~cancelled /\ force[t] /\ pc[t] \in {"signal", "sendSignal"}

\* A write to the stream keeps the environment's mutex from everybody else.
HoldsMutex(t) == pc[t] = "writing"
MutexFree(t) ==
  pc[t] \in {"stop", "write", "attach", "native"} =>
    \A u \in Threads : ~HoldsMutex(u)

\* Every goroutine that can run does run: the Go scheduler and its mutexes are
\* fair, the other waits end at a deadline, and Docker reaps a process it has
\* sent SIGKILL to.  Requests, answers without a deadline, exits of a healthy
\* process, console lines and broken streams may never happen.
Fairness ==
  /\ \A t \in Threads :
       SF_vars(~panicked /\ ~Unanswered(t) /\ MutexFree(t) /\ ThreadStep(t))
  /\ \A t \in Handlers :
       WF_vars(~panicked /\ ~Unanswered(t) /\ (LoadPrevious(t) \/ HandlerStep(t)))
  /\ \A t \in Consoles : WF_vars(~panicked /\ (CheckLine(t) \/ MarkLine(t)))
  /\ \A r \in Readers :
       SF_vars(~panicked /\ (\A u \in Threads : ~HoldsMutex(u)) /\ ReaderStep(r))
  /\ WF_vars(~panicked /\ cont = "killed" /\ Exit)

FairSpec == Spec /\ Fairness

----------------------------------------------------------------------------
\* Properties.

\* Power actions execute one at a time (power.go: "will not process the second
\* action until the first action has been completed"): no two threads hold the
\* lock, and as long as the server is not deleted the channel is full exactly
\* while some thread holds it, so no error path leaks the lock and no kill that
\* went on without it releases the lock of somebody else.
PowerActionsExclusive ==
  /\ \A t, u \in Threads : holds[t] /\ holds[u] => t = u
  /\ ~closed => (IsLocked <=> \E t \in Threads : holds[t])

\* A stop or a locked kill that returns without an error, and the stop half of a
\* restart, leave no process behind that has not at least been sent SIGKILL
\* (power.go: "waiting for the process to be stopped here, otherwise the lock is
\* released too soon").
StoppedMeansStopped ==
  \A t \in Threads :
    \/ pc[t] = "done" /\ op[t] \in {"stop", "kill"} /\ holds[t]
    \/ pc[t] = "sync" /\ op[t] = "restart"
    => cont # "running"

\* The detailed model implements the promise of module PowerSync: the worker is
\* the holder of the lock, and no process is booted by anybody else.
Sync == INSTANCE PowerSync WITH
  workers <- {t \in Threads : holds[t]},
  up <- cont \in Running,
  open <- ~closed
ImplementsPowerSync == Sync!Spec

\* Once deleteServer has removed the environment no process of the server runs
\* again, whatever start was under way when the deletion began: the context is
\* cancelled before the container is removed.
DeletedNeverRuns == deleted => cont \notin Running

\* Every request returns, unless its own call is one that need not return or
\* another goroutine is blocked for ever in a write to the console (then the
\* environment's mutex is gone), or the daemon has died: neither a wait for the
\* lock nor a process that ignores its stop command blocks a power action.
RequestsFinish ==
  \A t \in Clients :
    \/ []<>(pc[t] = "idle" \/ panicked)
    \/ <>[]Unanswered(t)
    \/ \E u \in Threads : <>[]HoldsMutex(u)

\* The power lock is always released again (CHANGELOG: "the temporary power
\* action lock to never be released"), unless its holder is blocked for ever in
\* a call that need not return, or somebody is in a write to the console.
LockIsFreed ==
  \/ []<>(~IsLocked \/ panicked)
  \/ \E t \in Threads : <>[](holds[t] /\ Unanswered(t))
  \/ \E u \in Threads : <>[]HoldsMutex(u)
=============================================================================
