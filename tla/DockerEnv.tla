------------------------------ MODULE DockerEnv ------------------------------
(***************************************************************************)
(* The Docker environment of one server (environment/docker/power.go,      *)
(* container.go, environment.go): the tracked process state, the container *)
(* that Docker keeps, the console stream and the goroutines that read it,  *)
(* and the Start, Stop, WaitForStop, SignalContainer, Terminate, Attach    *)
(* and Destroy operations.                                                 *)
(*                                                                         *)
(* A call is executed by a thread.  pc[t] names the next step of thread t, *)
(* op[t] the operation it runs for, force[t] whether it is inside          *)
(* Terminate.  Between two steps of a thread any other thread may run: a   *)
(* step is one call to Docker or one SetState.  Docker itself is external: *)
(* its calls may fail at any time, and a process may exit at any time.     *)
(***************************************************************************)
EXTENDS Naturals

CONSTANTS
  Threads,     \* goroutines that can be inside an operation
  Readers,     \* goroutines started by Attach that read the console stream
  NoStream,    \* e.stream == nil
  StopTypes,   \* configured kinds of stop: "signal", "command", "native"
  MaxEvents    \* bound on the state events counted as not yet handled

ASSUME DockerEnvAssumption ==
  /\ NoStream \notin Readers
  /\ StopTypes \subseteq {"signal", "command", "native"}
  /\ MaxEvents \in Nat \ {0}

VARIABLES
  st,          \* Environment.st
  events,      \* StateChangeEvents whose handler has not started yet
  listening,   \* the listener goroutine of StartEventListeners is alive
  cont,        \* the container, as Docker sees it
  stream,      \* Environment.stream: the reader it belongs to, or NoStream
  reader,      \* state of each reader goroutine
  cancelled,   \* the server's context has been cancelled
  pc, op, force

envVars == <<st, events, listening, cont, stream, reader>>
threadVars == <<pc, op, force>>

States == {"offline", "starting", "running", "stopping"}
Online == {"starting", "running"}

Containers == {"absent", "created", "running", "killed", "exitClean", "exitDirty"}
Running == {"running", "killed"}        \* State.Running of an inspection

ReaderStates == {"none", "reading", "eof", "closing"}

Operations == {"start", "stop", "restart", "kill", "enforce", "transfer",
               "command", "delete", "event", "console", "none"}

EnvInit ==
  /\ st = "offline" /\ events = 0 /\ listening = TRUE
  /\ cont \in {"absent", "exitDirty"}
  /\ stream = NoStream
  /\ reader = [r \in Readers |-> "none"]
  /\ cancelled = FALSE

EnvTypeOK ==
  /\ st \in States
  /\ events \in 0..MaxEvents
  /\ listening \in BOOLEAN
  /\ cont \in Containers
  /\ stream \in Readers \cup {NoStream}
  /\ reader \in [Readers -> ReaderStates]
  /\ cancelled \in BOOLEAN

------------------------------------------------------------------------------
\* Helpers.

At(t, l) == pc[t] = l
Goto(t, l) == pc' = [pc EXCEPT ![t] = l] /\ UNCHANGED <<op, force>>

\* A thread that enters Terminate.
Escalate(t) ==
  /\ pc' = [pc EXCEPT ![t] = "signal"]
  /\ force' = [force EXCEPT ![t] = TRUE]
  /\ UNCHANGED op

\* SetState stores a state that differs from the current one and publishes it.
\* With the listener gone nobody receives the event.  A handler does not look
\* at the published state, so handlers that have not started yet are counted,
\* up to MaxEvents of them.
SetState(s) ==
  /\ st' = s
  /\ events' = IF st # s /\ listening /\ events < MaxEvents
                  THEN events + 1 ELSE events
  /\ UNCHANGED listening

KeepState == UNCHANGED <<st, events, listening>>

IsAttached == stream # NoStream

\* The process of the container is gone: its streams reach end of file.
EndOfStreams ==
  reader' = [r \in Readers |-> IF reader[r] = "reading" THEN "eof" ELSE reader[r]]

\* Where WaitForStop returns to.  The lock-holding operations go on or release
\* the lock, a transfer starts its work or gives up.
AfterStop(t, ok) ==
  CASE op[t] = "restart" /\ ok -> "sync"
    [] op[t] = "transfer" -> IF ok THEN "archive" ELSE "giveUp"
    [] OTHER -> IF ok THEN "done" ELSE "failed"

------------------------------------------------------------------------------
\* Start.

\* The first inspection.  An error (a cancelled context included) or a failed
\* truncation of the log returns at once, with the state untouched.
StartInspect(t) ==
  /\ At(t, "inspect")
  /\ \/ Goto(t, "failed") /\ KeepState
     \/ /\ ~cancelled /\ cont \in Running
        /\ SetState("running") /\ Goto(t, "reattach")
     \/ /\ ~cancelled /\ cont \notin Running
        /\ KeepState /\ Goto(t, "starting")
  /\ UNCHANGED <<cont, stream, reader, cancelled>>

SetStarting(t) ==
  /\ At(t, "starting")
  /\ SetState("starting") /\ Goto(t, "remove")
  /\ UNCHANGED <<cont, stream, reader, cancelled>>

\* OnBeforeStart, first half: the old container is removed, without force.
RemoveContainer(t) ==
  /\ At(t, "remove")
  /\ \/ Goto(t, "unwind") /\ UNCHANGED <<cont, reader>>
     \/ /\ ~cancelled /\ cont \notin Running
        /\ cont' = "absent" /\ EndOfStreams
        /\ Goto(t, "create")
  /\ KeepState /\ UNCHANGED <<stream, cancelled>>

\* OnBeforeStart, second half: Create keeps an existing container.  It runs
\* with a background context, so a cancelled server context does not stop it.
CreateContainer(t) ==
  /\ At(t, "create")
  /\ \/ Goto(t, "unwind") /\ UNCHANGED cont
     \/ /\ cont' = IF cont = "absent" THEN "created" ELSE cont
        /\ Goto(t, "attach")
  /\ KeepState /\ UNCHANGED <<stream, reader, cancelled>>

\* Attach returns at once when a stream is set; otherwise it attaches to the
\* container and starts a goroutine that reads the stream.
NewReader(r) ==
  /\ reader[r] = "none"
  /\ reader' = [reader EXCEPT ![r] = IF cont \in {"exitClean", "exitDirty"}
                                       THEN "eof" ELSE "reading"]
  /\ stream' = r

Attach(t, from, ok, err) ==
  /\ At(t, from)
  /\ \/ IsAttached /\ Goto(t, ok) /\ UNCHANGED <<stream, reader>>
     \/ ~IsAttached /\ Goto(t, err) /\ UNCHANGED <<stream, reader>>
     \/ /\ ~IsAttached /\ ~cancelled /\ cont # "absent"
        /\ \E r \in Readers : NewReader(r)
        /\ Goto(t, ok)
  /\ KeepState /\ UNCHANGED <<cont, cancelled>>

AttachRunning(t) == Attach(t, "reattach", "done", "failed")
AttachCreated(t) == Attach(t, "attach", "boot", "unwind")

\* Mutant: the container is started with a background context.
SendStartAnyway(t) ==
  /\ At(t, "boot") /\ Goto(t, "booting")
  /\ KeepState /\ UNCHANGED <<cont, stream, reader, cancelled>>

\* The call of ContainerStart leaves the daemon unless the context is gone.
SendStart(t) ==
  /\ At(t, "boot")
  /\ Goto(t, IF cancelled THEN "unwind" ELSE "booting")
  /\ KeepState /\ UNCHANGED <<cont, stream, reader, cancelled>>

\* Docker handles the call.  A cancellation meanwhile makes the client report
\* an error even if the container started.
ContainerStart(t) ==
  /\ At(t, "booting")
  /\ \/ Goto(t, "unwind") /\ UNCHANGED cont
     \/ /\ cont # "absent"
        /\ cont' = IF cont \in Running THEN cont ELSE "running"
        /\ Goto(t, IF cancelled THEN "unwind" ELSE "done")
  /\ KeepState /\ UNCHANGED <<stream, reader, cancelled>>

\* The deferred clean-up of a failed Start: stopping first, then offline.
UnwindStopping(t) ==
  /\ At(t, "unwind")
  /\ SetState("stopping") /\ Goto(t, "unwound")
  /\ UNCHANGED <<cont, stream, reader, cancelled>>

UnwindOffline(t) ==
  /\ At(t, "unwound")
  /\ SetState("offline") /\ Goto(t, "failed")
  /\ UNCHANGED <<cont, stream, reader, cancelled>>

StartStep(t) ==
  \/ StartInspect(t) \/ SetStarting(t) \/ RemoveContainer(t)
  \/ CreateContainer(t) \/ AttachRunning(t) \/ AttachCreated(t)
  \/ SendStart(t) \/ ContainerStart(t)
  \/ UnwindStopping(t) \/ UnwindOffline(t)

------------------------------------------------------------------------------
\* Stop, WaitForStop, SignalContainer, Terminate.

\* Stop marks a process that is not offline as stopping.
StopMark(t) ==
  /\ At(t, "stop")
  /\ IF st # "offline" THEN SetState("stopping") ELSE KeepState
  /\ \E ty \in StopTypes :
       Goto(t, CASE ty = "signal" -> "signal"
                 [] ty = "command" /\ IsAttached -> "write"
                 [] OTHER -> "native")
  /\ UNCHANGED <<cont, stream, reader, cancelled>>

\* SendCommand with the stop command, first half: the check of the stream.
CheckAttached(t) ==
  /\ At(t, "write")
  /\ Goto(t, IF IsAttached THEN "writing" ELSE AfterStop(t, FALSE))
  /\ KeepState /\ UNCHANGED <<cont, stream, reader, cancelled>>

\* SendCommand, second half, under the read lock of the environment: the server
\* is marked as stopping and the command written to the stream, which may fail.
WriteStopCommand(t) ==
  /\ At(t, "writing") /\ IsAttached
  /\ SetState("stopping")
  /\ \E ok \in BOOLEAN :
       Goto(t, IF ~ok THEN AfterStop(t, FALSE)
               ELSE IF op[t] = "command" THEN "done" ELSE "wait")
  /\ UNCHANGED <<cont, stream, reader, cancelled>>

\* The stream was cleared after the check: a nil pointer is dereferenced.
WritePanics(t) ==
  /\ At(t, "writing") /\ ~IsAttached
  /\ SetState("stopping") /\ Goto(t, "failed")
  /\ UNCHANGED <<cont, stream, reader, cancelled>>

\* WaitForStop is called with terminate = true, except by a transfer.
Terminates(t) == op[t] # "transfer"

\* ContainerStop blocks until the process is gone.  A missing container resets
\* the stream and the state; the end of the timed context escalates.
NativeStop(t) ==
  /\ At(t, "native")
  /\ \/ /\ cont = "absent" /\ stream' = NoStream
        /\ SetState("offline") /\ Goto(t, "wait")
     \/ /\ cont \notin Running \cup {"absent"}
        /\ Goto(t, "wait") /\ KeepState /\ UNCHANGED stream
     \/ /\ Terminates(t) /\ Escalate(t)
        /\ KeepState /\ UNCHANGED stream
     \/ /\ Goto(t, AfterStop(t, FALSE))
        /\ KeepState /\ UNCHANGED stream
  /\ UNCHANGED <<cont, reader, cancelled>>

\* Mutant: the end of the wait counts as a stop.
WaitGivesUp(t) ==
  /\ At(t, "wait")
  /\ Goto(t, AfterStop(t, TRUE))
  /\ KeepState /\ UNCHANGED <<cont, stream, reader, cancelled>>

\* Mutant: a wait without a deadline.
WaitForever(t) ==
  /\ At(t, "wait")
  /\ cont \notin Running /\ Goto(t, AfterStop(t, TRUE))
  /\ KeepState /\ UNCHANGED <<cont, stream, reader, cancelled>>

\* ContainerWait: the container is not running or not there, or the wait ends
\* early (deadline, cancelled context, error).
WaitStopped(t) ==
  /\ At(t, "wait")
  /\ \/ cont \notin Running /\ Goto(t, AfterStop(t, TRUE))
     \/ Terminates(t) /\ Escalate(t)
     \/ ~Terminates(t) /\ Goto(t, AfterStop(t, FALSE))
  /\ KeepState /\ UNCHANGED <<cont, stream, reader, cancelled>>

\* Where SignalContainer returns to, in Terminate and in Stop.
Signalled(t) == IF force[t] THEN "terminated" ELSE "wait"

\* Terminate signals with the server's context, Stop with the timed one: an
\* error in Stop that is the end of the timed context escalates.
CanSignal(t) == force[t] => ~cancelled
SignalError(t) ==
  \/ Goto(t, AfterStop(t, FALSE))
  \/ ~force[t] /\ Terminates(t) /\ Escalate(t)

\* SignalContainer: the inspection.
SignalInspect(t) ==
  /\ At(t, "signal")
  /\ \/ SignalError(t)
     \/ CanSignal(t) /\ cont = "absent" /\ Goto(t, Signalled(t))
     \/ /\ CanSignal(t) /\ cont \notin Running \cup {"absent"}
        /\ Goto(t, IF st = "offline" THEN Signalled(t) ELSE "deadStopping")
     \/ CanSignal(t) /\ cont \in Running /\ Goto(t, "liveStopping")
  /\ KeepState /\ UNCHANGED <<cont, stream, reader, cancelled>>

\* SignalContainer, container not running: stopping, then offline.
DeadStopping(t) ==
  /\ At(t, "deadStopping")
  /\ SetState("stopping") /\ Goto(t, "deadOffline")
  /\ UNCHANGED <<cont, stream, reader, cancelled>>

DeadOffline(t) ==
  /\ At(t, "deadOffline")
  /\ SetState("offline") /\ Goto(t, Signalled(t))
  /\ UNCHANGED <<cont, stream, reader, cancelled>>

\* SignalContainer, container running: stopping, then ContainerKill.
LiveStopping(t) ==
  /\ At(t, "liveStopping")
  /\ SetState("stopping") /\ Goto(t, "sendSignal")
  /\ UNCHANGED <<cont, stream, reader, cancelled>>

ContainerKill(t) ==
  /\ At(t, "sendSignal")
  /\ \/ SignalError(t) /\ UNCHANGED cont
     \/ /\ CanSignal(t)
        /\ cont' = IF force[t] /\ cont = "running" THEN "killed" ELSE cont
        /\ Goto(t, Signalled(t))
  /\ KeepState /\ UNCHANGED <<stream, reader, cancelled>>

\* The end of Terminate: the state is forced to offline.
TerminateOffline(t) ==
  /\ At(t, "terminated")
  /\ SetState("offline") /\ Goto(t, AfterStop(t, TRUE))
  /\ UNCHANGED <<cont, stream, reader, cancelled>>

StopStep(t) ==
  \/ StopMark(t) \/ CheckAttached(t) \/ WriteStopCommand(t)
  \/ NativeStop(t) \/ WaitStopped(t)
  \/ SignalInspect(t) \/ DeadStopping(t) \/ DeadOffline(t)
  \/ LiveStopping(t) \/ ContainerKill(t) \/ TerminateOffline(t)

------------------------------------------------------------------------------
\* Destroy: the container is removed by force, with a background context.

DestroyStopping(t) ==
  /\ At(t, "destroy")
  /\ SetState("stopping") /\ Goto(t, "destroyRemove")
  /\ UNCHANGED <<cont, stream, reader, cancelled>>

\* Mutant: a container that cannot be removed is ignored.
DestroyIgnoresError(t) ==
  /\ At(t, "destroyRemove")
  /\ \/ cont' = "absent" /\ EndOfStreams
     \/ UNCHANGED <<cont, reader>>
  /\ Goto(t, "destroyed")
  /\ KeepState /\ UNCHANGED <<stream, cancelled>>

DestroyRemove(t) ==
  /\ At(t, "destroyRemove")
  /\ \/ cont' = "absent" /\ EndOfStreams /\ Goto(t, "destroyed")
     \/ Goto(t, "destroyError") /\ UNCHANGED <<cont, reader>>
  /\ KeepState /\ UNCHANGED <<stream, cancelled>>

------------------------------------------------------------------------------
\* The goroutine of Attach, once its stream has ended (or failed): the state is
\* set to offline, then the stream is cleared, whichever stream that is by now.

ReaderOffline(r) ==
  /\ reader[r] = "eof"
  /\ SetState("offline")
  /\ reader' = [reader EXCEPT ![r] = "closing"]
  /\ UNCHANGED <<cont, stream, cancelled, threadVars>>

ReaderClose(r) ==
  /\ reader[r] = "closing"
  /\ stream' = NoStream
  /\ reader' = [reader EXCEPT ![r] = "none"]
  /\ KeepState /\ UNCHANGED <<cont, cancelled, threadVars>>

\* The connection to Docker breaks while the container runs on.
ReaderFails(r) ==
  /\ reader[r] = "reading"
  /\ reader' = [reader EXCEPT ![r] = "eof"]
  /\ KeepState /\ UNCHANGED <<cont, stream, cancelled, threadVars>>

\* The process ends: on its own, on a stop request, or killed.
ContainerExit ==
  /\ cont \in Running
  /\ cont' \in IF cont = "killed" THEN {"exitDirty"} ELSE {"exitClean", "exitDirty"}
  /\ EndOfStreams
  /\ KeepState /\ UNCHANGED <<stream, cancelled, threadVars>>
=============================================================================
