------------------------- MODULE ServerPower_proofs -------------------------
(***************************************************************************)
(* Proofs about module ServerPower, for any number of clients, event       *)
(* handlers, console goroutines and stream readers, any set of operations  *)
(* and stop types, and both settings of crash detection.                   *)
(***************************************************************************)
EXTENDS ServerPower, TLAPS

\* Labels that only the start half of a power action reaches.
BootLabels == {"check", "sync", "inspect", "starting", "remove", "create", "attach",
               "reattach", "boot", "booting", "unwind", "unwound"}

\* A start, stop or restart that is past the lock holds it, and only a start or
\* a restart is inside Environment.Start.
Work(t) ==
  /\ op[t] \in {"start", "stop", "restart"} /\ pc[t] \notin {"begin", "lock"} => holds[t]
  /\ pc[t] \in BootLabels => op[t] \in {"start", "restart"}
  /\ pc[t] = "check" => op[t] = "start"

LockedWork == \A t \in Threads : Work(t)

\* The holder of the lock has seen the process end, or has had it killed.
Halt(t) ==
  /\ holds[t] /\ pc[t] \in {"deadStopping", "deadOffline", "terminated"} => cont # "running"
  /\ pc[t] = "done" /\ op[t] \in {"stop", "kill"} /\ holds[t] => cont # "running"
  /\ pc[t] = "sync" /\ op[t] = "restart" => cont # "running"

HaltedWork == \A t \in Threads : Halt(t)

\* The container has been removed for the deletion of the server.
Removed == deleted \/ \E t \in Threads : pc[t] = "destroyed"

\* The context is cancelled before the container is removed, and a start whose
\* call is already with Docker finds no container any more.
DeletionOrder ==
  /\ \A t \in Threads :
       pc[t] \in {"closeLock", "destroy", "destroyRemove", "destroyed", "destroyError"}
         => cancelled
  /\ Removed =>
       /\ cancelled /\ cont \notin Running
       /\ \A t \in Threads : pc[t] = "booting" => cont = "absent"

PowerInv == TypeOK /\ PowerActionsExclusive /\ LockedWork
StopInv == PowerInv /\ HaltedWork
DeleteInv == PowerInv /\ DeletionOrder

-----------------------------------------------------------------------------
\* Type correctness.

ThreadTypeOK ==
  /\ pc \in [Threads -> Labels]
  /\ op \in [Threads -> Operations]
  /\ force \in [Threads -> BOOLEAN]

\* Moving a thread to a label keeps the types of the thread variables.
LEMMA GotoType ==
  ASSUME ThreadTypeOK, NEW t \in Threads, NEW l \in Labels, Goto(t, l)
  PROVE  ThreadTypeOK'
BY DEF ThreadTypeOK, Goto

LEMMA EscalateType ==
  ASSUME ThreadTypeOK, NEW t \in Threads, Escalate(t)
  PROVE  ThreadTypeOK'
BY DEF ThreadTypeOK, Escalate, Labels

LEMMA RunType ==
  ASSUME ThreadTypeOK, NEW t \in Threads, NEW o \in Operations, NEW l \in Labels, Run(t, o, l)
  PROVE  ThreadTypeOK'
BY DEF ThreadTypeOK, Run

LEMMA QuitType ==
  ASSUME ThreadTypeOK, NEW t \in Threads, Quit(t)
  PROVE  ThreadTypeOK'
BY RunType DEF Quit, Labels, Operations

LEMMA LabelType ==
  ASSUME ThreadTypeOK, NEW t \in Threads
  PROVE  /\ AfterStop(t, TRUE) \in Labels
         /\ AfterStop(t, FALSE) \in Labels
         /\ Signalled(t) \in Labels
BY DEF AfterStop, Signalled, Labels

\* SetState and its absence keep the types of the environment's state.
StateTypeOK == st \in States /\ events \in 0..MaxEvents /\ listening \in BOOLEAN

LEMMA SetStateType ==
  ASSUME StateTypeOK, NEW s \in States, SetState(s)
  PROVE  StateTypeOK'
BY DockerEnvAssumption DEF StateTypeOK, SetState

LEMMA KeepStateType ==
  ASSUME StateTypeOK, KeepState
  PROVE  StateTypeOK'
BY DEF StateTypeOK, KeepState

StreamTypeOK ==
  /\ cont \in Containers
  /\ stream \in Readers \cup {NoStream}
  /\ reader \in [Readers -> ReaderStates]

LEMMA EndOfStreamsType ==
  ASSUME StreamTypeOK, EndOfStreams
  PROVE  reader' \in [Readers -> ReaderStates]
BY DEF StreamTypeOK, EndOfStreams, ReaderStates

EnvType == ThreadTypeOK /\ StateTypeOK /\ StreamTypeOK

\* The steps of Environment.Start.
LEMMA StartType ==
  ASSUME EnvType, NEW t \in Threads, StartStep(t)
  PROVE  EnvType'
<1> USE DEF EnvType
<1>1. CASE StartInspect(t)
  BY <1>1, GotoType, SetStateType, KeepStateType
  DEF StartInspect, StreamTypeOK, Labels, States
<1>2. CASE SetStarting(t)
  BY <1>2, GotoType, SetStateType DEF SetStarting, StreamTypeOK, Labels, States
<1>3. CASE RemoveContainer(t)
  BY <1>3, GotoType, KeepStateType, EndOfStreamsType
  DEF RemoveContainer, StreamTypeOK, Labels, Containers
<1>4. CASE CreateContainer(t)
  BY <1>4, GotoType, KeepStateType DEF CreateContainer, StreamTypeOK, Labels, Containers
<1>5. ASSUME NEW from, NEW ok \in Labels, NEW err \in Labels, Attach(t, from, ok, err)
      PROVE  EnvType'
  BY <1>5, GotoType, KeepStateType DEF Attach, NewReader, StreamTypeOK, ReaderStates
<1>6. CASE AttachRunning(t) \/ AttachCreated(t)
  BY <1>5, <1>6 DEF AttachRunning, AttachCreated, Labels
<1>7. CASE SendStart(t)
  BY <1>7, GotoType, KeepStateType DEF SendStart, StreamTypeOK, Labels
<1>8. CASE ContainerStart(t)
  BY <1>8, GotoType, KeepStateType DEF ContainerStart, StreamTypeOK, Labels, Containers
<1>9. CASE UnwindStopping(t) \/ UnwindOffline(t)
  BY <1>9, GotoType, SetStateType DEF UnwindStopping, UnwindOffline, StreamTypeOK, Labels, States
<1> QED
  BY <1>1, <1>2, <1>3, <1>4, <1>6, <1>7, <1>8, <1>9 DEF StartStep

\* The steps of Environment.Stop, WaitForStop, SignalContainer and Terminate.
LEMMA StopType ==
  ASSUME EnvType, NEW t \in Threads, StopStep(t)
  PROVE  EnvType'
<1> USE DEF EnvType
<1>1. CASE StopMark(t)
  <2>1. PICK l \in Labels : Goto(t, l)
    BY <1>1 DEF StopMark, Labels
  <2> QED
    BY <1>1, <2>1, GotoType, SetStateType, KeepStateType DEF StopMark, StreamTypeOK, States
<1>0. CASE CheckAttached(t)
  <2>1. "writing" \in Labels
    BY DEF Labels
  <2> QED
    BY <1>0, <2>1, GotoType, LabelType, KeepStateType DEF CheckAttached, StreamTypeOK
<1>2. CASE WriteStopCommand(t)
  <2>1. "done" \in Labels /\ "wait" \in Labels /\ "stopping" \in States
    BY DEF Labels, States
  <2>2. ThreadTypeOK'
    BY <1>2, <2>1, GotoType, LabelType DEF WriteStopCommand
  <2> QED
    BY <1>2, <2>1, <2>2, SetStateType, KeepStateType DEF WriteStopCommand, StreamTypeOK
<1>3. CASE NativeStop(t)
  <2>1. "wait" \in Labels /\ "offline" \in States
    BY DEF Labels, States
  <2>2. ThreadTypeOK'
    BY <1>3, <2>1, GotoType, EscalateType, LabelType DEF NativeStop
  <2>3. StateTypeOK'
    BY <1>3, <2>1, SetStateType, KeepStateType DEF NativeStop
  <2> QED
    BY <1>3, <2>2, <2>3 DEF NativeStop, StreamTypeOK
<1>4. CASE WaitStopped(t)
  BY <1>4, GotoType, EscalateType, KeepStateType, LabelType DEF WaitStopped, StreamTypeOK
<1>5. SignalError(t) => ThreadTypeOK'
  BY GotoType, EscalateType, LabelType DEF SignalError
<1>6. CASE SignalInspect(t)
  <2>1. "deadStopping" \in Labels /\ "liveStopping" \in Labels
    BY DEF Labels
  <2>2. ThreadTypeOK'
    BY <1>5, <1>6, <2>1, GotoType, LabelType DEF SignalInspect
  <2> QED
    BY <1>6, <2>2, KeepStateType DEF SignalInspect, StreamTypeOK
<1>7. CASE DeadStopping(t) \/ LiveStopping(t)
  BY <1>7, GotoType, SetStateType DEF DeadStopping, LiveStopping, StreamTypeOK, Labels, States
<1>8. CASE DeadOffline(t) \/ TerminateOffline(t)
  BY <1>8, GotoType, SetStateType, LabelType
  DEF DeadOffline, TerminateOffline, StreamTypeOK, States
<1>9. CASE ContainerKill(t)
  BY <1>5, <1>9, GotoType, KeepStateType, LabelType DEF ContainerKill, StreamTypeOK, Containers
<1> QED
  BY <1>0, <1>1, <1>2, <1>3, <1>4, <1>6, <1>7, <1>8, <1>9 DEF StopStep

\* Every step keeps the types.
LEMMA TypeStep == TypeOK /\ [Next]_vars => TypeOK'
<1> SUFFICES ASSUME TypeOK, [Next]_vars
             PROVE  TypeOK'
  OBVIOUS
<1> DEFINE
    ServerType ==
      /\ ch \in 0..1 /\ closed \in BOOLEAN
      /\ cancelled \in BOOLEAN
      /\ holds \in [Threads -> BOOLEAN]
      /\ tracked \in States
      /\ prev \in [Handlers -> BOOLEAN]
      /\ cur \in [Handlers -> States]
      /\ recentCrash \in BOOLEAN /\ transferring \in BOOLEAN
      /\ deleted \in BOOLEAN /\ panicked \in BOOLEAN
<1>a. TypeOK <=> EnvType /\ ServerType
  BY DEF TypeOK, LockerTypeOK, EnvTypeOK, EnvType, ThreadTypeOK, StateTypeOK, StreamTypeOK
<1>b. TypeOK' <=> EnvType' /\ ServerType'
  BY DEF TypeOK, LockerTypeOK, EnvTypeOK, EnvType, ThreadTypeOK, StateTypeOK, StreamTypeOK
<1>c. Clients \subseteq Threads /\ Handlers \subseteq Threads /\ Consoles \subseteq Threads
  BY ServerPowerAssumption
<1>d. UNCHANGED envVars => StateTypeOK' /\ StreamTypeOK'
  BY <1>a DEF envVars, EnvType, StateTypeOK, StreamTypeOK
<1>e. UNCHANGED <<lockVars, cancelled, serverVars>> => ServerType'
  BY <1>a DEF lockVars, serverVars
<1> HIDE DEF ServerType
<1>1. CASE UNCHANGED vars
  BY <1>1, <1>a, <1>b, <1>d, <1>e
  DEF vars, envVars, EnvType, ThreadTypeOK, threadVars, lockerVars, lockVars
<1>2. ASSUME NEW t \in Clients, Request(t) PROVE TypeOK'
  <2>1. PICK o \in Ops : Run(t, o, Entry(o))
    BY <1>2 DEF Request
  <2>2. o \in Operations /\ Entry(o) \in Labels
    BY ServerPowerAssumption DEF Entry, Labels, Operations
  <2> QED
    BY <1>2, <1>a, <1>b, <1>c, <1>d, <1>e, <2>1, <2>2, RunType DEF Request, EnvType
<1>3. ASSUME NEW t \in Threads, PowerStep(t) PROVE TypeOK'
  <2>1. CASE Begin(t)
    BY <2>1, <1>a, <1>b, <1>d, <1>e, GotoType, QuitType DEF Begin, EnvType, Labels
  <2>2. Dispatch(t) => ThreadTypeOK'
    <3>1. (CASE op[t] = "start" -> "check" [] op[t] = "kill" -> "signal" [] OTHER -> "stop")
            \in Labels
      BY DEF Labels
    <3> QED
      BY <3>1, <1>a DEF Dispatch, EnvType, ThreadTypeOK
  <2>3. CASE AcquireLock(t)
    BY <2>2, <2>3, <1>a, <1>b, <1>d DEF AcquireLock, Acquired, EnvType, ServerType, serverVars
  <2>4. CASE LockBusy(t)
    BY <2>2, <2>4, <1>a, <1>b, <1>d, <1>e, QuitType
    DEF LockBusy, ErrLockerLocked, EnvType, lockVars, lockerVars
  <2>5. CASE LockPanics(t)
    BY <2>5, <1>a, <1>b, <1>d
    DEF LockPanics, SendOnClosed, EnvType, ServerType, lockerVars, threadVars, ThreadTypeOK
  <2>6. CASE CheckOffline(t) \/ OnBeforeStart(t)
    BY <2>6, <1>a, <1>b, <1>d, <1>e, GotoType DEF CheckOffline, OnBeforeStart, EnvType, Labels
  <2>7. CASE Finish(t)
    BY <2>7, <1>a, <1>b, <1>d, QuitType
    DEF Finish, Release, EnvType, ServerType, lockerVars, serverVars
  <2> QED
    BY <1>3, <2>1, <2>3, <2>4, <2>5, <2>6, <2>7 DEF PowerStep
<1>4. ASSUME NEW t \in Threads, EnvStep(t) PROVE TypeOK'
  <2>1. UNCHANGED cancelled
    BY <1>4 DEF EnvStep, StartStep, StopStep, DestroyStopping, DestroyRemove, StartInspect,
       SetStarting, RemoveContainer, CreateContainer, AttachRunning, AttachCreated, Attach,
       SendStart, ContainerStart, UnwindStopping, UnwindOffline, StopMark, CheckAttached, WriteStopCommand,
       NativeStop, WaitStopped, SignalInspect, DeadStopping, DeadOffline, LiveStopping,
       ContainerKill, TerminateOffline
  <2>2. ASSUME DestroyStopping(t) PROVE EnvType'
    BY <2>2, <1>a, GotoType, SetStateType DEF DestroyStopping, EnvType, StreamTypeOK, Labels, States
  <2>3. ASSUME DestroyRemove(t) PROVE EnvType'
    BY <2>3, <1>a, GotoType, KeepStateType, EndOfStreamsType
    DEF DestroyRemove, EnvType, StreamTypeOK, Labels, Containers
  <2>4. EnvType'
    BY <1>4, <1>a, <2>2, <2>3, StartType, StopType DEF EnvStep
  <2> QED
    BY <1>4, <1>b, <1>e, <2>1, <2>4 DEF EnvStep
<1>5. ASSUME NEW t \in Threads, SetTransferring(t) \/ EndTransfer(t) PROVE TypeOK'
  BY <1>5, <1>a, <1>b, <1>d, GotoType, QuitType
  DEF SetTransferring, EndTransfer, EnvType, ServerType, Labels, lockVars
<1>6. ASSUME NEW t \in Threads, CancelContext(t) \/ CloseLock(t) PROVE TypeOK'
  <2>1. EnvType'
    BY <1>6, <1>a, <1>d, GotoType DEF CancelContext, CloseLock, EnvType, Labels
  <2>2. ServerType'
    <3>1. CASE CancelContext(t)
      BY <3>1, <1>a DEF CancelContext, ServerType, lockVars, serverVars
    <3>2. CASE CloseLock(t)
      <4>1. ch' = 0
        BY <3>2 DEF CloseLock, Destroy
      <4>2. closed' \in BOOLEAN
        BY <3>2, Zenon DEF CloseLock, Destroy
      <4>3. UNCHANGED <<holds, cancelled, serverVars>>
        BY <3>2 DEF CloseLock
      <4> QED
        BY <4>1, <4>2, <4>3, <1>a DEF ServerType, serverVars
    <3> QED
      BY <1>6, <3>1, <3>2
  <2> QED
    BY <1>b, <2>1, <2>2
<1>7. ASSUME NEW t \in Threads, EndDelete(t) PROVE TypeOK'
  BY <1>7, <1>a, <1>b, QuitType, SetStateType
  DEF EndDelete, EnvType, ServerType, StreamTypeOK, lockVars, States
<1>7a. ASSUME NEW t \in Threads, WriteToNil(t) PROVE TypeOK'
  <2>1. "failed" \in Labels /\ "stopping" \in States
    BY DEF Labels, States
  <2>2. EnvType'
    BY <1>7a, <1>a, <2>1, GotoType, SetStateType
    DEF WriteToNil, WritePanics, EnvType, StreamTypeOK
  <2>3. panicked' \in BOOLEAN
    <3>1. CASE panicked' = TRUE
      BY <3>1, Zenon
    <3>2. CASE UNCHANGED panicked
      BY <3>2, <1>a DEF ServerType
    <3> QED
      BY <1>7a, <3>1, <3>2 DEF WriteToNil
  <2> QED
    BY <1>7a, <1>a, <1>b, <2>2, <2>3 DEF WriteToNil, WritePanics, ServerType, lockVars
<1>8. ASSUME NEW t \in Handlers, LoadPrevious(t) PROVE TypeOK'
  <2>1. ThreadTypeOK'
    BY <1>8, <1>a, <1>c, RunType DEF LoadPrevious, EnvType, Labels, Operations
  <2>2. StateTypeOK' /\ StreamTypeOK'
    BY <1>8, <1>a, DockerEnvAssumption DEF LoadPrevious, EnvType, StateTypeOK, StreamTypeOK
  <2> QED
    BY <1>8, <1>a, <1>b, <2>1, <2>2 DEF LoadPrevious, EnvType, ServerType, lockVars
<1>9. ASSUME NEW t \in Handlers, HandlerStep(t) PROVE TypeOK'
  <2>1. ThreadTypeOK'
    BY <1>9, <1>a, <1>c, GotoType, QuitType, RunType
    DEF HandlerStep, ReadState, StoreState, DetectCrash, CrashState, CrashExit, MarkCrash,
        EnvType, Labels, Operations
  <2>2. UNCHANGED <<envVars, lockVars, cancelled>>
    BY <1>9 DEF HandlerStep, ReadState, StoreState, DetectCrash, CrashState, CrashExit, MarkCrash
  <2>3. st \in States
    BY <1>a DEF EnvType, StateTypeOK
  <2>4. ServerType'
    BY <1>9, <1>a, <2>2, <2>3
    DEF HandlerStep, ReadState, StoreState, DetectCrash, CrashState, CrashExit, MarkCrash,
        ServerType, lockVars, serverVars, States
  <2> QED
    BY <1>b, <1>d, <2>1, <2>2, <2>4 DEF EnvType
<1>10. ASSUME NEW t \in Consoles, ConsoleLine(t) \/ CheckLine(t) PROVE TypeOK'
  <2>1. ThreadTypeOK'
    BY <1>10, <1>a, <1>c, GotoType, QuitType, RunType
    DEF ConsoleLine, CheckLine, EnvType, Labels, Operations
  <2> QED
    BY <1>10, <1>b, <1>d, <1>e, <2>1 DEF ConsoleLine, CheckLine, EnvType
<1>11. ASSUME NEW t \in Consoles, MarkLine(t) PROVE TypeOK'
  BY <1>11, <1>a, <1>b, <1>c, <1>e, QuitType, SetStateType
  DEF MarkLine, EnvType, StreamTypeOK, States
<1>12. ASSUME NEW r \in Readers, ReaderStep(r) \/ StreamBreaks(r) PROVE TypeOK'
  <2>1. ThreadTypeOK'
    BY <1>12, <1>a DEF ReaderStep, StreamBreaks, ReaderOffline, ReaderClose, ReaderFails,
       threadVars, EnvType, ThreadTypeOK
  <2>2. StateTypeOK'
    BY <1>12, <1>a, SetStateType, KeepStateType
    DEF ReaderStep, StreamBreaks, ReaderOffline, ReaderClose, ReaderFails, EnvType, States
  <2>3. StreamTypeOK'
    BY <1>12, <1>a
    DEF ReaderStep, StreamBreaks, ReaderOffline, ReaderClose, ReaderFails, EnvType,
        StreamTypeOK, ReaderStates
  <2> QED
    BY <1>12, <1>b, <1>e, <2>1, <2>2, <2>3
    DEF ReaderStep, StreamBreaks, ReaderOffline, ReaderClose, ReaderFails, EnvType
<1>13. CASE Exit
  BY <1>13, <1>a, <1>b, <1>e, KeepStateType, EndOfStreamsType
  DEF Exit, ContainerExit, EnvType, StreamTypeOK, Containers, ThreadTypeOK, threadVars
<1>14. CASE ListenerStops
  <2>1. StateTypeOK'
    <3>1. listening' \in BOOLEAN
      BY <1>14, Zenon DEF ListenerStops
    <3>2. st' = st /\ events' \in 0..events
      BY <1>14 DEF ListenerStops
    <3> QED
      BY <3>1, <3>2, <1>a, DockerEnvAssumption DEF EnvType, StateTypeOK
  <2>2. ThreadTypeOK' /\ StreamTypeOK'
    BY <1>14, <1>a DEF ListenerStops, EnvType, StreamTypeOK, ThreadTypeOK, threadVars
  <2> QED
    BY <1>14, <1>b, <1>e, <2>1, <2>2 DEF ListenerStops, EnvType
<1>15. CASE CrashTimeoutPasses
  BY <1>15, <1>a, <1>b, <1>d
  DEF CrashTimeoutPasses, EnvType, ServerType, lockVars, ThreadTypeOK, threadVars
<1> QED
  BY <1>1, <1>2, <1>3, <1>4, <1>5, <1>6, <1>7, <1>7a, <1>8, <1>9, <1>10, <1>11, <1>12, <1>13,
     <1>14, <1>15
  DEF Next, ThreadStep

LEMMA TypeInit == Init => TypeOK
<1> SUFFICES ASSUME Init PROVE TypeOK
  OBVIOUS
<1>1. closed \in BOOLEAN /\ listening \in BOOLEAN /\ cancelled \in BOOLEAN
  BY Zenon DEF Init, LockerInit, EnvInit
<1>2. LockerTypeOK /\ EnvTypeOK
  BY <1>1, DockerEnvAssumption
  DEF Init, LockerInit, EnvInit, LockerTypeOK, EnvTypeOK, States, Containers, ReaderStates
<1>3. "idle" \in Labels /\ "none" \in Operations /\ "offline" \in States
  BY DEF Labels, Operations, States
<1> QED
  BY <1>2, <1>3 DEF Init, TypeOK

\* Every variable of the power model keeps its type, whatever the goroutines,
\* Docker and the panel do.
THEOREM TypeCorrect == Spec => []TypeOK
BY TypeInit, TypeStep, PTL DEF Spec

-----------------------------------------------------------------------------
\* Mutual exclusion.

\* Only three operations touch the lock.
LEMMA LockFrame ==
  ASSUME [Next]_vars
  PROVE  \/ \E t \in Threads : AcquireLock(t) \/ Finish(t) \/ CloseLock(t)
         \/ UNCHANGED <<ch, closed, holds>>
<1> USE DEF lockVars
<1>1. CASE UNCHANGED vars
  BY <1>1 DEF vars, lockerVars
<1>2. ASSUME NEW t \in Clients, Request(t) PROVE UNCHANGED lockVars
  BY <1>2 DEF Request
<1>3. ASSUME NEW t \in Threads, PowerStep(t), ~AcquireLock(t), ~Finish(t)
      PROVE  UNCHANGED lockVars
  BY <1>3 DEF PowerStep, Begin, LockBusy, LockPanics, ErrLockerLocked, SendOnClosed,
     CheckOffline, OnBeforeStart, lockerVars
<1>4. ASSUME NEW t \in Threads, EnvStep(t) PROVE UNCHANGED lockVars
  BY <1>4 DEF EnvStep
<1>5. ASSUME NEW t \in Threads,
             \/ SetTransferring(t) \/ EndTransfer(t) \/ CancelContext(t) \/ EndDelete(t)
             \/ WriteToNil(t)
      PROVE  UNCHANGED lockVars
  BY <1>5 DEF WriteToNil, SetTransferring, EndTransfer, CancelContext, EndDelete
<1>6. ASSUME NEW t \in Handlers, LoadPrevious(t) \/ HandlerStep(t) PROVE UNCHANGED lockVars
  BY <1>6 DEF LoadPrevious, HandlerStep, ReadState, StoreState, DetectCrash, CrashState,
     CrashExit, MarkCrash
<1>7. ASSUME NEW t \in Consoles, ConsoleLine(t) \/ CheckLine(t) \/ MarkLine(t)
      PROVE  UNCHANGED lockVars
  BY <1>7 DEF ConsoleLine, CheckLine, MarkLine
<1>8. ASSUME NEW r \in Readers, ReaderStep(r) \/ StreamBreaks(r) PROVE UNCHANGED lockVars
  BY <1>8 DEF ReaderStep, StreamBreaks
<1>9. CASE Exit \/ ListenerStops \/ CrashTimeoutPasses
  BY <1>9 DEF Exit, ListenerStops, CrashTimeoutPasses
<1> QED
  BY <1>1, <1>2, <1>3, <1>4, <1>5, <1>6, <1>7, <1>8, <1>9 DEF Next, ThreadStep

LEMMA ExclusionStep ==
  ASSUME TypeOK, PowerActionsExclusive, [Next]_vars
  PROVE  PowerActionsExclusive'
<1> USE DEF PowerActionsExclusive, IsLocked
<1>a. holds \in [Threads -> BOOLEAN] /\ ch \in 0..1
  BY DEF TypeOK, LockerTypeOK
<1>1. ASSUME NEW t \in Threads, AcquireLock(t) PROVE PowerActionsExclusive'
  <2>1. \A u \in Threads : ~holds[u]
    BY <1>1, <1>a DEF AcquireLock, Acquired
  <2>2. \A u \in Threads : holds'[u] <=> u = t
    BY <1>1, <1>a, <2>1 DEF AcquireLock
  <2> QED
    BY <1>1, <2>2 DEF AcquireLock, Acquired
<1>2. ASSUME NEW t \in Threads, Finish(t) PROVE PowerActionsExclusive'
  <2>1. \A u \in Threads : holds'[u] <=> holds[u] /\ u # t
    BY <1>2, <1>a DEF Finish
  <2>2. CASE holds[t]
    BY <1>2, <2>1, <2>2 DEF Finish, Release
  <2>3. CASE ~holds[t]
    BY <1>2, <2>1, <2>3 DEF Finish, lockerVars
  <2> QED
    BY <2>2, <2>3
<1>3. ASSUME NEW t \in Threads, CloseLock(t) PROVE PowerActionsExclusive'
  BY <1>3 DEF CloseLock, Destroy
<1>4. CASE UNCHANGED <<ch, closed, holds>>
  BY <1>4
<1> QED
  BY <1>1, <1>2, <1>3, <1>4, LockFrame

LEMMA ExclusionInit == Init => PowerActionsExclusive
BY DEF Init, LockerInit, PowerActionsExclusive, IsLocked

\* Power actions run one at a time, for any number of requests, event handlers
\* and crash handlers: nobody holds the lock of HandlePowerAction together with
\* somebody else, no error path leaks it, and a kill that went on without it
\* never releases it for the action that holds it.
THEOREM Exclusion == Spec => []PowerActionsExclusive
<1>1. TypeOK /\ PowerActionsExclusive /\ [Next]_vars => PowerActionsExclusive'
  BY ExclusionStep
<1> QED
  BY <1>1, ExclusionInit, TypeCorrect, PTL DEF Spec

-----------------------------------------------------------------------------
\* Who is inside Environment.Start.

\* A step of thread t leaves the other threads alone.
Alone(t) ==
  \A u \in Threads \ {t} : pc'[u] = pc[u] /\ op'[u] = op[u] /\ holds'[u] = holds[u]

LEMMA WorkKept ==
  ASSUME LockedWork, NEW t \in Threads, Alone(t), Work(t)'
  PROVE  LockedWork'
BY DEF LockedWork, Alone, Work

LEMMA GotoAlone ==
  ASSUME TypeOK, NEW t \in Threads, NEW l, Goto(t, l), UNCHANGED holds
  PROVE  Alone(t) /\ pc'[t] = l /\ op'[t] = op[t] /\ holds'[t] = holds[t]
BY DEF TypeOK, Goto, Alone

LEMMA EscalateAlone ==
  ASSUME TypeOK, NEW t \in Threads, Escalate(t), UNCHANGED holds
  PROVE  Alone(t) /\ pc'[t] = "signal" /\ op'[t] = op[t] /\ holds'[t] = holds[t]
BY DEF TypeOK, Escalate, Alone

LEMMA RunAlone ==
  ASSUME TypeOK, NEW t \in Threads, NEW o, NEW l, Run(t, o, l), UNCHANGED holds
  PROVE  Alone(t) /\ pc'[t] = l /\ op'[t] = o /\ holds'[t] = holds[t]
BY DEF TypeOK, Run, Alone

LEMMA QuitAlone ==
  ASSUME TypeOK, NEW t \in Threads, Quit(t), UNCHANGED holds
  PROVE  Alone(t) /\ pc'[t] = "idle" /\ op'[t] = "none" /\ holds'[t] = holds[t]
BY RunAlone DEF Quit

\* Where WaitForStop can return to.
LEMMA AfterStopLabels ==
  ASSUME NEW t, NEW ok \in BOOLEAN
  PROVE  /\ AfterStop(t, ok) \in {"sync", "archive", "giveUp", "done", "failed"}
         /\ AfterStop(t, ok) = "sync" => ok /\ op[t] = "restart"
         /\ AfterStop(t, ok) = "done" => ok
BY DEF AfterStop

\* Where a step of Environment.Start leads, and what it does to the container.
StartMoved(t) ==
  /\ Alone(t) /\ op'[t] = op[t] /\ holds'[t] = holds[t]
  /\ pc[t] \in BootLabels
  /\ pc'[t] \in (BootLabels \ {"check", "sync"}) \cup {"done", "failed"}
  /\ UNCHANGED cancelled

LEMMA StartMoves ==
  ASSUME TypeOK, NEW t \in Threads, StartStep(t), UNCHANGED holds
  PROVE  /\ StartMoved(t)
         /\ cont' \in Running => cont' = cont \/ (pc[t] = "booting" /\ cont # "absent")
<1>1. PICK l \in (BootLabels \ {"check", "sync"}) \cup {"done", "failed"} :
         Goto(t, l) /\ pc[t] \in BootLabels /\ UNCHANGED cancelled
  BY DEF StartStep, StartInspect, SetStarting, RemoveContainer, CreateContainer,
     AttachRunning, AttachCreated, Attach, SendStart, ContainerStart, UnwindStopping,
     UnwindOffline, At, BootLabels
<1>2. cont' \in Running => cont' = cont \/ (pc[t] = "booting" /\ cont # "absent")
  BY DEF StartStep, StartInspect, SetStarting, RemoveContainer, CreateContainer,
     AttachRunning, AttachCreated, Attach, SendStart, ContainerStart, UnwindStopping,
     UnwindOffline, At, Running
<1> QED
  BY <1>1, <1>2, GotoAlone DEF StartMoved

LEMMA StartWork ==
  ASSUME TypeOK, LockedWork, NEW t \in Threads, StartStep(t), UNCHANGED holds
  PROVE  LockedWork'
BY StartMoves, WorkKept DEF StartMoved, LockedWork, Work, BootLabels

\* Where a step of Stop, WaitForStop, SignalContainer or Terminate leads.
StopLabels == {"signal", "write", "writing", "native", "wait", "deadStopping", "deadOffline",
               "liveStopping", "sendSignal", "terminated", "archive", "giveUp", "done", "failed"}

LEMMA StopMoves ==
  ASSUME TypeOK, NEW t \in Threads, StopStep(t), UNCHANGED holds
  PROVE  /\ Alone(t) /\ op'[t] = op[t] /\ holds'[t] = holds[t]
         /\ pc[t] \notin BootLabels \cup {"begin", "lock"}
         /\ pc'[t] \in StopLabels \/ (pc'[t] = "sync" /\ op[t] = "restart")
<1>1. pc[t] \notin BootLabels \cup {"begin", "lock"}
  BY DEF StopStep, StopMark, CheckAttached, WriteStopCommand, NativeStop, WaitStopped, SignalInspect,
     DeadStopping, DeadOffline, LiveStopping, ContainerKill, TerminateOffline, At, BootLabels
<1>2. \/ Escalate(t)
      \/ \E l \in StopLabels : Goto(t, l)
      \/ \E ok \in BOOLEAN : Goto(t, AfterStop(t, ok))
  <2> USE DEF StopLabels
  <2>1. CASE StopMark(t)
    BY <2>1 DEF StopMark
  <2>2. CASE CheckAttached(t) \/ WriteStopCommand(t)
    BY <2>2 DEF CheckAttached, WriteStopCommand
  <2>3. CASE NativeStop(t) \/ WaitStopped(t)
    BY <2>3 DEF NativeStop, WaitStopped
  <2>4. CASE SignalInspect(t) \/ ContainerKill(t)
    BY <2>4 DEF SignalInspect, ContainerKill, SignalError, Signalled
  <2>5. CASE DeadStopping(t) \/ DeadOffline(t) \/ LiveStopping(t) \/ TerminateOffline(t)
    BY <2>5 DEF DeadStopping, DeadOffline, LiveStopping, TerminateOffline, Signalled
  <2> QED
    BY <2>1, <2>2, <2>3, <2>4, <2>5 DEF StopStep
<1>3. CASE Escalate(t)
  BY <1>1, <1>3, EscalateAlone DEF StopLabels
<1>4. CASE \E l \in StopLabels : Goto(t, l)
  BY <1>1, <1>4, GotoAlone
<1>5. CASE \E ok \in BOOLEAN : Goto(t, AfterStop(t, ok))
  BY <1>1, <1>5, GotoAlone, AfterStopLabels DEF StopLabels
<1> QED
  BY <1>2, <1>3, <1>4, <1>5

LEMMA StopWork ==
  ASSUME TypeOK, LockedWork, NEW t \in Threads, StopStep(t), UNCHANGED holds
  PROVE  LockedWork'
BY StopMoves, WorkKept DEF LockedWork, Work, BootLabels, StopLabels

LEMMA WorkStep ==
  ASSUME TypeOK, LockedWork, [Next]_vars
  PROVE  LockedWork'
<1>a. Clients \subseteq Threads /\ Handlers \subseteq Threads /\ Consoles \subseteq Threads
  BY ServerPowerAssumption
<1>b. ASSUME UNCHANGED <<threadVars, holds>> PROVE LockedWork'
  BY <1>b DEF LockedWork, Work, threadVars
<1>1. CASE UNCHANGED vars
  BY <1>1, <1>b DEF vars
<1>2. ASSUME NEW t \in Clients, Request(t) PROVE LockedWork'
  <2>1. PICK o \in Ops : Run(t, o, Entry(o)) /\ UNCHANGED holds
    BY <1>2 DEF Request, lockVars
  <2>2. Entry(o) \notin BootLabels
    BY ServerPowerAssumption DEF Entry, BootLabels
  <2>3. o \in {"start", "stop", "restart"} => Entry(o) = "begin"
    BY DEF Entry
  <2> QED
    BY <1>a, <2>1, <2>2, <2>3, RunAlone, WorkKept DEF Work, BootLabels
<1>3. ASSUME NEW t \in Threads, PowerStep(t) PROVE LockedWork'
  <2>1. CASE Begin(t)
    BY <2>1, GotoAlone, QuitAlone, WorkKept DEF Begin, Work, BootLabels, lockVars
  <2>2. ASSUME Dispatch(t)
        PROVE  /\ \A u \in Threads \ {t} : pc'[u] = pc[u]
               /\ pc'[t] \in {"check", "signal", "stop"}
               /\ pc'[t] = "check" => op[t] = "start"
               /\ op' = op
    <3>1. (CASE op[t] = "start" -> "check" [] op[t] = "kill" -> "signal" [] OTHER -> "stop")
            \in {"check", "signal", "stop"}
      OBVIOUS
    <3>2. (CASE op[t] = "start" -> "check" [] op[t] = "kill" -> "signal" [] OTHER -> "stop")
            = "check" => op[t] = "start"
      OBVIOUS
    <3> QED
      BY <2>2, <3>1, <3>2 DEF Dispatch, TypeOK
  <2>3. CASE AcquireLock(t)
    <3>1. Alone(t) /\ holds'[t]
      BY <2>2, <2>3 DEF AcquireLock, TypeOK, Alone
    <3> QED
      BY <2>2, <2>3, <3>1, WorkKept DEF AcquireLock, Work, BootLabels
  <2>4. CASE LockBusy(t)
    <3>1. CASE op[t] = "kill"
      <4>1. Alone(t)
        BY <2>2, <2>4, <3>1 DEF LockBusy, Alone
      <4> QED
        BY <2>2, <2>4, <3>1, <4>1, WorkKept DEF LockBusy, Work, BootLabels
    <3>2. CASE op[t] # "kill"
      BY <2>4, <3>2, QuitAlone, WorkKept DEF LockBusy, Work, BootLabels
    <3> QED
      BY <3>1, <3>2
  <2>5. CASE LockPanics(t)
    BY <2>5, <1>b DEF LockPanics
  <2>6. CASE CheckOffline(t)
    BY <2>6, GotoAlone, WorkKept DEF CheckOffline, LockedWork, Work, BootLabels, lockVars
  <2>7. CASE OnBeforeStart(t)
    BY <2>7, GotoAlone, WorkKept DEF OnBeforeStart, LockedWork, Work, BootLabels, lockVars
  <2>8. CASE Finish(t)
    <3>1. Alone(t) /\ pc'[t] = "idle" /\ op'[t] = "none"
      BY <2>8 DEF Finish, Quit, Run, TypeOK, Alone
    <3> QED
      BY <3>1, WorkKept DEF Work, BootLabels
  <2> QED
    BY <1>3, <2>1, <2>3, <2>4, <2>5, <2>6, <2>7, <2>8 DEF PowerStep
<1>4. ASSUME NEW t \in Threads, EnvStep(t) PROVE LockedWork'
  <2>1. ASSUME DestroyStopping(t) \/ DestroyRemove(t) PROVE LockedWork'
    BY <1>4, <2>1, GotoAlone, WorkKept
    DEF EnvStep, DestroyStopping, DestroyRemove, At, LockedWork, Work, BootLabels, lockVars
  <2> QED
    BY <1>4, <2>1, StartWork, StopWork DEF EnvStep, lockVars
<1>5. ASSUME NEW t \in Threads, SetTransferring(t) \/ CancelContext(t) \/ CloseLock(t)
      PROVE  LockedWork'
  <2>1. PICK l \in {"archive", "stop", "closeLock", "destroy"} :
          Goto(t, l) /\ UNCHANGED holds /\ pc[t] \notin {"begin", "lock"}
    BY <1>5 DEF SetTransferring, CancelContext, CloseLock, lockVars
  <2> QED
    BY <2>1, GotoAlone, WorkKept DEF LockedWork, Work, BootLabels
<1>6. ASSUME NEW t \in Threads, EndTransfer(t) \/ EndDelete(t) PROVE LockedWork'
  BY <1>6, QuitAlone, WorkKept DEF EndTransfer, EndDelete, Work, BootLabels, lockVars
<1>6a. ASSUME NEW t \in Threads, WriteToNil(t) PROVE LockedWork'
  BY <1>6a, GotoAlone, WorkKept
  DEF WriteToNil, WritePanics, At, LockedWork, Work, BootLabels, lockVars
<1>7. ASSUME NEW t \in Handlers, LoadPrevious(t) \/ MarkCrash(t) PROVE LockedWork'
  BY <1>7, <1>a, RunAlone, WorkKept DEF LoadPrevious, MarkCrash, Work, BootLabels, lockVars
<1>8. ASSUME NEW t \in Threads, NEW l \in Labels \ BootLabels, pc[t] \notin {"begin", "lock"},
             Goto(t, l) \/ Quit(t), UNCHANGED holds
      PROVE  LockedWork'
  BY <1>8, GotoAlone, QuitAlone, WorkKept DEF LockedWork, Work, BootLabels
<1>9. ASSUME NEW t \in Handlers, HandlerStep(t), ~MarkCrash(t) PROVE LockedWork'
  <2>1. PICK l \in {"read", "stored", "crash", "exitState", "markCrash"} :
          Goto(t, l) \/ Quit(t)
    BY <1>9 DEF HandlerStep, ReadState, StoreState, DetectCrash, CrashState, CrashExit
  <2>2. pc[t] \notin {"begin", "lock"} /\ UNCHANGED holds
    BY <1>9 DEF HandlerStep, ReadState, StoreState, DetectCrash, CrashState, CrashExit, lockVars
  <2>3. l \in Labels \ BootLabels
    BY DEF Labels, BootLabels
  <2> QED
    BY <1>8, <1>a, <2>1, <2>2, <2>3
<1>10. ASSUME NEW t \in Consoles, ConsoleLine(t) PROVE LockedWork'
  BY <1>10, <1>a, RunAlone, WorkKept DEF ConsoleLine, Work, BootLabels, lockVars
<1>11. ASSUME NEW t \in Consoles, CheckLine(t) \/ MarkLine(t) PROVE LockedWork'
  <2>1. PICK l \in {"markRunning", "markOffline"} : Goto(t, l) \/ Quit(t)
    BY <1>11 DEF CheckLine, MarkLine
  <2>2. pc[t] \notin {"begin", "lock"} /\ UNCHANGED holds
    BY <1>11 DEF CheckLine, MarkLine, lockVars
  <2>3. l \in Labels \ BootLabels
    BY DEF Labels, BootLabels
  <2> QED
    BY <1>8, <1>a, <2>1, <2>2, <2>3
<1>12. ASSUME NEW r \in Readers, ReaderStep(r) \/ StreamBreaks(r) PROVE LockedWork'
  BY <1>12, <1>b DEF ReaderStep, StreamBreaks, ReaderOffline, ReaderClose, ReaderFails, lockVars
<1>13. CASE Exit \/ ListenerStops \/ CrashTimeoutPasses
  BY <1>13, <1>b DEF Exit, ContainerExit, ListenerStops, CrashTimeoutPasses, lockVars
<1> QED
  BY <1>1, <1>2, <1>3, <1>4, <1>5, <1>6, <1>6a, <1>7, <1>9, <1>10, <1>11, <1>12,
     <1>13
  DEF Next, ThreadStep, HandlerStep

LEMMA WorkInit == Init => LockedWork
BY DEF Init, LockedWork, Work, BootLabels

\* The invariant the remaining proofs rest on: types, mutual exclusion, and who
\* is inside Environment.Start.
THEOREM PowerInvariant == Spec => []PowerInv
<1>1. Init => PowerInv
  BY TypeInit, ExclusionInit, WorkInit DEF PowerInv
<1>2. PowerInv /\ [Next]_vars => PowerInv'
  BY TypeStep, ExclusionStep, WorkStep DEF PowerInv
<1> QED
  BY <1>1, <1>2, PTL DEF Spec

-----------------------------------------------------------------------------
\* What a step outside the environment may do to labels and to the container.

\* Labels that the proofs below speak about.
Marked == {"sync", "booting", "deadStopping", "deadOffline", "terminated", "done",
           "closeLock", "destroy", "destroyRemove", "destroyed", "destroyError"}

Elsewhere(t) == Alone(t) /\ pc'[t] \notin Marked /\ UNCHANGED <<cont, cancelled, deleted>>

NoThread ==
  /\ UNCHANGED <<pc, op, holds, cancelled, deleted>>
  /\ UNCHANGED cont \/ (cont \in Running /\ cont' \notin Running)

LEMMA ThreadFrame ==
  ASSUME TypeOK, [Next]_vars
  PROVE  \/ \E t \in Threads :
              \/ EnvStep(t) \/ CheckOffline(t)
              \/ CancelContext(t) \/ CloseLock(t) \/ EndDelete(t)
              \/ Elsewhere(t)
         \/ NoThread
<1>a. Clients \subseteq Threads /\ Handlers \subseteq Threads /\ Consoles \subseteq Threads
  BY ServerPowerAssumption
<1>1. CASE UNCHANGED vars
  BY <1>1 DEF vars, NoThread, threadVars, envVars, serverVars
<1>2. ASSUME NEW t \in Clients, Request(t) PROVE Elsewhere(t)
  <2>1. PICK o \in Ops : Run(t, o, Entry(o)) /\ UNCHANGED holds
    BY <1>2 DEF Request, lockVars
  <2>2. Entry(o) \notin Marked
    BY ServerPowerAssumption DEF Entry, Marked
  <2> QED
    BY <1>2, <1>a, <2>1, <2>2, RunAlone DEF Request, Elsewhere, envVars, serverVars
<1>3. ASSUME NEW t \in Threads, PowerStep(t), ~CheckOffline(t) PROVE Elsewhere(t) \/ NoThread
  <2> USE DEF envVars, serverVars, lockVars
  <2>1. CASE Begin(t)
    BY <2>1, GotoAlone, QuitAlone DEF Begin, Elsewhere, Marked
  <2>2. ASSUME Dispatch(t)
        PROVE  /\ \A u \in Threads \ {t} : pc'[u] = pc[u]
               /\ pc'[t] \in {"check", "signal", "stop"}
               /\ op' = op
    <3>1. (CASE op[t] = "start" -> "check" [] op[t] = "kill" -> "signal" [] OTHER -> "stop")
            \in {"check", "signal", "stop"}
      OBVIOUS
    <3> QED
      BY <2>2, <3>1 DEF Dispatch, TypeOK
  <2>3. CASE AcquireLock(t)
    BY <2>2, <2>3 DEF AcquireLock, Elsewhere, Alone, Marked, TypeOK
  <2>4. CASE LockBusy(t)
    <3>1. CASE op[t] = "kill"
      BY <2>2, <2>4, <3>1 DEF LockBusy, Elsewhere, Alone, Marked
    <3>2. CASE op[t] # "kill"
      BY <2>4, <3>2, QuitAlone DEF LockBusy, Elsewhere, Marked
    <3> QED
      BY <3>1, <3>2
  <2>5. CASE LockPanics(t)
    BY <2>5 DEF LockPanics, NoThread, threadVars
  <2>6. CASE OnBeforeStart(t)
    BY <2>6, GotoAlone DEF OnBeforeStart, Elsewhere, Marked
  <2>7. CASE Finish(t)
    BY <2>7 DEF Finish, Quit, Run, Elsewhere, Alone, Marked, TypeOK
  <2> QED
    BY <1>3, <2>1, <2>3, <2>4, <2>5, <2>6, <2>7 DEF PowerStep
<1>4. ASSUME NEW t \in Threads, SetTransferring(t) \/ EndTransfer(t) PROVE Elsewhere(t)
  BY <1>4, GotoAlone, QuitAlone
  DEF SetTransferring, EndTransfer, Elsewhere, Marked, envVars, lockVars
<1>4a. ASSUME NEW t \in Threads, WriteToNil(t) PROVE Elsewhere(t)
  BY <1>4a, GotoAlone DEF WriteToNil, WritePanics, Elsewhere, Marked, lockVars
<1>5. ASSUME NEW t \in Handlers, LoadPrevious(t) \/ MarkCrash(t) PROVE Elsewhere(t)
  BY <1>5, <1>a, RunAlone DEF LoadPrevious, MarkCrash, Elsewhere, Marked, envVars, lockVars
<1>6. ASSUME NEW t \in Handlers, HandlerStep(t), ~MarkCrash(t) PROVE Elsewhere(t)
  <2>1. PICK l \in {"read", "stored", "crash", "exitState", "markCrash"} :
          Goto(t, l) \/ Quit(t)
    BY <1>6 DEF HandlerStep, ReadState, StoreState, DetectCrash, CrashState, CrashExit
  <2>2. UNCHANGED <<holds, cont, cancelled, deleted>>
    BY <1>6 DEF HandlerStep, ReadState, StoreState, DetectCrash, CrashState, CrashExit,
       lockVars, envVars, serverVars
  <2> QED
    BY <1>a, <2>1, <2>2, GotoAlone, QuitAlone DEF Elsewhere, Marked
<1>7. ASSUME NEW t \in Consoles, ConsoleLine(t) PROVE Elsewhere(t)
  BY <1>7, <1>a, RunAlone DEF ConsoleLine, Elsewhere, Marked, lockVars, envVars, serverVars
<1>8. ASSUME NEW t \in Consoles, CheckLine(t) \/ MarkLine(t) PROVE Elsewhere(t)
  <2>1. PICK l \in {"markRunning", "markOffline"} : Goto(t, l) \/ Quit(t)
    BY <1>8 DEF CheckLine, MarkLine
  <2>2. UNCHANGED <<holds, cont, cancelled, deleted>>
    BY <1>8 DEF CheckLine, MarkLine, lockVars, envVars, serverVars
  <2> QED
    BY <1>a, <2>1, <2>2, GotoAlone, QuitAlone DEF Elsewhere, Marked
<1>9. ASSUME NEW r \in Readers, ReaderStep(r) \/ StreamBreaks(r) PROVE NoThread
  BY <1>9 DEF ReaderStep, StreamBreaks, ReaderOffline, ReaderClose, ReaderFails, NoThread,
     lockVars, threadVars, serverVars
<1>10. CASE Exit
  BY <1>10 DEF Exit, ContainerExit, NoThread, Running, lockVars, threadVars, serverVars
<1>11. CASE ListenerStops \/ CrashTimeoutPasses
  BY <1>11 DEF ListenerStops, CrashTimeoutPasses, NoThread, lockVars, threadVars, envVars,
     serverVars
<1> QED
  BY <1>1, <1>2, <1>3, <1>4, <1>4a, <1>5, <1>6, <1>7, <1>8, <1>9, <1>10, <1>11, <1>a
  DEF Next, ThreadStep, HandlerStep

-----------------------------------------------------------------------------
\* A stopped server is stopped.

LEMMA HaltKept ==
  ASSUME PowerInv, HaltedWork, NEW t \in Threads, Alone(t), Halt(t)',
         cont' = "running" => cont = "running" \/ pc[t] = "booting"
  PROVE  HaltedWork'
<1> SUFFICES ASSUME NEW u \in Threads, u # t PROVE Halt(u)'
  BY DEF HaltedWork
<1>1. Halt(u) /\ pc'[u] = pc[u] /\ op'[u] = op[u] /\ holds'[u] = holds[u]
  BY DEF HaltedWork, Alone
<1>2. CASE cont' = "running" /\ cont # "running"
  <2>1. holds[t]
    BY <1>2 DEF PowerInv, LockedWork, Work, BootLabels
  <2>2. ~holds[u]
    BY <2>1 DEF PowerInv, PowerActionsExclusive
  <2> QED
    BY <1>1, <2>2 DEF Halt, PowerInv, LockedWork, Work
<1> QED
  BY <1>1, <1>2 DEF Halt

LEMMA StartHalt ==
  ASSUME PowerInv, HaltedWork, NEW t \in Threads, StartStep(t), UNCHANGED holds
  PROVE  HaltedWork'
<1>1. StartMoved(t)
  BY StartMoves DEF PowerInv
<1>2. cont' = "running" => cont = "running" \/ pc[t] = "booting"
  BY StartMoves DEF PowerInv, Running
<1>3. op[t] \in {"start", "restart"}
  BY <1>1 DEF StartMoved, PowerInv, LockedWork, Work
<1> QED
  BY <1>1, <1>2, <1>3, HaltKept DEF StartMoved, Halt, BootLabels

LEMMA StopHalt ==
  ASSUME PowerInv, HaltedWork, NEW t \in Threads, StopStep(t), UNCHANGED holds
  PROVE  HaltedWork'
<1> USE DEF PowerInv
<1>1. cont' = "running" => cont = "running"
  BY DEF StopStep, StopMark, CheckAttached, WriteStopCommand, NativeStop, WaitStopped, SignalInspect,
     DeadStopping, DeadOffline, LiveStopping, ContainerKill, TerminateOffline
<1>2. ASSUME NEW l \in {"signal", "write", "writing", "native", "wait", "liveStopping", "sendSignal",
                        "archive", "giveUp", "failed"}, Goto(t, l)
      PROVE  HaltedWork'
  BY <1>1, <1>2, GotoAlone, HaltKept DEF Halt
<1>3. ASSUME Escalate(t) PROVE HaltedWork'
  BY <1>1, <1>3, EscalateAlone, HaltKept DEF Halt
<1>4. ASSUME Goto(t, AfterStop(t, FALSE)) PROVE HaltedWork'
  BY <1>2, <1>4, AfterStopLabels
<1>5. ASSUME NEW l, Goto(t, l), holds[t] \/ (l = "sync" /\ op[t] = "restart") => cont' # "running"
      PROVE  HaltedWork'
  BY <1>1, <1>5, GotoAlone, HaltKept DEF Halt
<1>6. CASE StopMark(t)
  BY <1>2, <1>6 DEF StopMark
<1>6a. CASE CheckAttached(t)
  BY <1>2, <1>4, <1>6a DEF CheckAttached
<1>7. CASE WriteStopCommand(t)
  <2>1. ASSUME op[t] = "command", Goto(t, "done") PROVE HaltedWork'
    BY <1>1, <2>1, GotoAlone, HaltKept DEF Halt
  <2> QED
    BY <1>2, <1>4, <1>7, <2>1 DEF WriteStopCommand
<1>8. CASE NativeStop(t)
  BY <1>2, <1>3, <1>4, <1>8 DEF NativeStop
<1>9. CASE WaitStopped(t)
  BY <1>3, <1>4, <1>5, <1>9 DEF WaitStopped, Running
<1>10. SignalError(t) => HaltedWork'
  BY <1>3, <1>4 DEF SignalError
<1>11. CASE SignalInspect(t)
  BY <1>2, <1>5, <1>10, <1>11 DEF SignalInspect, Running
<1>12. CASE DeadStopping(t)
  BY <1>5, <1>12 DEF DeadStopping, HaltedWork, Halt, At
<1>13. CASE DeadOffline(t)
  <2>1. holds[t] => cont' # "running"
    BY <1>13 DEF DeadOffline, HaltedWork, Halt, At
  <2> QED
    BY <1>5, <1>13, <2>1 DEF DeadOffline, Signalled
<1>14. CASE LiveStopping(t)
  BY <1>2, <1>14 DEF LiveStopping
<1>15. CASE ContainerKill(t)
  BY <1>2, <1>5, <1>10, <1>15 DEF ContainerKill, Signalled
<1>16. CASE TerminateOffline(t)
  <2>1. holds[t] => cont' # "running"
    BY <1>16 DEF TerminateOffline, HaltedWork, Halt, At
  <2>2. op[t] = "restart" => holds[t]
    BY <1>16 DEF TerminateOffline, At, LockedWork, Work
  <2> QED
    BY <1>5, <1>16, <2>1, <2>2 DEF TerminateOffline
<1> QED
  BY <1>6, <1>6a, <1>7, <1>8, <1>9, <1>11, <1>12, <1>13, <1>14, <1>15, <1>16 DEF StopStep

LEMMA HaltStep ==
  ASSUME PowerInv, HaltedWork, [Next]_vars
  PROVE  HaltedWork'
<1> USE DEF PowerInv
<1>1. ASSUME NEW t \in Threads, EnvStep(t) PROVE HaltedWork'
  <2>1. CASE DestroyStopping(t) \/ DestroyRemove(t)
    BY <1>1, <2>1, GotoAlone, HaltKept DEF EnvStep, DestroyStopping, DestroyRemove, Halt, lockVars
  <2> QED
    BY <1>1, <2>1, StartHalt, StopHalt DEF EnvStep, lockVars
<1>2. ASSUME NEW t \in Threads, CheckOffline(t) PROVE HaltedWork'
  <2>1. op[t] = "start"
    BY <1>2 DEF CheckOffline, LockedWork, Work
  <2> QED
    BY <1>2, <2>1, GotoAlone, HaltKept DEF CheckOffline, Halt, lockVars, envVars
<1>3. ASSUME NEW t \in Threads, CancelContext(t) \/ CloseLock(t) PROVE HaltedWork'
  BY <1>3, GotoAlone, HaltKept DEF CancelContext, CloseLock, Halt, lockVars, envVars
<1>4. ASSUME NEW t \in Threads, EndDelete(t) PROVE HaltedWork'
  BY <1>4, QuitAlone, HaltKept DEF EndDelete, Halt, lockVars
<1>5. ASSUME NEW t \in Threads, Elsewhere(t) PROVE HaltedWork'
  BY <1>5, HaltKept DEF Elsewhere, Halt, Marked
<1>6. CASE NoThread
  BY <1>6 DEF NoThread, HaltedWork, Halt, Running
<1> QED
  BY <1>1, <1>2, <1>3, <1>4, <1>5, <1>6, ThreadFrame

LEMMA HaltInit == Init => HaltedWork
BY DEF Init, HaltedWork, Halt

\* A stop or kill that HandlePowerAction reports as done under the lock, and the
\* stop half of a restart, leave no process behind that was not at least sent
\* SIGKILL, in every interleaving with other requests, crash handlers and the
\* operations that bypass the lock.
THEOREM StopIsSafe == Spec => []StoppedMeansStopped
<1>1. PowerInv /\ HaltedWork /\ [Next]_vars => HaltedWork'
  BY HaltStep
<1>2. HaltedWork => StoppedMeansStopped
  BY DEF HaltedWork, Halt, StoppedMeansStopped
<1> QED
  BY <1>1, <1>2, HaltInit, PowerInvariant, PTL DEF Spec

-----------------------------------------------------------------------------
\* A deleted server never runs again.

DeleteLabels == {"closeLock", "destroy", "destroyRemove", "destroyed", "destroyError"}

\* At most one thread is inside Environment.Start.
LEMMA OneBooter ==
  ASSUME PowerInv, NEW t \in Threads, NEW u \in Threads,
         pc[t] \in BootLabels, pc[u] \in BootLabels
  PROVE  t = u
<1>1. holds[t] /\ holds[u]
  BY DEF PowerInv, LockedWork, Work, BootLabels
<1> QED
  BY <1>1 DEF PowerInv, PowerActionsExclusive

LEMMA DeleteStep ==
  ASSUME PowerInv, DeletionOrder, [Next]_vars
  PROVE  DeletionOrder'
<1> USE DEF PowerInv
\* A step that reaches none of the labels the invariant speaks about and, once
\* the container is removed, leaves it alone.
<1>a. ASSUME NEW t \in Threads, Alone(t), pc'[t] \notin DeleteLabels \cup {"booting"},
             UNCHANGED <<cancelled, deleted>>,
             Removed => cont' = cont \/ (cont' \notin Running
                          /\ \A u \in Threads \ {t} : pc[u] # "booting")
      PROVE  DeletionOrder'
  BY <1>a DEF DeletionOrder, Removed, Alone, DeleteLabels
<1>1. ASSUME NEW t \in Threads, StartStep(t), UNCHANGED <<holds, deleted>> PROVE DeletionOrder'
  <2>1. StartMoved(t)
    BY <1>1, StartMoves
  <2>2. \A u \in Threads \ {t} : pc[u] # "booting"
    BY <2>1, OneBooter DEF StartMoved, BootLabels
  <2>3. Removed => cont' = cont \/ cont' \notin Running
    BY <1>1, StartMoves DEF DeletionOrder
  <2>4. CASE pc'[t] # "booting"
    BY <1>1, <1>a, <2>1, <2>2, <2>3, <2>4 DEF StartMoved, BootLabels, DeleteLabels
  <2>5. CASE pc'[t] = "booting"
    <3>1. SendStart(t) /\ ~cancelled
      <4>1. pc[t] # "booting" => SendStart(t)
        BY <1>1, <2>5 DEF StartStep, StartInspect, SetStarting, RemoveContainer,
           CreateContainer, AttachRunning, AttachCreated, Attach, ContainerStart,
           UnwindStopping, UnwindOffline, Goto, TypeOK
      <4>2. pc[t] = "booting" => ContainerStart(t)
        BY <1>1 DEF StartStep, StartInspect, SetStarting, RemoveContainer,
           CreateContainer, AttachRunning, AttachCreated, Attach, SendStart,
           UnwindStopping, UnwindOffline, At
      <4>3. ContainerStart(t) => pc'[t] # "booting"
        BY GotoAlone DEF ContainerStart, Goto, TypeOK
      <4> QED
        BY <2>5, <4>1, <4>2, <4>3 DEF SendStart, Goto, TypeOK
    <3>2. ~Removed
      BY <3>1 DEF DeletionOrder
    <3>3. ~Removed'
      BY <1>1, <2>1, <2>5, <3>2 DEF Removed, StartMoved, Alone
    <3> QED
      BY <2>1, <2>5, <3>3 DEF DeletionOrder, StartMoved, Alone
  <2> QED
    BY <2>4, <2>5
<1>2. ASSUME NEW t \in Threads, StopStep(t), UNCHANGED <<holds, deleted>> PROVE DeletionOrder'
  <2>1. Removed => cont' = cont
    BY <1>2 DEF StopStep, StopMark, CheckAttached, WriteStopCommand, NativeStop, WaitStopped, SignalInspect,
       DeadStopping, DeadOffline, LiveStopping, ContainerKill, TerminateOffline,
       DeletionOrder, Running
  <2>2. UNCHANGED cancelled
    BY <1>2 DEF StopStep, StopMark, CheckAttached, WriteStopCommand, NativeStop, WaitStopped, SignalInspect,
       DeadStopping, DeadOffline, LiveStopping, ContainerKill, TerminateOffline
  <2>3. Alone(t) /\ pc'[t] \notin DeleteLabels \cup {"booting"}
    BY <1>2, StopMoves DEF DeleteLabels, StopLabels
  <2> QED
    BY <1>2, <1>a, <2>1, <2>2, <2>3
<1>3. ASSUME NEW t \in Threads, EnvStep(t) PROVE DeletionOrder'
  <2>0. UNCHANGED <<holds, deleted>>
    BY <1>3 DEF EnvStep, lockVars, serverVars
  <2>1. CASE DestroyStopping(t)
    BY <2>0, <2>1, GotoAlone DEF DestroyStopping, DeletionOrder, Removed, Alone, At
  <2>2. CASE DestroyRemove(t)
    <3>1. CASE Goto(t, "destroyed") /\ cont' = "absent"
      BY <2>0, <2>2, <3>1, GotoAlone DEF DestroyRemove, DeletionOrder, Alone, At, Running
    <3>2. CASE Goto(t, "destroyError") /\ cont' = cont
      BY <2>0, <2>2, <3>2, GotoAlone DEF DestroyRemove, DeletionOrder, Removed, Alone, At
    <3> QED
      BY <2>2, <3>1, <3>2 DEF DestroyRemove
  <2> QED
    BY <1>1, <1>2, <1>3, <2>0, <2>1, <2>2 DEF EnvStep
<1>4. ASSUME NEW t \in Threads, CheckOffline(t) PROVE DeletionOrder'
  BY <1>4, <1>a, GotoAlone DEF CheckOffline, DeleteLabels, lockVars, envVars, serverVars
<1>5. ASSUME NEW t \in Threads, CancelContext(t) PROVE DeletionOrder'
  BY <1>5, GotoAlone
  DEF CancelContext, DeletionOrder, Removed, Alone, lockVars, envVars, serverVars
<1>6. ASSUME NEW t \in Threads, CloseLock(t) PROVE DeletionOrder'
  BY <1>6, GotoAlone DEF CloseLock, DeletionOrder, Removed, Alone, envVars, serverVars
<1>7. ASSUME NEW t \in Threads, EndDelete(t) PROVE DeletionOrder'
  BY <1>7, QuitAlone DEF EndDelete, DeletionOrder, Removed, Alone, lockVars
<1>8. ASSUME NEW t \in Threads, Elsewhere(t) PROVE DeletionOrder'
  BY <1>8, <1>a DEF Elsewhere, Marked, DeleteLabels
<1>9. CASE NoThread
  BY <1>9 DEF NoThread, DeletionOrder, Removed
<1> QED
  BY <1>3, <1>4, <1>5, <1>6, <1>7, <1>8, <1>9, ThreadFrame

LEMMA DeleteInit == Init => DeletionOrder
BY DEF Init, EnvInit, DeletionOrder, Removed

\* Once deleteServer has removed the environment and the server has left the
\* manager no process of it runs again, whatever start was under way.
THEOREM DeletionIsFinal == Spec => []DeletedNeverRuns
<1>1. PowerInv /\ DeletionOrder /\ [Next]_vars => DeletionOrder'
  BY DeleteStep
<1>2. DeletionOrder => DeletedNeverRuns
  BY DEF DeletionOrder, Removed, DeletedNeverRuns
<1> QED
  BY <1>1, <1>2, DeleteInit, PowerInvariant, PTL DEF Spec

-----------------------------------------------------------------------------
\* The detailed model implements PowerSync.

Workers == {t \in Threads : holds[t]}

\* A step that leaves the lock alone boots the process only for its holder.
LEMMA ProcessStep ==
  ASSUME PowerInv, [Next]_vars, cont' \in Running, cont \notin Running
  PROVE  \E t \in Threads : holds[t] /\ EnvStep(t)
<1> USE DEF PowerInv
<1>1. ASSUME NEW t \in Threads, EnvStep(t) PROVE holds[t]
  <2>1. UNCHANGED holds
    BY <1>1 DEF EnvStep, lockVars
  <2>2. ~StopStep(t)
    BY DEF StopStep, StopMark, CheckAttached, WriteStopCommand, NativeStop, WaitStopped, SignalInspect,
       DeadStopping, DeadOffline, LiveStopping, ContainerKill, TerminateOffline, Running
  <2>3. ~DestroyStopping(t) /\ ~DestroyRemove(t)
    BY DEF DestroyStopping, DestroyRemove, Running
  <2>4. pc[t] = "booting"
    BY <1>1, <2>1, <2>2, <2>3, StartMoves DEF EnvStep
  <2> QED
    BY <2>4 DEF LockedWork, Work, BootLabels
<1>2. \A t \in Threads : ~CheckOffline(t) /\ ~CancelContext(t) /\ ~CloseLock(t)
                         /\ ~EndDelete(t) /\ ~Elsewhere(t)
  BY DEF CheckOffline, CancelContext, CloseLock, EndDelete, Elsewhere, envVars
<1>3. ~NoThread
  BY DEF NoThread
<1> QED
  BY <1>1, <1>2, <1>3, ThreadFrame

LEMMA SyncStep ==
  ASSUME PowerInv, [Next]_vars
  PROVE  [Sync!Next]_(Sync!syncVars)
<1> USE DEF Sync!syncVars, PowerInv
<1>a. holds \in [Threads -> BOOLEAN] /\ closed \in BOOLEAN
  BY DEF TypeOK, LockerTypeOK
<1>1. ASSUME NEW t \in Threads, AcquireLock(t) PROVE Sync!Take(t)
  <2>1. Workers = {} /\ ~closed
    BY <1>1, <1>a DEF AcquireLock, Acquired, PowerActionsExclusive, IsLocked, Workers
  <2>2. Workers' = {t}
    BY <1>1, <1>a, <2>1 DEF AcquireLock, Workers
  <2>3. UNCHANGED <<closed, cont>>
    BY <1>1 DEF AcquireLock, Acquired, envVars
  <2> QED
    BY <2>1, <2>2, <2>3 DEF Sync!Take, Workers
<1>2. ASSUME NEW t \in Threads, Finish(t)
      PROVE  Sync!Drop(t) \/ UNCHANGED Sync!syncVars
  <2>1. UNCHANGED <<closed, cont>>
    BY <1>2 DEF Finish, Release, envVars, lockerVars
  <2>2. Workers' = Workers \ {t}
    BY <1>2, <1>a DEF Finish, Workers
  <2>3. CASE holds[t]
    <3>1. Workers = {t}
      BY <2>3 DEF PowerActionsExclusive, Workers
    <3> QED
      BY <2>1, <2>2, <3>1 DEF Sync!Drop, Workers
  <2>4. CASE ~holds[t]
    BY <2>1, <2>2, <2>4 DEF Workers
  <2> QED
    BY <2>3, <2>4
<1>3. ASSUME NEW t \in Threads, CloseLock(t)
      PROVE  Sync!Close \/ UNCHANGED Sync!syncVars
  <2>1. closed' /\ UNCHANGED <<holds, cont>>
    BY <1>3 DEF CloseLock, Destroy, envVars
  <2> QED
    BY <2>1, <1>a DEF Sync!Close
<1>4. ASSUME UNCHANGED <<ch, closed, holds>>
      PROVE  Sync!Boot \/ Sync!Down \/ UNCHANGED Sync!syncVars
  <2>1. CASE cont' \in Running /\ cont \notin Running
    <3>1. PICK t \in Threads : holds[t]
      BY <2>1, ProcessStep
    <3> QED
      BY <1>4, <2>1, <3>1 DEF Sync!Boot
  <2>2. CASE cont' \notin Running /\ cont \in Running
    BY <1>4, <2>2 DEF Sync!Down
  <2>3. CASE cont' \in Running <=> cont \in Running
    BY <1>4, <2>3
  <2> QED
    BY <2>1, <2>2, <2>3
<1> QED
  BY <1>1, <1>2, <1>3, <1>4, LockFrame DEF Sync!Next

LEMMA SyncInit == Init => Sync!Init
BY DEF Init, LockerInit, EnvInit, Running, Sync!Init

\* Every behaviour of the power model is one of the abstract specification: one
\* worker at a time, the process booted by that worker only, and no new worker
\* once the server is closed for deletion.
THEOREM Refinement == Spec => ImplementsPowerSync
<1>1. PowerInv /\ [Next]_vars => [Sync!Next]_(Sync!syncVars)
  BY SyncStep
<1> QED
  BY <1>1, SyncInit, PowerInvariant, PTL DEF Spec, ImplementsPowerSync, Sync!Spec
=============================================================================
