----------------------------- MODULE Boot_proofs ------------------------------
(***************************************************************************)
(* Proofs about Boot, for any servers, workers and number of crashes: the  *)
(* three promises of a boot once requests are served. They are about the   *)
(* end of the boot, while what they depend on happens at every stage of    *)
(* it, and in earlier lives of the daemon: the invariant says for each     *)
(* stage of a task what is known of a server that is to be brought back,   *)
(* and of one whose container runs.                                        *)
(***************************************************************************)
EXTENDS Boot, TLAPS

\* Before the states are read nothing of the last daemon is left in memory.
Asleep ==
    /\ phase \in {"down", "load"} =>
         /\ todo = {} /\ at = NoServer /\ saver = NoSave
         /\ task = [s \in Servers |-> "none"] /\ st = [s \in Servers |-> "offline"]
         /\ attached = {} /\ enforcing = {} /\ blind = {}
    /\ phase = "down" => manager = {}
    /\ phase # "down" => suspended = panel /\ kept \subseteq manager

\* Where the loop of the boot and the tasks are.
LoopOK ==
    /\ phase = "serving" => todo = {} /\ at = NoServer /\ \A s \in manager : task[s] = "done"
    /\ \A s \in Servers :
         /\ s \in todo \/ at = s => task[s] = "none"
         /\ s \notin manager => task[s] = "none"
    /\ at \notin todo

\* A server that the next boot has to bring back, at each stage of this one.
KeptOK(s) ==
    s \in kept =>
        /\ file[s] \in On
        /\ phase = "boot" /\ task[s] \in {"none", "wait"} => states[s] \in On
        /\ task[s] # "settle"
        /\ task[s] = "attach" => s \in cont
        /\ task[s] \in {"sync", "done"} => st[s] \in On /\ s \in cont

\* A server whose container runs, at each stage of its task.
TrackedOK(s) ==
    s \in cont \ blind =>
        /\ task[s] \notin {"start", "settle"}
        /\ task[s] = "sync" => st[s] \in On
        /\ task[s] \in {"sync", "done"} => st[s] # "offline" /\ s \in attached
        /\ task[s] = "done" /\ s \in panel => s \in enforcing

\* Between truncation and write no server is sure to come back.
SaverOK == saver # NoSave /\ saver.pc = "truncated" => kept = {}

BootInv ==
    /\ TypeOK /\ Asleep /\ LoopOK /\ SaverOK
    /\ \A s \in Servers : KeptOK(s) /\ TrackedOK(s)
------------------------------------------------------------------------------
\* NewManager: the servers are loaded, with the panel's suspensions.
LEMMA NewManagerKeeps ==
    ASSUME BootInv, NewManager
    PROVE  BootInv'
<1> USE BootAssumption DEF BootInv, NewManager, InitServer, Fault,
                           bootVars, diskVars, envVars, worldVars, On, NoServer
<1>1. TypeOK'
  BY DEF TypeOK, States, NoSave, Empty, Absent, Asleep, LoopOK
<1>2. Asleep'
  BY DEF TypeOK, Asleep, NoSave
<1>3. LoopOK'
  BY DEF TypeOK, Asleep, LoopOK
<1>4. SaverOK'
  BY DEF TypeOK, Asleep, SaverOK, NoSave
<1>5. ASSUME NEW q \in Servers PROVE KeptOK(q)'
  BY DEF TypeOK, Asleep, LoopOK, SaverOK, KeptOK, TrackedOK
<1>6. ASSUME NEW q \in Servers PROVE TrackedOK(q)'
  BY DEF TypeOK, Asleep, LoopOK, KeptOK, TrackedOK
<1>7. QED  BY <1>1, <1>2, <1>3, <1>4, <1>5, <1>6

\* ReadStates: the saved state of a kept server is that of the file.
LEMMA ReadStatesKeeps ==
    ASSUME BootInv, ReadStates
    PROVE  BootInv'
<1> USE BootAssumption DEF BootInv, ReadStates,
                           bootVars, diskVars, envVars, worldVars, On, NoServer
<1>1. TypeOK'
  BY DEF TypeOK, States, NoSave, Empty, Absent, Asleep, LoopOK
<1>2. Asleep'
  BY DEF TypeOK, Asleep, NoSave
<1>3. LoopOK'
  BY DEF TypeOK, Asleep, LoopOK
<1>4. SaverOK'
  BY DEF TypeOK, Asleep, SaverOK, NoSave
<1>5. ASSUME NEW q \in Servers PROVE KeptOK(q)'
  BY DEF TypeOK, Asleep, LoopOK, SaverOK, KeptOK, TrackedOK
<1>6. ASSUME NEW q \in Servers PROVE TrackedOK(q)'
  BY DEF TypeOK, Asleep, LoopOK, KeptOK, TrackedOK
<1>7. QED  BY <1>1, <1>2, <1>3, <1>4, <1>5, <1>6

\* The loop goes on.
LEMMA NextServerKeeps ==
    ASSUME BootInv, NEW s \in Servers, NextServer(s)
    PROVE  BootInv'
<1> USE BootAssumption DEF BootInv, NextServer,
                           bootVars, diskVars, envVars, worldVars, On, NoServer
<1>1. TypeOK'
  BY DEF TypeOK, States, NoSave, Empty, Absent, Asleep, LoopOK
<1>2. Asleep'
  BY DEF TypeOK, Asleep, NoSave
<1>3. LoopOK'
  BY DEF TypeOK, Asleep, LoopOK
<1>4. SaverOK'
  BY DEF TypeOK, Asleep, SaverOK, NoSave
<1>5. ASSUME NEW q \in Servers PROVE KeptOK(q)'
  BY DEF TypeOK, Asleep, LoopOK, SaverOK, KeptOK, TrackedOK
<1>6. ASSUME NEW q \in Servers PROVE TrackedOK(q)'
  BY DEF TypeOK, Asleep, LoopOK, KeptOK, TrackedOK
<1>7. QED  BY <1>1, <1>2, <1>3, <1>4, <1>5, <1>6

\* The task is submitted, or the server is given up.
LEMMA CreateEnvironmentKeeps ==
    ASSUME BootInv, NEW s \in Servers, CreateEnvironment(s)
    PROVE  BootInv'
<1> USE BootAssumption DEF BootInv, CreateEnvironment, Fault,
                           bootVars, diskVars, envVars, worldVars, On, NoServer
<1>1. TypeOK'
  BY DEF TypeOK, States, NoSave, Empty, Absent, Asleep, LoopOK
<1>2. Asleep'
  BY DEF TypeOK, Asleep, NoSave
<1>3. LoopOK'
  BY DEF TypeOK, Asleep, LoopOK
<1>4. SaverOK'
  BY DEF TypeOK, Asleep, SaverOK, NoSave
<1>5. ASSUME NEW q \in Servers PROVE KeptOK(q)'
  BY DEF TypeOK, Asleep, LoopOK, SaverOK, KeptOK, TrackedOK
<1>6. ASSUME NEW q \in Servers PROVE TrackedOK(q)'
  BY DEF TypeOK, Asleep, LoopOK, KeptOK, TrackedOK
<1>7. QED  BY <1>1, <1>2, <1>3, <1>4, <1>5, <1>6

\* The pool is done: every loaded server has had its task.
LEMMA ServeKeeps ==
    ASSUME BootInv, Serve
    PROVE  BootInv'
<1> USE BootAssumption DEF BootInv, Serve,
                           bootVars, diskVars, envVars, worldVars, On, NoServer
<1>1. TypeOK'
  BY DEF TypeOK, States, NoSave, Empty, Absent, Asleep, LoopOK
<1>2. Asleep'
  BY DEF TypeOK, Asleep, NoSave
<1>3. LoopOK'
  BY DEF TypeOK, Asleep, LoopOK
<1>4. SaverOK'
  BY DEF TypeOK, Asleep, SaverOK, NoSave
<1>5. ASSUME NEW q \in Servers PROVE KeptOK(q)'
  BY DEF TypeOK, Asleep, LoopOK, SaverOK, KeptOK, TrackedOK
<1>6. ASSUME NEW q \in Servers PROVE TrackedOK(q)'
  BY DEF TypeOK, Asleep, LoopOK, KeptOK, TrackedOK
<1>7. QED  BY <1>1, <1>2, <1>3, <1>4, <1>5, <1>6

\* IsRunning: a kept server is started or, if its container runs, taken over.
LEMMA InspectKeeps ==
    ASSUME BootInv, NEW s \in Servers, Inspect(s)
    PROVE  BootInv'
<1> USE BootAssumption DEF BootInv, Inspect, Fault, DockerFails, Decide, Goto,
                           bootVars, diskVars, envVars, worldVars, On, NoServer
<1>1. TypeOK'
  BY DEF TypeOK, States, NoSave, Empty, Absent, Asleep, LoopOK
<1>2. Asleep'
  BY DEF TypeOK, Asleep, NoSave
<1>3. LoopOK'
  BY DEF TypeOK, Asleep, LoopOK
<1>4. SaverOK'
  BY DEF TypeOK, Asleep, SaverOK, NoSave
<1>5. ASSUME NEW q \in Servers PROVE KeptOK(q)'
  BY DEF TypeOK, Asleep, LoopOK, SaverOK, KeptOK, TrackedOK
<1>6. ASSUME NEW q \in Servers PROVE TrackedOK(q)'
  BY DEF TypeOK, Asleep, LoopOK, KeptOK, TrackedOK
<1>7. QED  BY <1>1, <1>2, <1>3, <1>4, <1>5, <1>6

\* The start of a task leaves the server on and attached, or is an error or a refusal.
LEMMA TaskStartKeeps ==
    ASSUME BootInv, NEW s \in Servers, TaskStart(s)
    PROVE  BootInv'
<1> USE BootAssumption DEF BootInv, TaskStart, StartFails, Goto, Sync, Fault, SetState,
                           bootVars, diskVars, envVars, worldVars, On, NoServer
<1>1. TypeOK'
  BY DEF TypeOK, States, NoSave, Empty, Absent, Asleep, LoopOK
<1>2. Asleep'
  <2>1. phase = "boot" /\ phase' = "boot" /\ panel' = panel /\ manager' = manager
    OBVIOUS
  <2>2. suspended = panel /\ kept \subseteq manager
    BY <2>1 DEF Asleep
  <2>3. suspended' = panel
    BY <2>2
  <2>4. kept' \subseteq manager
    BY <2>2
  <2>5. QED  BY <2>1, <2>3, <2>4 DEF Asleep
<1>3. LoopOK'
  BY DEF TypeOK, Asleep, LoopOK
<1>4. SaverOK'
  BY DEF TypeOK, Asleep, SaverOK, NoSave
<1>5. ASSUME NEW q \in Servers PROVE KeptOK(q)'
  BY DEF TypeOK, Asleep, LoopOK, SaverOK, KeptOK, TrackedOK
<1>6. ASSUME NEW q \in Servers PROVE TrackedOK(q)'
  BY DEF TypeOK, Asleep, LoopOK, KeptOK, TrackedOK
<1>7. QED  BY <1>1, <1>2, <1>3, <1>4, <1>5, <1>6

\* A container that runs is attached, or the task is blind.
LEMMA TaskAttachKeeps ==
    ASSUME BootInv, NEW s \in Servers, TaskAttach(s)
    PROVE  BootInv'
<1> USE BootAssumption DEF BootInv, TaskAttach, DockerFails, Goto, SetState, Fault,
                           bootVars, diskVars, envVars, worldVars, On, NoServer
<1>1. TypeOK'
  BY DEF TypeOK, States, NoSave, Empty, Absent, Asleep, LoopOK
<1>2. Asleep'
  BY DEF TypeOK, Asleep, NoSave
<1>3. LoopOK'
  BY DEF TypeOK, Asleep, LoopOK
<1>4. SaverOK'
  BY DEF TypeOK, Asleep, SaverOK, NoSave
<1>5. ASSUME NEW q \in Servers PROVE KeptOK(q)'
  BY DEF TypeOK, Asleep, LoopOK, SaverOK, KeptOK, TrackedOK
<1>6. ASSUME NEW q \in Servers PROVE TrackedOK(q)'
  BY DEF TypeOK, Asleep, LoopOK, KeptOK, TrackedOK
<1>7. QED  BY <1>1, <1>2, <1>3, <1>4, <1>5, <1>6

\* Only a server that does not run is settled.
LEMMA TaskSettleKeeps ==
    ASSUME BootInv, NEW s \in Servers, TaskSettle(s)
    PROVE  BootInv'
<1> USE BootAssumption DEF BootInv, TaskSettle, Goto, SetState,
                           bootVars, diskVars, envVars, worldVars, On, NoServer
<1>1. TypeOK'
  BY DEF TypeOK, States, NoSave, Empty, Absent, Asleep, LoopOK
<1>2. Asleep'
  BY DEF TypeOK, Asleep, NoSave
<1>3. LoopOK'
  BY DEF TypeOK, Asleep, LoopOK
<1>4. SaverOK'
  BY DEF TypeOK, Asleep, SaverOK, NoSave
<1>5. ASSUME NEW q \in Servers PROVE KeptOK(q)'
  BY DEF TypeOK, Asleep, LoopOK, SaverOK, KeptOK, TrackedOK
<1>6. ASSUME NEW q \in Servers PROVE TrackedOK(q)'
  BY DEF TypeOK, Asleep, LoopOK, KeptOK, TrackedOK
<1>7. QED  BY <1>1, <1>2, <1>3, <1>4, <1>5, <1>6

\* The end of a task: a suspended server that runs is being stopped.
LEMMA TaskSyncKeeps ==
    ASSUME BootInv, NEW s \in Servers, TaskSync(s)
    PROVE  BootInv'
<1> USE BootAssumption DEF BootInv, TaskSync, Goto, Sync, Fault,
                           bootVars, diskVars, envVars, worldVars, On, NoServer
<1>1. TypeOK'
  BY DEF TypeOK, States, NoSave, Empty, Absent, Asleep, LoopOK
<1>2. Asleep'
  <2>1. phase = "boot" /\ phase' = "boot" /\ panel' = panel /\ manager' = manager
    OBVIOUS
  <2>2. suspended = panel /\ kept \subseteq manager
    BY <2>1 DEF Asleep
  <2>3. suspended' = panel
    BY <2>2
  <2>4. kept' \subseteq manager
    BY <2>2
  <2>5. QED  BY <2>1, <2>3, <2>4 DEF Asleep
<1>3. LoopOK'
  BY DEF TypeOK, Asleep, LoopOK
<1>4. SaverOK'
  BY DEF TypeOK, Asleep, SaverOK, NoSave
<1>5. ASSUME NEW q \in Servers PROVE KeptOK(q)'
  BY DEF TypeOK, Asleep, LoopOK, SaverOK, KeptOK, TrackedOK
<1>6. ASSUME NEW q \in Servers PROVE TrackedOK(q)'
  BY DEF TypeOK, Asleep, LoopOK, KeptOK, TrackedOK
<1>7. QED  BY <1>1, <1>2, <1>3, <1>4, <1>5, <1>6

\* WaitForStop of a suspended server.
LEMMA EnforceKeeps ==
    ASSUME BootInv, NEW s \in Servers, Enforce(s)
    PROVE  BootInv'
<1> USE BootAssumption DEF BootInv, Enforce, Fault, DockerFails, SetState,
                           bootVars, diskVars, envVars, worldVars, On, NoServer
<1>1. TypeOK'
  BY DEF TypeOK, States, NoSave, Empty, Absent, Asleep, LoopOK
<1>2. Asleep'
  BY DEF TypeOK, Asleep, NoSave
<1>3. LoopOK'
  BY DEF TypeOK, Asleep, LoopOK
<1>4. SaverOK'
  BY DEF TypeOK, Asleep, SaverOK, NoSave
<1>5. ASSUME NEW q \in Servers PROVE KeptOK(q)'
  BY DEF TypeOK, Asleep, LoopOK, SaverOK, KeptOK, TrackedOK
<1>6. ASSUME NEW q \in Servers PROVE TrackedOK(q)'
  BY DEF TypeOK, Asleep, LoopOK, KeptOK, TrackedOK
<1>7. QED  BY <1>1, <1>2, <1>3, <1>4, <1>5, <1>6

\* PersistStates collects.
LEMMA CollectKeeps ==
    ASSUME BootInv, Collect
    PROVE  BootInv'
<1> USE BootAssumption DEF BootInv, Collect,
                           bootVars, diskVars, envVars, worldVars, On, NoServer
<1>1. TypeOK'
  BY DEF TypeOK, States, NoSave, Empty, Absent, Asleep, LoopOK
<1>2. Asleep'
  BY DEF TypeOK, Asleep, NoSave
<1>3. LoopOK'
  BY DEF TypeOK, Asleep, LoopOK
<1>4. SaverOK'
  BY DEF TypeOK, Asleep, SaverOK, NoSave
<1>5. ASSUME NEW q \in Servers PROVE KeptOK(q)'
  BY DEF TypeOK, Asleep, LoopOK, SaverOK, KeptOK, TrackedOK
<1>6. ASSUME NEW q \in Servers PROVE TrackedOK(q)'
  BY DEF TypeOK, Asleep, LoopOK, KeptOK, TrackedOK
<1>7. QED  BY <1>1, <1>2, <1>3, <1>4, <1>5, <1>6

\* It truncates the file: nothing is kept.
LEMMA TruncateKeeps ==
    ASSUME BootInv, Truncate
    PROVE  BootInv'
<1> USE BootAssumption DEF BootInv, Truncate,
                           bootVars, diskVars, envVars, worldVars, On, NoServer
<1>1. TypeOK'
  BY DEF TypeOK, States, NoSave, Empty, Absent, Asleep, LoopOK
<1>2. Asleep'
  BY DEF TypeOK, Asleep, NoSave
<1>3. LoopOK'
  BY DEF TypeOK, Asleep, LoopOK
<1>4. SaverOK'
  BY DEF TypeOK, Asleep, SaverOK, NoSave
<1>5. ASSUME NEW q \in Servers PROVE KeptOK(q)'
  BY DEF TypeOK, Asleep, LoopOK, SaverOK, KeptOK, TrackedOK
<1>6. ASSUME NEW q \in Servers PROVE TrackedOK(q)'
  BY DEF TypeOK, Asleep, LoopOK, KeptOK, TrackedOK
<1>7. QED  BY <1>1, <1>2, <1>3, <1>4, <1>5, <1>6

\* It writes the file: what it keeps is on and has had its task.
LEMMA WriteKeeps ==
    ASSUME BootInv, Write
    PROVE  BootInv'
<1> USE BootAssumption DEF BootInv, Write,
                           bootVars, diskVars, envVars, worldVars, On, NoServer
<1>1. TypeOK'
  BY DEF TypeOK, States, NoSave, Empty, Absent, Asleep, LoopOK
<1>2. Asleep'
  BY DEF TypeOK, Asleep, NoSave
<1>3. LoopOK'
  BY DEF TypeOK, Asleep, LoopOK
<1>4. SaverOK'
  BY DEF TypeOK, Asleep, SaverOK, NoSave
<1>5. ASSUME NEW q \in Servers PROVE KeptOK(q)'
  BY DEF TypeOK, Asleep, LoopOK, SaverOK, KeptOK, TrackedOK
<1>6. ASSUME NEW q \in Servers PROVE TrackedOK(q)'
  BY DEF TypeOK, Asleep, LoopOK, KeptOK, TrackedOK
<1>7. QED  BY <1>1, <1>2, <1>3, <1>4, <1>5, <1>6

\* A user starts a server that is not suspended, on the panel either.
LEMMA PowerOnKeeps ==
    ASSUME BootInv, NEW s \in Servers, PowerOn(s)
    PROVE  BootInv'
<1> USE BootAssumption DEF BootInv, PowerOn, StartFails, Fault, SetState,
                           bootVars, diskVars, envVars, worldVars, On, NoServer
<1>1. TypeOK'
  BY DEF TypeOK, States, NoSave, Empty, Absent, Asleep, LoopOK
<1>2. Asleep'
  BY DEF TypeOK, Asleep, NoSave
<1>3. LoopOK'
  BY DEF TypeOK, Asleep, LoopOK
<1>4. SaverOK'
  BY DEF TypeOK, Asleep, SaverOK, NoSave
<1>5. ASSUME NEW q \in Servers PROVE KeptOK(q)'
  BY DEF TypeOK, Asleep, LoopOK, SaverOK, KeptOK, TrackedOK
<1>6. ASSUME NEW q \in Servers PROVE TrackedOK(q)'
  BY DEF TypeOK, Asleep, LoopOK, KeptOK, TrackedOK
<1>7. QED  BY <1>1, <1>2, <1>3, <1>4, <1>5, <1>6

\* A user stops a server.
LEMMA PowerOffKeeps ==
    ASSUME BootInv, NEW s \in Servers, PowerOff(s)
    PROVE  BootInv'
<1> USE BootAssumption DEF BootInv, PowerOff, SetState,
                           bootVars, diskVars, envVars, worldVars, On, NoServer
<1>1. TypeOK'
  BY DEF TypeOK, States, NoSave, Empty, Absent, Asleep, LoopOK
<1>2. Asleep'
  BY DEF TypeOK, Asleep, NoSave
<1>3. LoopOK'
  BY DEF TypeOK, Asleep, LoopOK
<1>4. SaverOK'
  BY DEF TypeOK, Asleep, SaverOK, NoSave
<1>5. ASSUME NEW q \in Servers PROVE KeptOK(q)'
  BY DEF TypeOK, Asleep, LoopOK, SaverOK, KeptOK, TrackedOK
<1>6. ASSUME NEW q \in Servers PROVE TrackedOK(q)'
  BY DEF TypeOK, Asleep, LoopOK, KeptOK, TrackedOK
<1>7. QED  BY <1>1, <1>2, <1>3, <1>4, <1>5, <1>6

\* A process ends.
LEMMA ExitsKeeps ==
    ASSUME BootInv, NEW s \in Servers, Exits(s)
    PROVE  BootInv'
<1> USE BootAssumption DEF BootInv, Exits, SetState,
                           bootVars, diskVars, envVars, worldVars, On, NoServer
<1>1. TypeOK'
  BY DEF TypeOK, States, NoSave, Empty, Absent, Asleep, LoopOK
<1>2. Asleep'
  BY DEF TypeOK, Asleep, NoSave
<1>3. LoopOK'
  BY DEF TypeOK, Asleep, LoopOK
<1>4. SaverOK'
  BY DEF TypeOK, Asleep, SaverOK, NoSave
<1>5. ASSUME NEW q \in Servers PROVE KeptOK(q)'
  BY DEF TypeOK, Asleep, LoopOK, SaverOK, KeptOK, TrackedOK
<1>6. ASSUME NEW q \in Servers PROVE TrackedOK(q)'
  BY DEF TypeOK, Asleep, LoopOK, KeptOK, TrackedOK
<1>7. QED  BY <1>1, <1>2, <1>3, <1>4, <1>5, <1>6

\* The panel suspends a server, with no daemon there.
LEMMA PanelSuspendsKeeps ==
    ASSUME BootInv, NEW s \in Servers, PanelSuspends(s)
    PROVE  BootInv'
<1> USE BootAssumption DEF BootInv, PanelSuspends,
                           bootVars, diskVars, envVars, worldVars, On, NoServer
<1>1. TypeOK'
  BY DEF TypeOK, States, NoSave, Empty, Absent, Asleep, LoopOK
<1>2. Asleep'
  BY DEF TypeOK, Asleep, NoSave
<1>3. LoopOK'
  BY DEF TypeOK, Asleep, LoopOK
<1>4. SaverOK'
  BY DEF TypeOK, Asleep, SaverOK, NoSave
<1>5. ASSUME NEW q \in Servers PROVE KeptOK(q)'
  BY DEF TypeOK, Asleep, LoopOK, SaverOK, KeptOK, TrackedOK
<1>6. ASSUME NEW q \in Servers PROVE TrackedOK(q)'
  BY DEF TypeOK, Asleep, LoopOK, KeptOK, TrackedOK
<1>7. QED  BY <1>1, <1>2, <1>3, <1>4, <1>5, <1>6

\* Docker no longer answers for a container.
LEMMA DockerHangsKeeps ==
    ASSUME BootInv, NEW s \in Servers, DockerHangs(s)
    PROVE  BootInv'
<1> USE BootAssumption DEF BootInv, DockerHangs, Fault,
                           bootVars, diskVars, envVars, worldVars, On, NoServer
<1>1. TypeOK'
  BY DEF TypeOK, States, NoSave, Empty, Absent, Asleep, LoopOK
<1>2. Asleep'
  BY DEF TypeOK, Asleep, NoSave
<1>3. LoopOK'
  BY DEF TypeOK, Asleep, LoopOK
<1>4. SaverOK'
  BY DEF TypeOK, Asleep, SaverOK, NoSave
<1>5. ASSUME NEW q \in Servers PROVE KeptOK(q)'
  BY DEF TypeOK, Asleep, LoopOK, SaverOK, KeptOK, TrackedOK
<1>6. ASSUME NEW q \in Servers PROVE TrackedOK(q)'
  BY DEF TypeOK, Asleep, LoopOK, KeptOK, TrackedOK
<1>7. QED  BY <1>1, <1>2, <1>3, <1>4, <1>5, <1>6

\* A crash leaves the file, the panel and maybe the containers.
LEMMA CrashKeeps ==
    ASSUME BootInv, Crash
    PROVE  BootInv'
<1> USE BootAssumption DEF BootInv, Crash, Fault,
                           bootVars, diskVars, envVars, worldVars, On, NoServer
<1>1. TypeOK'
  BY DEF TypeOK, States, NoSave, Empty, Absent, Asleep, LoopOK
<1>2. Asleep'
  BY DEF TypeOK, Asleep, NoSave
<1>3. LoopOK'
  BY DEF TypeOK, Asleep, LoopOK
<1>4. SaverOK'
  BY DEF TypeOK, Asleep, SaverOK, NoSave
<1>5. ASSUME NEW q \in Servers PROVE KeptOK(q)'
  BY DEF TypeOK, Asleep, LoopOK, SaverOK, KeptOK, TrackedOK
<1>6. ASSUME NEW q \in Servers PROVE TrackedOK(q)'
  BY DEF TypeOK, Asleep, LoopOK, KeptOK, TrackedOK
<1>7. QED  BY <1>1, <1>2, <1>3, <1>4, <1>5, <1>6

LEMMA InitInv == Init => BootInv
<1> SUFFICES ASSUME Init PROVE BootInv
  OBVIOUS
<1> USE BootAssumption DEF Init, NoServer, Empty, NoSave
<1>1. TypeOK
  BY DEF TypeOK, States, On, Absent
<1>2. Asleep /\ LoopOK /\ SaverOK
  BY DEF Asleep, LoopOK, SaverOK
<1>3. \A s \in Servers : KeptOK(s) /\ TrackedOK(s)
  BY DEF KeptOK, TrackedOK
<1>4. QED  BY <1>1, <1>2, <1>3 DEF BootInv

LEMMA StutterKeeps == BootInv /\ UNCHANGED vars => BootInv'
  BY DEF BootInv, vars, bootVars, diskVars, envVars, worldVars, TypeOK, Asleep, LoopOK, SaverOK, KeptOK,
         TrackedOK

LEMMA Inductive == BootInv /\ [Next]_vars => BootInv'
<1> SUFFICES ASSUME BootInv, [Next]_vars PROVE BootInv'
  OBVIOUS
<1>1. CASE Main
  BY <1>1, NewManagerKeeps, ReadStatesKeeps, ServeKeeps, NextServerKeeps DEF Main
<1>2. CASE Persist
  BY <1>2, CollectKeeps, TruncateKeeps, WriteKeeps DEF Persist
<1>3. CASE Crash
  BY <1>3, CrashKeeps
<1>4. ASSUME NEW s \in Servers, Task(s) PROVE BootInv'
  BY <1>4, CreateEnvironmentKeeps, InspectKeeps, TaskStartKeeps, TaskAttachKeeps,
     TaskSettleKeeps, TaskSyncKeeps DEF Task
<1>5. ASSUME NEW s \in Servers,
             Enforce(s) \/ PowerOn(s) \/ PowerOff(s) \/ Exits(s)
               \/ PanelSuspends(s) \/ DockerHangs(s)
      PROVE  BootInv'
  BY <1>5, EnforceKeeps, PowerOnKeeps, PowerOffKeeps, ExitsKeeps, PanelSuspendsKeeps,
     DockerHangsKeeps
<1>6. CASE UNCHANGED vars
  BY <1>6, StutterKeeps
<1>7. QED  BY <1>1, <1>2, <1>3, <1>4, <1>5, <1>6 DEF Next
------------------------------------------------------------------------------
\* The invariant holds in every state of every behaviour.
THEOREM Invariance == Spec => []BootInv
  BY InitInv, Inductive, PTL DEF Spec

\* The variables keep their types: the loop and the tasks of the boot (cmd/root.go)
\* only ever work on servers that are loaded.
THEOREM TypeCorrect == Spec => []TypeOK
<1>1. BootInv => TypeOK
  BY DEF BootInv
<1>2. QED  BY <1>1, Invariance, PTL

\* Every boot (cmd/root.go, manager.go ReadStates) brings back what was on: once
\* requests are served, a server that was saved as on, that nobody has stopped
\* since and whose task met no error is on, however many crashes of the daemon
\* or of the machine there were, and wherever they hit.
THEOREM BootPicksUp == Spec => []PickedUp
<1>1. BootInv => PickedUp
  <2> SUFFICES ASSUME BootInv, phase = "serving", NEW s \in kept \cap manager
               PROVE  st[s] \in On /\ s \in cont
    BY DEF PickedUp
  <2>1. s \in Servers /\ task[s] = "done"
    BY DEF BootInv, TypeOK, LoopOK
  <2>2. QED  BY <2>1 DEF BootInv, KeptOK
<1>2. QED  BY <1>1, Invariance, PTL

\* No container runs without the daemon's knowledge once requests are served,
\* whatever states.json said: its state is not offline and its output is read,
\* unless an error was only logged for it, by its task (cmd/root.go), by a start
\* (docker/power.go Start) or by the stop after a suspension (update.go).
THEOREM BootTracks == Spec => []RunningIsTracked
<1>1. BootInv => RunningIsTracked
  <2> SUFFICES ASSUME BootInv, phase = "serving", NEW s \in (cont \cap manager) \ blind
               PROVE  st[s] # "offline" /\ s \in attached
    BY DEF RunningIsTracked
  <2>1. s \in Servers /\ task[s] = "done"
    BY DEF BootInv, TypeOK, LoopOK
  <2>2. QED  BY <2>1 DEF BootInv, TrackedOK
<1>2. QED  BY <1>1, Invariance, PTL

\* A server that the panel suspended while the daemon was away does not go on
\* running once requests are served: it is off or being stopped (the sync at the
\* end of the task in cmd/root.go), unless its task or that stop met an error.
THEOREM BootSuspends == Spec => []SuspensionEnforced
<1>1. BootInv => SuspensionEnforced
  <2> SUFFICES ASSUME BootInv, phase = "serving", NEW s \in (panel \cap manager) \ blind,
                      s \in cont
               PROVE  s \in enforcing
    BY DEF SuspensionEnforced
  <2>1. s \in Servers /\ task[s] = "done"
    BY DEF BootInv, TypeOK, LoopOK
  <2>2. QED  BY <2>1 DEF BootInv, TrackedOK
<1>2. QED  BY <1>1, Invariance, PTL
==============================================================================
