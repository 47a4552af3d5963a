-------------------------- MODULE Lifecycle_proofs ---------------------------
(***************************************************************************)
(* Type correctness of module Lifecycle, that the flags guard the work of  *)
(* an installation and of a restoration, that a reported installation has  *)
(* run, and that a restoration writes while nothing runs, for every number *)
(* of requests and of failures.                                            *)
(***************************************************************************)
EXTENDS Lifecycle, TLAPS

\* The steps of an installation outside Run.
Outside == {"stop", "sync", "script", "swap", "report", "offline"}
Places == {"idle", "done"} \cup Outside \cup InRun \cup InRestore

\* The type invariant in two parts: the flags, and everything else.
Flags ==
    /\ installing \in BOOLEAN /\ restoring \in BOOLEAN /\ suspended \in BOOLEAN
    /\ panel \in BOOLEAN /\ deleted \in BOOLEAN /\ proc \in BOOLEAN /\ enforcing \in BOOLEAN

Containers == {NoContainer} \cup [owner : Jobs, st : {"created", "running", "exited"}]

Rest ==
    /\ state \in {"offline", "on"}
    /\ starter \in {"idle", "locked", "sync", "gate", "boot"}
    /\ installer \in Containers
    /\ script \in Jobs \cup {NoJob}
    /\ completed \subseteq Jobs /\ exposed \subseteq Jobs /\ raced \subseteq Jobs
    /\ faults \in 0 .. MaxFaults

JobTypes ==
    /\ kind \in [Jobs -> Kinds \cup {NoJob}] /\ pc \in [Jobs -> Places]
    /\ good \in [Jobs -> BOOLEAN]
    /\ told \in [Jobs -> {"nothing", "success", "failure"}]

\* The container and the script belong to the job that waits for them; a job
\* without an error is past its script only if this has run.
JobOK(j) ==
    /\ pc[j] \in Outside \cup InRun => IsInstall(j)
    /\ pc[j] \in InRestore => kind[j] = "restore"
    /\ pc[j] = "idle" => told[j] = "nothing"
    /\ pc[j] = "create" => script = j
    /\ pc[j] = "start" => script = j /\ installer = [owner |-> j, st |-> "created"]
    /\ pc[j] = "wait" =>
          \/ script = j /\ installer = [owner |-> j, st |-> "running"]
          \/ j \in completed /\ installer = [owner |-> j, st |-> "exited"]
    /\ pc[j] \in {"after", "release", "report"} /\ good[j] => j \in completed
    /\ IsInstall(j) /\ told[j] = "success" => j \in completed

\* The two parts of Guarded for one job.
Sole(j) == Running(j) => installing /\ \A k \in Jobs \ {j} : ~Running(k)
Flagged(j) == Restoring(j) => restoring \/ j \in exposed

LifeInv ==
    /\ Flags /\ Rest /\ JobTypes
    /\ \A j \in Jobs : JobOK(j) /\ Sole(j) /\ Flagged(j)

LEMMA InvImplies == LifeInv => TypeOK /\ Guarded /\ InstallHonest
PROOF
<1> SUFFICES ASSUME LifeInv PROVE TypeOK /\ Guarded /\ InstallHonest
  OBVIOUS
<1>1. {installing, restoring, suspended, panel, deleted, proc, enforcing} \subseteq BOOLEAN
  BY DEF LifeInv, Flags
<1>2. TypeOK
  BY <1>1 DEF LifeInv, TypeOK, Rest, JobTypes, Containers, Places, Outside
<1>3. Guarded
  BY DEF LifeInv, Guarded, Sole, Flagged
<1>4. InstallHonest
  BY DEF LifeInv, InstallHonest, JobOK
<1>5. QED
  BY <1>2, <1>3, <1>4

LEMMA InitInv == Init => LifeInv
PROOF
<1> SUFFICES ASSUME Init PROVE LifeInv
  OBVIOUS
<1>1. Flags
  BY DEF Init, Flags
<1>2. Rest
  BY LifecycleAssumption DEF Init, Rest, Containers
<1>3. JobTypes
  BY DEF Init, JobTypes, Places
<1>4. ASSUME NEW j \in Jobs PROVE JobOK(j) /\ Sole(j) /\ Flagged(j)
  BY DEF Init, JobOK, Sole, Flagged, Running, Restoring, IsInstall, NoJob, Outside, InRun,
         InRestore
<1>5. QED
  BY <1>1, <1>2, <1>3, <1>4 DEF LifeInv
------------------------------------------------------------------------------
\* What the steps of jobs have in common.

\* The other jobs do not notice.
Apart(j) ==
    \A k \in Jobs : k # j =>
        pc'[k] = pc[k] /\ kind'[k] = kind[k] /\ good'[k] = good[k] /\ told'[k] = told[k]

\* The installing flag changes hands only like this.
InstallRule(j) ==
    \/ installing' = installing /\ (Running(j)' => Running(j))
    \/ ~installing /\ installing'
    \/ Running(j) /\ ~Running(j)'

\* And the restoring flag like this.
RestoreRule(j) ==
    \/ restoring' = restoring /\ exposed' = exposed /\ (Restoring(j)' => Restoring(j))
    \/ restoring' /\ exposed' = exposed
    \/ ClearRestoring(j) /\ ~Restoring(j)'

\* Only the job in Run touches the container and the script.
ContainerRule(j) == (installer' = installer /\ script' = script) \/ Running(j)

LEMMA Others ==
    ASSUME LifeInv, NEW j \in Jobs, NEW k \in Jobs, k # j, Apart(j), completed \subseteq completed',
           ContainerRule(j)
    PROVE  JobOK(k)'
PROOF
<1>1. JobOK(k) /\ pc'[k] = pc[k] /\ kind'[k] = kind[k] /\ good'[k] = good[k] /\ told'[k] = told[k]
  BY DEF LifeInv, Apart
<1>2. IsInstall(k)' <=> IsInstall(k)
  BY <1>1 DEF IsInstall
<1>3. pc[k] \in {"create", "start", "wait"} => installer' = installer /\ script' = script
  <2>1. ASSUME pc[k] \in {"create", "start", "wait"} PROVE Running(k)
    BY <1>1, <2>1 DEF JobOK, Running, InRun
  <2>2. Running(k) => ~Running(j)
    BY DEF LifeInv, Sole
  <2>3. QED
    BY <2>1, <2>2 DEF ContainerRule
<1>4. QED
  BY <1>1, <1>2, <1>3 DEF JobOK

LEMMA GuardStep ==
    ASSUME LifeInv, NEW j \in Jobs, NEW k \in Jobs, Apart(j), InstallRule(j), RestoreRule(j)
    PROVE  Sole(k)' /\ Flagged(k)'
PROOF
<1>1. \A i \in Jobs : i # j => (Running(i)' <=> Running(i)) /\ (Restoring(i)' <=> Restoring(i))
  BY DEF Apart, Running, Restoring, IsInstall
<1>2. \A i \in Jobs : Sole(i) /\ Flagged(i)
  BY DEF LifeInv
<1>3. Sole(k)'
  <2>1. CASE installing' = installing /\ (Running(j)' => Running(j))
    BY <1>1, <1>2, <2>1 DEF Sole
  <2>2. CASE ~installing /\ installing'
    BY <1>1, <1>2, <2>2 DEF Sole
  <2>3. CASE Running(j) /\ ~Running(j)'
    BY <1>1, <1>2, <2>3 DEF Sole
  <2>4. QED
    BY <2>1, <2>2, <2>3 DEF InstallRule
<1>4. Flagged(k)'
  <2>1. CASE restoring' = restoring /\ exposed' = exposed /\ (Restoring(j)' => Restoring(j))
    BY <1>1, <1>2, <2>1 DEF Flagged
  <2>2. CASE restoring'
    BY <2>2 DEF Flagged
  <2>3. CASE ClearRestoring(j) /\ ~Restoring(j)'
    <3>1. CASE k = j
      BY <2>3, <3>1 DEF Flagged
    <3>2. CASE k # j
      <4>1. Restoring(k)' => k \in exposed'
        BY <1>1, <2>3, <3>2 DEF ClearRestoring, Restoring
      <4>2. QED
        BY <4>1 DEF Flagged
    <3>3. QED
      BY <3>1, <3>2
  <2>4. QED
    BY <2>1, <2>2, <2>3 DEF RestoreRule
<1>5. QED
  BY <1>3, <1>4

\* What a step of job j has to show.
LEMMA JobStep ==
    ASSUME LifeInv, NEW j \in Jobs, Flags', Rest', JobTypes', Apart(j),
           completed \subseteq completed', InstallRule(j), RestoreRule(j), ContainerRule(j), JobOK(j)'
    PROVE  LifeInv'
PROOF
<1>1. ASSUME NEW k \in Jobs PROVE JobOK(k)'
  BY Others
<1>2. QED
  BY <1>1, GuardStep DEF LifeInv

\* A job goes on, and may have met an error.
LEMMA GoesEffect ==
    ASSUME LifeInv, NEW j \in Jobs, NEW to \in Places, Goes(j, to), UNCHANGED <<kind, told>>,
           good' = good \/ good' = [good EXCEPT ![j] = FALSE]
    PROVE  JobTypes' /\ Apart(j) /\ pc'[j] = to /\ (good'[j] => good[j])
PROOF
<1>1. pc \in [Jobs -> Places] /\ good \in [Jobs -> BOOLEAN]
  BY DEF LifeInv, JobTypes
<1>2. pc' \in [Jobs -> Places] /\ pc'[j] = to /\ \A k \in Jobs : k # j => pc'[k] = pc[k]
  BY <1>1 DEF Goes
<1>3. /\ good' \in [Jobs -> BOOLEAN] /\ (good'[j] => good[j])
      /\ \A k \in Jobs : k # j => good'[k] = good[k]
  BY <1>1
<1>4. QED
  BY <1>2, <1>3 DEF LifeInv, JobTypes, Apart

\* Faults are bounded.
LEMMA FaultType ==
    ASSUME LifeInv, Fault \/ UNCHANGED faults
    PROVE  faults' \in 0 .. MaxFaults
PROOF BY LifecycleAssumption DEF LifeInv, Rest, Fault

\* A step that may fail goes on, or to its error path.
LEMMA EitherEffect ==
    ASSUME LifeInv, NEW j \in Jobs, NEW n \in Places, NEW f \in Places, Either(j, n, f),
           UNCHANGED <<kind, told>>
    PROVE  /\ JobTypes' /\ Apart(j) /\ faults' \in 0 .. MaxFaults /\ (good'[j] => good[j])
           /\ pc'[j] = n \/ (pc'[j] = f /\ ~good'[j])
PROOF
<1>1. CASE Goes(j, n) /\ UNCHANGED <<good, faults>>
  BY <1>1, GoesEffect, FaultType
<1>2. CASE Fails(j, f) /\ (Fault \/ UNCHANGED faults)
  <2>1. Goes(j, f) /\ good' = [good EXCEPT ![j] = FALSE]
    BY <1>2 DEF Fails
  <2>2. ~good'[j]
    BY <2>1 DEF LifeInv, JobTypes
  <2>3. QED
    BY <1>2, <2>1, <2>2, GoesEffect, FaultType
<1>3. QED
  BY <1>1, <1>2 DEF Either

\* The same for a step that need not use the server's context.
LEMMA AttemptsEffect ==
    ASSUME LifeInv, NEW j \in Jobs, NEW n \in Places, NEW f \in Places, Attempts(j, n, f),
           UNCHANGED <<kind, told>>
    PROVE  /\ JobTypes' /\ Apart(j) /\ faults' \in 0 .. MaxFaults /\ (good'[j] => good[j])
           /\ pc'[j] = n \/ (pc'[j] = f /\ ~good'[j])
PROOF
<1>1. CASE Goes(j, n) /\ UNCHANGED <<good, faults>>
  BY <1>1, GoesEffect, FaultType
<1>2. CASE Fails(j, f) /\ (Fault \/ UNCHANGED faults)
  <2>1. Goes(j, f) /\ good' = [good EXCEPT ![j] = FALSE]
    BY <1>2 DEF Fails
  <2>2. ~good'[j]
    BY <2>1 DEF LifeInv, JobTypes
  <2>3. QED
    BY <1>2, <2>1, <2>2, GoesEffect, FaultType
<1>3. QED
  BY <1>1, <1>2 DEF Attempts

LEMMA PlacesKnown ==
    /\ {"idle", "done", "stop", "sync", "script", "swap", "report", "offline", "before", "create",
        "start", "wait", "after", "release", "truncate", "locate", "suspend", "quiesce", "write",
        "answer", "unsuspend", "clear"} \subseteq Places
    /\ Outside \subseteq Places /\ InRun \subseteq Places /\ InRestore \subseteq Places
PROOF BY DEF Places, Outside, InRun, InRestore
------------------------------------------------------------------------------
\* Installations.

LEMMA AcceptStep ==
    ASSUME LifeInv, NEW j \in Jobs, NEW k \in Kinds, Accept(j, k)
    PROVE  LifeInv'
PROOF
<1> DEFINE to == CASE k = "install" -> "sync" [] k = "reinstall" -> "stop" [] OTHER -> "truncate"
<1>1. /\ pc[j] = "idle" /\ kind' = [kind EXCEPT ![j] = k] /\ Goes(j, to)
      /\ restoring' = (restoring \/ k = "restore")
      /\ UNCHANGED <<installing, suspended, panel, deleted, proc, state, enforcing, starter, good,
                     told, installer, script, completed, exposed, faults>>
      /\ raced' = raced \/ raced' = raced \cup {j}
  BY DEF Accept, server, install
<1>2. /\ to \in Places /\ to \notin InRun /\ (to \in InRestore <=> k = "restore")
      /\ to \notin {"idle", "create", "start", "wait", "after", "release", "report"}
  BY PlacesKnown DEF Kinds, InRun, InRestore
<1> HIDE DEF to
<1>3. /\ pc' \in [Jobs -> Places] /\ pc'[j] = to /\ \A i \in Jobs : i # j => pc'[i] = pc[i]
      /\ kind' \in [Jobs -> Kinds \cup {NoJob}] /\ kind'[j] = k
      /\ \A i \in Jobs : i # j => kind'[i] = kind[i]
  BY <1>1, <1>2 DEF LifeInv, JobTypes, Goes
<1>4. restoring' \in BOOLEAN
  BY <1>1
<1>5. Flags' /\ Rest' /\ JobTypes' /\ Apart(j)
  BY <1>1, <1>3, <1>4 DEF LifeInv, Flags, Rest, JobTypes, Apart
<1>6. InstallRule(j) /\ ContainerRule(j)
  BY <1>1, <1>2, <1>3 DEF InstallRule, ContainerRule, Running
<1>7. RestoreRule(j)
  <2>1. CASE k = "restore"
    BY <1>1, <2>1 DEF RestoreRule
  <2>2. CASE k # "restore"
    <3>1. restoring' = restoring
      BY <1>1, <2>2 DEF LifeInv, Flags
    <3>2. QED
      BY <1>1, <1>3, <2>2, <3>1 DEF RestoreRule, Restoring
  <2>3. QED
    BY <2>1, <2>2
<1>8. JobOK(j)'
  <2>1. k # "restore" <=> IsInstall(j)'
    BY <1>3 DEF IsInstall, Kinds
  <2>2. told'[j] = "nothing"
    BY <1>1 DEF LifeInv, JobOK
  <2>3. to \in Outside => k # "restore"
    BY <1>2 DEF Outside, InRestore
  <2>4. QED
    BY <1>2, <1>3, <2>1, <2>2, <2>3 DEF JobOK
<1>9. QED
  BY <1>1, <1>5, <1>6, <1>7, <1>8, JobStep

\* A step of an installation outside Run, before its script.
LEMMA BeforeRun ==
    ASSUME LifeInv, NEW j \in Jobs, pc[j] \in {"stop", "sync", "script"},
           pc'[j] \in {"sync", "script", "swap", "report", "done"},
           pc'[j] = "report" => (good'[j] => j \in completed'),
           JobTypes', Apart(j), Flags', Rest',
           UNCHANGED <<kind, told, installing, restoring, exposed, installer, script>>,
           completed \subseteq completed'
    PROVE  LifeInv'
PROOF
<1>1. IsInstall(j) /\ JobOK(j)
  BY DEF LifeInv, JobOK, Outside
<1>2. ~Running(j)' /\ ~Restoring(j)'
  BY DEF Running, Restoring, InRun, InRestore
<1>3. InstallRule(j) /\ RestoreRule(j) /\ ContainerRule(j)
  BY <1>2 DEF InstallRule, RestoreRule, ContainerRule
<1>4. JobOK(j)'
  BY <1>1 DEF JobOK, IsInstall, InRun, InRestore
<1>5. QED
  BY <1>3, <1>4, JobStep

LEMMA StopForReinstallStep ==
    ASSUME LifeInv, NEW j \in Jobs, StopForReinstall(j)
    PROVE  LifeInv'
PROOF
<1>1. /\ pc[j] = "stop"
      /\ UNCHANGED <<installing, restoring, suspended, panel, deleted, enforcing, starter, kind, told,
                     installer, script, completed, exposed, raced>>
  BY DEF StopForReinstall, flags, install, history
<1>2. /\ Fault \/ UNCHANGED faults
      /\ UNCHANGED <<proc, state>> \/ (proc' = FALSE /\ state' = "offline")
      /\ \/ Goes(j, "sync") /\ good' = good
         \/ Goes(j, "done") /\ good' = [good EXCEPT ![j] = FALSE]
  BY DEF StopForReinstall, Fails
<1>3. JobTypes' /\ Apart(j) /\ pc'[j] \in {"sync", "done"}
  BY <1>1, <1>2, PlacesKnown, GoesEffect
<1>4. proc' \in BOOLEAN
  BY <1>2 DEF LifeInv, Flags
<1>5. Flags'
  BY <1>1, <1>4 DEF LifeInv, Flags
<1>6. Rest'
  BY <1>1, <1>2, FaultType DEF LifeInv, Rest
<1>7. QED
  BY <1>1, <1>3, <1>5, <1>6, BeforeRun

\* Sync keeps the flags' types.
LEMMA SyncType ==
    ASSUME LifeInv, Sync \/ UNCHANGED <<suspended, enforcing>>
    PROVE  suspended' \in BOOLEAN /\ enforcing' \in BOOLEAN
PROOF BY DEF LifeInv, Flags, Sync

LEMMA SyncForInstallStep ==
    ASSUME LifeInv, NEW j \in Jobs, SyncForInstall(j)
    PROVE  LifeInv'
PROOF
<1>1. /\ pc[j] = "sync" /\ Either(j, "script", "done")
      /\ Sync \/ UNCHANGED <<suspended, enforcing>>
      /\ UNCHANGED <<installing, restoring, panel, deleted, proc, state, starter, kind, told,
                     installer, script, completed, exposed, raced>>
  BY DEF SyncForInstall, install, history
<1>2. /\ JobTypes' /\ Apart(j) /\ faults' \in 0 .. MaxFaults /\ pc'[j] \in {"script", "done"}
  BY <1>1, PlacesKnown, EitherEffect
<1>3. Flags'
  BY <1>1, SyncType DEF LifeInv, Flags
<1>4. Rest'
  BY <1>1, <1>2 DEF LifeInv, Rest
<1>5. QED
  BY <1>1, <1>2, <1>3, <1>4, BeforeRun

LEMMA GetScriptStep ==
    ASSUME LifeInv, NEW j \in Jobs, GetScript(j)
    PROVE  LifeInv'
PROOF
<1>1. /\ pc[j] = "script"
      /\ UNCHANGED <<installing, restoring, suspended, panel, deleted, proc, state, enforcing, starter,
                     kind, told, installer, script, exposed, raced>>
  BY DEF GetScript, flags, server, history
<1>2. Flags'
  BY <1>1 DEF LifeInv, Flags
<1>3. CASE Either(j, "swap", "report") /\ UNCHANGED completed
  <2>1. /\ JobTypes' /\ Apart(j) /\ faults' \in 0 .. MaxFaults
        /\ pc'[j] = "swap" \/ (pc'[j] = "report" /\ ~good'[j])
    BY <1>1, <1>3, PlacesKnown, EitherEffect
  <2>2. Rest'
    BY <1>1, <1>3, <2>1 DEF LifeInv, Rest
  <2>3. QED
    BY <1>1, <1>2, <1>3, <2>1, <2>2, BeforeRun
<1>4. CASE /\ Goes(j, "report") /\ completed' = completed \cup {j} /\ UNCHANGED <<good, faults>>
  <2>1. JobTypes' /\ Apart(j) /\ pc'[j] = "report"
    BY <1>1, <1>4, PlacesKnown, GoesEffect
  <2>2. Rest'
    BY <1>1, <1>4 DEF LifeInv, Rest
  <2>3. QED
    BY <1>1, <1>2, <1>4, <2>1, <2>2, BeforeRun
<1>5. QED
  BY <1>3, <1>4 DEF GetScript

LEMMA SwapStep ==
    ASSUME LifeInv, NEW j \in Jobs, Swap(j)
    PROVE  LifeInv'
PROOF
<1>1. /\ pc[j] = "swap" /\ installing' = TRUE
      /\ UNCHANGED <<restoring, suspended, panel, deleted, proc, state, enforcing, starter, kind, told,
                     installer, script, completed, exposed, raced, faults>>
  BY DEF Swap, server, install, history
<1>2. \/ installing /\ Goes(j, "report") /\ good' = [good EXCEPT ![j] = FALSE]
      \/ ~installing /\ Goes(j, "before") /\ good' = good
  BY DEF Swap, Fails
<1>3. /\ JobTypes' /\ Apart(j)
      /\ \/ installing /\ pc'[j] = "report" /\ ~good'[j]
         \/ ~installing /\ pc'[j] = "before"
  <2>1. CASE installing /\ Goes(j, "report") /\ good' = [good EXCEPT ![j] = FALSE]
    <3>1. ~good'[j]
      BY <2>1 DEF LifeInv, JobTypes
    <3>2. QED
      BY <1>1, <2>1, <3>1, PlacesKnown, GoesEffect
  <2>2. CASE ~installing /\ Goes(j, "before") /\ good' = good
    BY <1>1, <2>2, PlacesKnown, GoesEffect
  <2>3. QED
    BY <1>2, <2>1, <2>2
<1>4. Flags' /\ Rest'
  BY <1>1 DEF LifeInv, Flags, Rest
<1>5. InstallRule(j)
  <2>1. CASE installing /\ pc'[j] = "report"
    <3>1. installing' = installing
      BY <1>1, <2>1 DEF LifeInv, Flags
    <3>2. ~Running(j)'
      BY <2>1 DEF Running, InRun
    <3>3. QED
      BY <3>1, <3>2 DEF InstallRule
  <2>2. CASE ~installing
    BY <1>1, <2>2 DEF InstallRule
  <2>3. QED
    BY <1>3, <2>1, <2>2
<1>6. RestoreRule(j) /\ ContainerRule(j)
  BY <1>1, <1>3 DEF RestoreRule, ContainerRule, Restoring, InRestore
<1>7. JobOK(j)'
  <2>1. JobOK(j) /\ IsInstall(j)
    BY <1>1 DEF LifeInv, JobOK, Outside
  <2>2. QED
    BY <1>1, <1>3, <2>1 DEF JobOK, IsInstall, InRestore
<1>8. QED
  BY <1>1, <1>3, <1>4, <1>5, <1>6, <1>7, JobStep

\* A step inside Run, or out of it.
LEMMA InsideRun ==
    ASSUME LifeInv, NEW j \in Jobs, pc[j] \in InRun,
           (pc'[j] \in InRun /\ installing' = installing) \/ pc'[j] = "report",
           JobTypes', Apart(j), Flags', Rest', completed \subseteq completed',
           UNCHANGED <<kind, told, restoring, exposed>>,
           pc'[j] = "create" => script' = j,
           pc'[j] = "start" => script' = j /\ installer' = [owner |-> j, st |-> "created"],
           pc'[j] = "wait" => script' = j /\ installer' = [owner |-> j, st |-> "running"],
           pc'[j] \in {"after", "release", "report"} /\ good'[j] => j \in completed'
    PROVE  LifeInv'
PROOF
<1>1. JobOK(j) /\ IsInstall(j) /\ Running(j)
  BY DEF LifeInv, JobOK, Running
<1>2. pc'[j] = "report" => ~Running(j)'
  BY DEF Running, InRun
<1>3. InstallRule(j) /\ ContainerRule(j)
  BY <1>1, <1>2 DEF InstallRule, ContainerRule
<1>4. pc'[j] \notin InRestore /\ pc'[j] # "idle"
  BY DEF InRun, InRestore
<1>5. RestoreRule(j)
  BY <1>4 DEF RestoreRule, Restoring
<1>6. JobOK(j)'
  BY <1>1, <1>4 DEF JobOK, IsInstall
<1>7. QED
  BY <1>3, <1>5, <1>6, JobStep

LEMMA BeforeExecuteStep ==
    ASSUME LifeInv, NEW j \in Jobs, BeforeExecute(j)
    PROVE  LifeInv'
PROOF
<1>1. /\ pc[j] = "before" /\ Either(j, "create", "release")
      /\ script' \in (IF pc'[j] = "create" THEN {j} ELSE {script, j})
      /\ installer' \in (IF pc'[j] = "create" THEN {NoContainer} ELSE {installer})
      /\ UNCHANGED <<installing, restoring, suspended, panel, deleted, proc, state, enforcing, starter,
                     kind, told, completed, exposed, raced>>
  BY DEF BeforeExecute, flags, server, history
<1>2. /\ JobTypes' /\ Apart(j) /\ faults' \in 0 .. MaxFaults
      /\ pc'[j] = "create" \/ (pc'[j] = "release" /\ ~good'[j])
  BY <1>1, PlacesKnown, EitherEffect
<1>3. Flags'
  BY <1>1 DEF LifeInv, Flags
<1>4. Rest'
  BY <1>1, <1>2 DEF LifeInv, Rest, Containers
<1>5. pc[j] \in InRun /\ pc'[j] \in InRun /\ (pc'[j] = "create" => script' = j)
  BY <1>1, <1>2 DEF InRun
<1>6. QED
  BY <1>1, <1>2, <1>3, <1>4, <1>5, InsideRun

LEMMA ContainerCreateStep ==
    ASSUME LifeInv, NEW j \in Jobs, ContainerCreate(j)
    PROVE  LifeInv'
PROOF
<1>1. /\ pc[j] = "create"
      /\ script' \in (IF pc'[j] = "start" THEN {script} ELSE {script, NoJob})
      /\ UNCHANGED <<installing, restoring, suspended, panel, deleted, proc, state, enforcing, starter,
                     kind, told, completed, exposed, raced>>
  BY DEF ContainerCreate, flags, server, history
<1>2. /\ JobTypes' /\ Apart(j) /\ faults' \in 0 .. MaxFaults
      /\ pc'[j] = "start" \/ (pc'[j] = "after" /\ ~good'[j])
      /\ installer' = IF pc'[j] = "start" THEN [owner |-> j, st |-> "created"] ELSE installer
  <2>1. CASE /\ Either(j, "start", "after")
             /\ installer' = IF pc'[j] = "start" THEN [owner |-> j, st |-> "created"] ELSE installer
    BY <1>1, <2>1, PlacesKnown, EitherEffect
  <2>2. CASE Fails(j, "after") /\ UNCHANGED <<installer, faults>>
    <3>1. Goes(j, "after") /\ good' = [good EXCEPT ![j] = FALSE]
      BY <2>2 DEF Fails
    <3>2. ~good'[j]
      BY <3>1 DEF LifeInv, JobTypes
    <3>3. QED
      BY <1>1, <2>2, <3>1, <3>2, PlacesKnown, GoesEffect, FaultType
  <2>3. QED
    BY <2>1, <2>2 DEF ContainerCreate
<1>3. script = j
  BY <1>1 DEF LifeInv, JobOK
<1>4. Flags'
  BY <1>1 DEF LifeInv, Flags
<1>5. Rest'
  BY <1>1, <1>2 DEF LifeInv, Rest, Containers
<1>6. pc[j] \in InRun /\ pc'[j] \in InRun
  BY <1>1, <1>2 DEF InRun
<1>7. QED
  BY <1>1, <1>2, <1>3, <1>4, <1>5, <1>6, InsideRun

LEMMA ContainerStartStep ==
    ASSUME LifeInv, NEW j \in Jobs, ContainerStart(j)
    PROVE  LifeInv'
PROOF
<1>1. /\ pc[j] = "start"
      /\ installer' = IF pc'[j] = "wait" THEN [installer EXCEPT !.st = "running"] ELSE installer
      /\ script' = IF pc'[j] = "wait" THEN script ELSE NoJob
      /\ UNCHANGED <<installing, restoring, suspended, panel, deleted, proc, state, enforcing, starter,
                     kind, told, completed, exposed, raced>>
  BY DEF ContainerStart, flags, server, history
<1>2. script = j /\ installer = [owner |-> j, st |-> "created"]
  BY <1>1 DEF LifeInv, JobOK
<1>3. Either(j, "wait", "after")
  BY <1>2 DEF ContainerStart
<1>4. /\ JobTypes' /\ Apart(j) /\ faults' \in 0 .. MaxFaults
      /\ pc'[j] = "wait" \/ (pc'[j] = "after" /\ ~good'[j])
  BY <1>1, <1>3, PlacesKnown, EitherEffect
<1>5. pc'[j] = "wait" => installer' = [owner |-> j, st |-> "running"]
  BY <1>1, <1>2
<1>6. installer' \in Containers
  BY <1>1, <1>4, <1>5 DEF LifeInv, Rest, Containers
<1>7. Flags'
  BY <1>1 DEF LifeInv, Flags
<1>8. Rest'
  BY <1>1, <1>4, <1>6 DEF LifeInv, Rest
<1>9. pc[j] \in InRun /\ pc'[j] \in InRun
  BY <1>1, <1>4 DEF InRun
<1>10. QED
  BY <1>1, <1>2, <1>4, <1>5, <1>7, <1>8, <1>9, InsideRun

LEMMA ContainerWaitStep ==
    ASSUME LifeInv, NEW j \in Jobs, ContainerWait(j)
    PROVE  LifeInv'
PROOF
<1>1. /\ pc[j] = "wait" /\ script' = NoJob
      /\ UNCHANGED <<installing, restoring, suspended, panel, deleted, proc, state, enforcing, starter,
                     kind, told, installer, completed, exposed, raced>>
  BY DEF ContainerWait, flags, server, history
<1>2. /\ JobTypes' /\ Apart(j) /\ faults' \in 0 .. MaxFaults /\ pc'[j] = "after"
      /\ good'[j] => j \in completed
  <2>1. CASE /\ installer.owner # j \/ installer.st = "exited"
             /\ Goes(j, "after") /\ UNCHANGED <<good, faults>>
    <3>1. j \in completed
      BY <1>1, <2>1 DEF LifeInv, JobOK
    <3>2. QED
      BY <1>1, <2>1, <3>1, PlacesKnown, GoesEffect, FaultType
  <2>2. CASE Fails(j, "after") /\ (Fault \/ UNCHANGED faults)
    <3>1. Goes(j, "after") /\ good' = [good EXCEPT ![j] = FALSE]
      BY <2>2 DEF Fails
    <3>2. ~good'[j]
      BY <3>1 DEF LifeInv, JobTypes
    <3>3. QED
      BY <1>1, <2>2, <3>1, <3>2, PlacesKnown, GoesEffect, FaultType
  <2>3. QED
    BY <2>1, <2>2 DEF ContainerWait
<1>3. Flags'
  BY <1>1 DEF LifeInv, Flags
<1>4. Rest'
  BY <1>1, <1>2 DEF LifeInv, Rest
<1>5. pc[j] \in InRun /\ pc'[j] \in InRun
  BY <1>1, <1>2 DEF InRun
<1>6. QED
  BY <1>1, <1>2, <1>3, <1>4, <1>5, InsideRun

LEMMA AfterExecuteStep ==
    ASSUME LifeInv, NEW j \in Jobs, AfterExecute(j)
    PROVE  LifeInv'
PROOF
<1>1. /\ pc[j] = "after" /\ Goes(j, "release")
      /\ installer' \in {installer, NoContainer} /\ (Fault \/ UNCHANGED faults)
      /\ UNCHANGED <<installing, restoring, suspended, panel, deleted, proc, state, enforcing, starter,
                     kind, good, told, script, completed, exposed, raced>>
  BY DEF AfterExecute, RemoveContainer, flags, server, history
<1>2. JobTypes' /\ Apart(j) /\ pc'[j] = "release"
  BY <1>1, PlacesKnown, GoesEffect
<1>3. good'[j] => j \in completed
  BY <1>1 DEF LifeInv, JobOK
<1>4. Flags'
  BY <1>1 DEF LifeInv, Flags
<1>5. Rest'
  BY <1>1, FaultType DEF LifeInv, Rest, Containers
<1>6. pc[j] \in InRun /\ pc'[j] \in InRun
  BY <1>1, <1>2 DEF InRun
<1>7. QED
  BY <1>1, <1>2, <1>3, <1>4, <1>5, <1>6, InsideRun

LEMMA ReleaseStep ==
    ASSUME LifeInv, NEW j \in Jobs, Release(j)
    PROVE  LifeInv'
PROOF
<1>1. /\ pc[j] = "release" /\ Goes(j, "report") /\ installing' = FALSE
      /\ UNCHANGED <<restoring, suspended, panel, deleted, proc, state, enforcing, starter,
                     kind, good, told, installer, script, completed, exposed, raced, faults>>
  BY DEF Release, server, install, history
<1>2. JobTypes' /\ Apart(j) /\ pc'[j] = "report"
  BY <1>1, PlacesKnown, GoesEffect
<1>3. good'[j] => j \in completed
  BY <1>1 DEF LifeInv, JobOK
<1>4. Flags' /\ Rest'
  BY <1>1 DEF LifeInv, Flags, Rest
<1>5. pc[j] \in InRun
  BY <1>1 DEF InRun
<1>6. QED
  BY <1>1, <1>2, <1>3, <1>4, <1>5, InsideRun

\* What the panel hears of a job.
LEMMA TellEffect ==
    ASSUME LifeInv, NEW j \in Jobs, NEW to \in Places, Goes(j, to), Tell(j), UNCHANGED <<kind, good>>
    PROVE  /\ JobTypes' /\ Apart(j) /\ faults' \in 0 .. MaxFaults /\ pc'[j] = to
           /\ told'[j] = told[j] \/ (told'[j] = "success" => good[j])
PROOF
<1>1. told \in [Jobs -> {"nothing", "success", "failure"}] /\ pc \in [Jobs -> Places]
  BY DEF LifeInv, JobTypes
<1>2. pc' \in [Jobs -> Places] /\ pc'[j] = to /\ \A k \in Jobs : k # j => pc'[k] = pc[k]
  BY <1>1 DEF Goes
<1>3. /\ told' \in [Jobs -> {"nothing", "success", "failure"}]
      /\ told'[j] = told[j] \/ (told'[j] = "success" => good[j])
      /\ \A k \in Jobs : k # j => told'[k] = told[k]
  <2>1. CASE told' = [told EXCEPT ![j] = IF good[j] THEN "success" ELSE "failure"]
    BY <1>1, <2>1
  <2>2. CASE told' = told
    BY <1>1, <2>2
  <2>3. QED
    BY <2>1, <2>2 DEF Tell
<1>4. Fault \/ UNCHANGED faults
  BY DEF Tell
<1>5. QED
  BY <1>2, <1>3, <1>4, FaultType DEF LifeInv, JobTypes, Apart

LEMMA SyncInstallStateStep ==
    ASSUME LifeInv, NEW j \in Jobs, SyncInstallState(j)
    PROVE  LifeInv'
PROOF
<1>1. /\ pc[j] = "report" /\ Tell(j) /\ Goes(j, "offline")
      /\ UNCHANGED <<installing, restoring, suspended, panel, deleted, proc, state, enforcing, starter,
                     kind, good, installer, script, completed, exposed, raced>>
  BY DEF SyncInstallState, flags, server, install, history
<1>2. /\ JobTypes' /\ Apart(j) /\ faults' \in 0 .. MaxFaults /\ pc'[j] = "offline"
      /\ told'[j] = told[j] \/ (told'[j] = "success" => good[j])
  BY <1>1, PlacesKnown, TellEffect
<1>3. Flags'
  BY <1>1 DEF LifeInv, Flags
<1>4. Rest'
  BY <1>1, <1>2 DEF LifeInv, Rest
<1>5. ~Running(j)' /\ ~Restoring(j)'
  BY <1>2 DEF Running, Restoring, InRun, InRestore
<1>6. InstallRule(j) /\ RestoreRule(j) /\ ContainerRule(j)
  BY <1>1, <1>5 DEF InstallRule, RestoreRule, ContainerRule
<1>7. JobOK(j)'
  <2>1. JobOK(j) /\ IsInstall(j)
    BY <1>1 DEF LifeInv, JobOK, Outside
  <2>2. QED
    BY <1>1, <1>2, <2>1 DEF JobOK, IsInstall, InRestore
<1>8. QED
  BY <1>1, <1>2, <1>3, <1>4, <1>6, <1>7, JobStep

LEMMA SetOfflineStep ==
    ASSUME LifeInv, NEW j \in Jobs, SetOffline(j)
    PROVE  LifeInv'
PROOF
<1>1. /\ pc[j] = "offline" /\ Goes(j, "done") /\ state' = "offline"
      /\ UNCHANGED <<installing, restoring, suspended, panel, deleted, proc, enforcing, starter,
                     kind, good, told, installer, script, completed, exposed, faults>>
      /\ raced' = raced \/ raced' = raced \cup {k \in Jobs : pc[k] \in InRestore}
  BY DEF SetOffline, flags, install
<1>2. JobTypes' /\ Apart(j) /\ pc'[j] = "done"
  BY <1>1, PlacesKnown, GoesEffect
<1>3. Flags' /\ Rest'
  BY <1>1 DEF LifeInv, Flags, Rest
<1>4. ~Running(j)' /\ ~Restoring(j)'
  BY <1>2 DEF Running, Restoring, InRun, InRestore
<1>5. InstallRule(j) /\ RestoreRule(j) /\ ContainerRule(j)
  BY <1>1, <1>4 DEF InstallRule, RestoreRule, ContainerRule
<1>6. JobOK(j)'
  BY <1>1, <1>2 DEF LifeInv, JobOK, IsInstall, Outside, InRun, InRestore
<1>7. QED
  BY <1>1, <1>2, <1>3, <1>5, <1>6, JobStep
------------------------------------------------------------------------------
\* Restorations.

\* A step of a restoration.
LEMMA InRestoration ==
    ASSUME LifeInv, NEW j \in Jobs, pc[j] \in InRestore, pc'[j] \in InRestore \cup {"done"},
           JobTypes', Apart(j), Flags', Rest',
           UNCHANGED <<kind, installing, installer, script, completed>>,
           (restoring' = restoring /\ exposed' = exposed) \/ (ClearRestoring(j) /\ pc'[j] = "done")
    PROVE  LifeInv'
PROOF
<1>1. kind[j] = "restore" /\ ~IsInstall(j)' /\ Restoring(j)
  BY DEF LifeInv, JobOK, IsInstall, Restoring
<1>2. InstallRule(j) /\ ContainerRule(j)
  BY <1>1 DEF InstallRule, ContainerRule, Running
<1>3. RestoreRule(j)
  BY <1>1 DEF RestoreRule, Restoring, InRestore
<1>4. pc'[j] \notin Outside \cup InRun \cup {"idle", "create", "start", "wait", "after", "release", "report"}
  BY DEF Outside, InRun, InRestore
<1>5. JobOK(j)'
  BY <1>1, <1>4 DEF JobOK
<1>6. QED
  BY <1>2, <1>3, <1>5, JobStep

LEMMA PrepareStep ==
    ASSUME LifeInv, NEW j \in Jobs, NEW here \in InRestore, NEW n \in InRestore, Prepare(j, here, n)
    PROVE  LifeInv'
PROOF
<1>1. /\ pc[j] = here /\ Attempts(j, n, "done")
      /\ IF pc'[j] = "done" THEN ClearRestoring(j) ELSE UNCHANGED <<restoring, exposed, raced>>
      /\ UNCHANGED <<installing, suspended, panel, deleted, proc, state, enforcing, starter, kind, told,
                     installer, script, completed>>
  BY DEF Prepare, server, install, history
<1>2. /\ JobTypes' /\ Apart(j) /\ faults' \in 0 .. MaxFaults /\ pc'[j] \in {n, "done"}
  BY <1>1, PlacesKnown, AttemptsEffect
<1>3. restoring' \in BOOLEAN /\ exposed' \subseteq Jobs /\ raced' \subseteq Jobs
  BY <1>1 DEF ClearRestoring, LifeInv, Flags, Rest
<1>4. Flags'
  BY <1>1, <1>3 DEF LifeInv, Flags
<1>5. Rest'
  BY <1>1, <1>2, <1>3 DEF LifeInv, Rest
<1>6. QED
  BY <1>1, <1>2, <1>4, <1>5, InRestoration

LEMMA SuspendStep ==
    ASSUME LifeInv, NEW j \in Jobs, SuspendForRestore(j) \/ Unsuspend(j)
    PROVE  LifeInv'
PROOF
<1>1. /\ pc[j] \in {"suspend", "unsuspend"} /\ (Goes(j, "quiesce") \/ Goes(j, "clear"))
      /\ suspended' = TRUE \/ suspended' = FALSE
      /\ UNCHANGED <<installing, restoring, panel, deleted, proc, state, enforcing, starter, kind, good,
                     told, installer, script, completed, exposed, raced, faults>>
  BY DEF SuspendForRestore, Unsuspend, server, install, history
<1>2. JobTypes' /\ Apart(j) /\ pc'[j] \in {"quiesce", "clear"}
  BY <1>1, PlacesKnown, GoesEffect
<1>3. suspended' \in BOOLEAN
  BY <1>1
<1>4. Flags' /\ Rest'
  BY <1>1, <1>3 DEF LifeInv, Flags, Rest
<1>5. pc[j] \in InRestore /\ pc'[j] \in InRestore
  BY <1>1, <1>2 DEF InRestore
<1>6. QED
  BY <1>1, <1>2, <1>4, <1>5, InRestoration

LEMMA StopForRestoreStep ==
    ASSUME LifeInv, NEW j \in Jobs, StopForRestore(j)
    PROVE  LifeInv'
PROOF
<1>1. /\ pc[j] = "quiesce"
      /\ UNCHANGED <<proc, state>> \/ (proc' = FALSE /\ state' = "offline")
      /\ \/ Goes(j, "write") /\ UNCHANGED <<good, faults>>
         \/ Either(j, "write", "answer")
      /\ UNCHANGED <<installing, restoring, suspended, panel, deleted, enforcing, starter, kind, told,
                     installer, script, completed, exposed, raced>>
  BY DEF StopForRestore, flags, install, history
<1>2. JobTypes' /\ Apart(j) /\ faults' \in 0 .. MaxFaults /\ pc'[j] \in {"write", "answer"}
  <2>1. CASE Goes(j, "write") /\ UNCHANGED <<good, faults>>
    BY <1>1, <2>1, PlacesKnown, GoesEffect, FaultType
  <2>2. CASE Either(j, "write", "answer")
    BY <1>1, <2>2, PlacesKnown, EitherEffect
  <2>3. QED
    BY <1>1, <2>1, <2>2
<1>3. proc' \in BOOLEAN
  BY <1>1 DEF LifeInv, Flags
<1>4. Flags'
  BY <1>1, <1>3 DEF LifeInv, Flags
<1>5. Rest'
  BY <1>1, <1>2 DEF LifeInv, Rest
<1>6. pc[j] \in InRestore /\ pc'[j] \in InRestore
  BY <1>1, <1>2 DEF InRestore
<1>7. QED
  BY <1>1, <1>2, <1>4, <1>5, <1>6, InRestoration

LEMMA WriteFilesStep ==
    ASSUME LifeInv, NEW j \in Jobs, WriteFiles(j)
    PROVE  LifeInv'
PROOF
<1>1. /\ pc[j] = "write" /\ Either(j, "answer", "answer")
      /\ UNCHANGED <<installing, restoring, suspended, panel, deleted, proc, state, enforcing, starter,
                     kind, told, installer, script, completed, exposed, raced>>
  BY DEF WriteFiles, Restore, flags, server, install, history
<1>2. JobTypes' /\ Apart(j) /\ faults' \in 0 .. MaxFaults /\ pc'[j] = "answer"
  BY <1>1, PlacesKnown, EitherEffect
<1>3. Flags'
  BY <1>1 DEF LifeInv, Flags
<1>4. Rest'
  BY <1>1, <1>2 DEF LifeInv, Rest
<1>5. pc[j] \in InRestore /\ pc'[j] \in InRestore
  BY <1>1, <1>2 DEF InRestore
<1>6. QED
  BY <1>1, <1>2, <1>3, <1>4, <1>5, InRestoration

LEMMA SendRestorationStatusStep ==
    ASSUME LifeInv, NEW j \in Jobs, SendRestorationStatus(j)
    PROVE  LifeInv'
PROOF
<1>1. /\ pc[j] = "answer" /\ Tell(j) /\ Goes(j, "unsuspend")
      /\ UNCHANGED <<installing, restoring, suspended, panel, deleted, proc, state, enforcing, starter,
                     kind, good, installer, script, completed, exposed, raced>>
  BY DEF SendRestorationStatus, flags, server, install, history
<1>2. JobTypes' /\ Apart(j) /\ faults' \in 0 .. MaxFaults /\ pc'[j] = "unsuspend"
  BY <1>1, PlacesKnown, TellEffect
<1>3. Flags'
  BY <1>1 DEF LifeInv, Flags
<1>4. Rest'
  BY <1>1, <1>2 DEF LifeInv, Rest
<1>5. pc[j] \in InRestore /\ pc'[j] \in InRestore
  BY <1>1, <1>2 DEF InRestore
<1>6. QED
  BY <1>1, <1>2, <1>3, <1>4, <1>5, InRestoration

LEMMA EndRestoreStep ==
    ASSUME LifeInv, NEW j \in Jobs, EndRestore(j)
    PROVE  LifeInv'
PROOF
<1>1. /\ pc[j] = "clear" /\ ClearRestoring(j) /\ Goes(j, "done")
      /\ UNCHANGED <<installing, suspended, panel, deleted, proc, state, enforcing, starter, kind, good,
                     told, installer, script, completed, faults>>
  BY DEF EndRestore, server, install
<1>2. JobTypes' /\ Apart(j) /\ pc'[j] = "done"
  BY <1>1, PlacesKnown, GoesEffect
<1>3. restoring' \in BOOLEAN /\ exposed' \subseteq Jobs /\ raced' \subseteq Jobs
  BY <1>1 DEF ClearRestoring, LifeInv, Rest
<1>4. Flags' /\ Rest'
  BY <1>1, <1>3 DEF LifeInv, Flags, Rest
<1>5. pc[j] \in InRestore
  BY <1>1 DEF InRestore
<1>6. QED
  BY <1>1, <1>2, <1>4, <1>5, InRestoration
------------------------------------------------------------------------------
\* The installation script, power actions, suspensions, the deletion.

LEMMA ScriptEndsStep ==
    ASSUME LifeInv, ScriptEnds
    PROVE  LifeInv'
PROOF
<1>1. /\ installer.st = "running" /\ installer' = [installer EXCEPT !.st = "exited"]
      /\ completed' = IF script = installer.owner THEN completed \cup {script} ELSE completed
      /\ UNCHANGED <<installing, restoring, suspended, panel, deleted, proc, state, enforcing, starter,
                     kind, pc, good, told, script, exposed, raced, faults>>
  BY DEF ScriptEnds, flags, server, jobs, history
<1>2. installer \in [owner : Jobs, st : {"created", "running", "exited"}]
  BY <1>1 DEF LifeInv, Rest, Containers, NoContainer
<1>3. /\ installer' \in Containers /\ completed' \subseteq Jobs /\ completed \subseteq completed'
      /\ installer' = [owner |-> installer.owner, st |-> "exited"]
  BY <1>1, <1>2 DEF LifeInv, Rest, Containers
<1>4. Flags'
  BY <1>1 DEF LifeInv, Flags
<1>5. Rest' /\ JobTypes'
  BY <1>1, <1>3 DEF LifeInv, Rest, JobTypes
<1>6. ASSUME NEW j \in Jobs PROVE JobOK(j)'
  <2>1. JobOK(j) /\ (IsInstall(j)' <=> IsInstall(j))
    BY <1>1 DEF LifeInv, IsInstall
  <2>2. pc[j] # "start"
    BY <1>1, <2>1 DEF JobOK
  <2>3. ASSUME pc[j] = "wait"
        PROVE  j \in completed' /\ installer' = [owner |-> j, st |-> "exited"]
    <3>1. script = j /\ installer = [owner |-> j, st |-> "running"]
      BY <1>1, <2>1, <2>3 DEF JobOK
    <3>2. installer.owner = j
      BY <3>1
    <3>3. QED
      BY <1>1, <1>3, <3>1, <3>2
  <2>4. QED
    BY <1>1, <1>3, <2>1, <2>2, <2>3 DEF JobOK
<1>7. ASSUME NEW j \in Jobs PROVE Sole(j)' /\ Flagged(j)'
  BY <1>1 DEF LifeInv, Sole, Flagged, Running, Restoring, IsInstall
<1>8. QED
  BY <1>4, <1>5, <1>6, <1>7 DEF LifeInv

\* Steps that no job and no flag of a job takes part in.
LEMMA Aside ==
    ASSUME LifeInv, Flags', Rest', UNCHANGED <<installing, restoring, jobs, install, exposed>>
    PROVE  LifeInv'
PROOF
<1>1. UNCHANGED <<installing, restoring, kind, pc, good, told, installer, script, completed,
                  exposed>>
  BY DEF jobs, install
<1>2. JobTypes'
  BY <1>1 DEF LifeInv, JobTypes
<1>3. ASSUME NEW j \in Jobs PROVE JobOK(j)' /\ Sole(j)' /\ Flagged(j)'
  BY <1>1 DEF LifeInv, JobOK, Sole, Flagged, Running, Restoring, IsInstall
<1>4. QED
  BY <1>2, <1>3 DEF LifeInv

LEMMA StartRequestStep ==
    ASSUME LifeInv, StartRequest \/ StartStep
    PROVE  LifeInv'
PROOF
<1>1. /\ starter' \in {"idle", "locked", "sync", "gate", "boot"}
      /\ UNCHANGED <<proc, state>> \/ (proc' = TRUE /\ state' = "on")
      /\ Sync \/ UNCHANGED <<suspended, enforcing>>
      /\ Fault \/ UNCHANGED faults
      /\ UNCHANGED <<installing, restoring, panel, deleted, jobs, install, exposed, raced>>
  BY DEF StartRequest, StartStep, StartCheckState, StartSync, StartGate, StartBoot, flags, server,
         history
<1>2. proc' \in BOOLEAN
  BY <1>1 DEF LifeInv, Flags
<1>3. Flags'
  BY <1>1, <1>2, SyncType DEF LifeInv, Flags
<1>4. Rest'
  BY <1>1, FaultType DEF LifeInv, Rest, install
<1>5. QED
  BY <1>1, <1>3, <1>4, Aside

LEMMA ServerStep ==
    ASSUME LifeInv, Enforce \/ ProcessExits \/ PanelSuspends \/ DeleteServer
    PROVE  LifeInv'
PROOF
<1>1. /\ UNCHANGED <<installing, restoring, starter, jobs, install, exposed, raced>>
      /\ Fault \/ UNCHANGED faults
      /\ UNCHANGED <<proc, state>> \/ (proc' = FALSE /\ state' = "offline")
      /\ enforcing' = enforcing \/ enforcing' = FALSE
      /\ panel' = panel \/ panel' = ~panel
      /\ suspended' = suspended \/ suspended' = TRUE
      /\ deleted' = deleted \/ deleted' = TRUE
  BY DEF Enforce, ProcessExits, PanelSuspends, DeleteServer, flags, server, history
<1>2. /\ proc' \in BOOLEAN /\ enforcing' \in BOOLEAN /\ panel' \in BOOLEAN
      /\ suspended' \in BOOLEAN /\ deleted' \in BOOLEAN
  BY <1>1 DEF LifeInv, Flags
<1>3. Flags'
  BY <1>1, <1>2 DEF LifeInv, Flags
<1>4. Rest'
  BY <1>1, FaultType DEF LifeInv, Rest, install
<1>5. QED
  BY <1>1, <1>3, <1>4, Aside

LEMMA NextInv ==
    ASSUME LifeInv, [Next]_vars
    PROVE  LifeInv'
PROOF
<1>1. ASSUME NEW j \in Jobs, InstallStep(j) PROVE LifeInv'
  BY <1>1, StopForReinstallStep, SyncForInstallStep, GetScriptStep, SwapStep, BeforeExecuteStep,
     ContainerCreateStep, ContainerStartStep, ContainerWaitStep, AfterExecuteStep, ReleaseStep,
     SyncInstallStateStep, SetOfflineStep DEF InstallStep
<1>2. ASSUME NEW j \in Jobs, RestoreStep(j) PROVE LifeInv'
  <2>1. CASE Prepare(j, "truncate", "locate") \/ Prepare(j, "locate", "suspend")
    BY <2>1, PrepareStep DEF InRestore
  <2>2. CASE \/ SuspendForRestore(j) \/ StopForRestore(j) \/ WriteFiles(j)
             \/ SendRestorationStatus(j) \/ Unsuspend(j) \/ EndRestore(j)
    BY <2>2, SuspendStep, StopForRestoreStep, WriteFilesStep, SendRestorationStatusStep,
       EndRestoreStep
  <2>3. QED
    BY <1>2, <2>1, <2>2 DEF RestoreStep
<1>3. ASSUME NEW j \in Jobs, NEW k \in Kinds, Accept(j, k) PROVE LifeInv'
  BY <1>3, AcceptStep
<1>4. CASE ScriptEnds
  BY <1>4, ScriptEndsStep
<1>5. CASE StartRequest \/ StartStep
  BY <1>5, StartRequestStep
<1>6. CASE Enforce \/ ProcessExits \/ PanelSuspends \/ DeleteServer
  BY <1>6, ServerStep
<1>7. CASE UNCHANGED vars
  <2>1. Flags' /\ Rest'
    BY <1>7 DEF LifeInv, Flags, Rest, vars, flags, server, install, history
  <2>2. QED
    BY <1>7, <2>1, Aside DEF vars, flags, history
<1>8. QED
  BY <1>1, <1>2, <1>3, <1>4, <1>5, <1>6, <1>7 DEF Next

LEMMA AlwaysInv == Spec => []LifeInv
PROOF
<1>1. QED
  BY InitInv, NextInv, PTL DEF Spec

\* Every variable of the long operations keeps its type; the program counter of a
\* job never leaves the path of its kind.
THEOREM TypeCorrect == Spec => []TypeOK
PROOF
<1>1. QED
  BY AlwaysInv, InvImplies, PTL

\* The flags that keep power actions out (Run, postServerRestoreBackup) are up for as
\* long as an installation or a restoration works, and two installations never work
\* at a time.
THEOREM FlagsGuard == Spec => []Guarded
PROOF
<1>1. QED
  BY AlwaysInv, InvImplies, PTL

\* The panel hears of a successful installation only if the script of this request has
\* come to its end in its own container (install, Execute).
THEOREM InstallIsHonest == Spec => []InstallHonest
PROOF
<1>1. QED
  BY AlwaysInv, InvImplies, PTL
------------------------------------------------------------------------------
\* A restoration writes alone. While its flag is its own, no start is under way, and
\* a process that runs is one that StopForRestore sees.
Quiet(j) ==
    (Restoring(j) /\ j \notin exposed \cup raced) =>
        /\ starter = "idle" /\ (proc => state = "on")
        /\ pc[j] = "write" => ~proc

AloneInv == \A j \in Jobs : Quiet(j)

\* A step of the jobs or of the server that starts nothing, hides no process and
\* takes no restoration to its writing.
LEMMA QuietStep ==
    ASSUME AloneInv, exposed \subseteq exposed', raced \subseteq raced', starter' = starter,
           UNCHANGED <<proc, state>> \/ proc' = FALSE,
           NEW j \in Jobs, Restoring(j)' => Restoring(j), pc'[j] = "write" => pc[j] = "write"
    PROVE  Quiet(j)'
PROOF
<1>1. Quiet(j)
  BY DEF AloneInv
<1>2. QED
  BY <1>1 DEF Quiet

\* Job j takes such a step and the others none.
LEMMA QuietJob ==
    ASSUME AloneInv, NEW j \in Jobs, exposed \subseteq exposed', raced \subseteq raced',
           UNCHANGED <<starter, kind>>, UNCHANGED <<proc, state>> \/ proc' = FALSE,
           \A k \in Jobs : k # j => pc'[k] = pc[k],
           pc'[j] \in InRestore => pc[j] \in InRestore /\ pc'[j] # "write"
    PROVE  AloneInv'
PROOF
<1>1. ASSUME NEW k \in Jobs
      PROVE  (Restoring(k)' => Restoring(k)) /\ (pc'[k] = "write" => pc[k] = "write")
  BY DEF Restoring, InRestore
<1>2. QED
  BY <1>1, QuietStep DEF AloneInv

\* Where a job goes, and that the others stay.
LEMMA GoesTo ==
    ASSUME LifeInv, NEW j \in Jobs, NEW to, Goes(j, to)
    PROVE  pc'[j] = to /\ \A k \in Jobs : k # j => pc'[k] = pc[k]
PROOF BY DEF LifeInv, JobTypes, Goes

LEMMA EitherGoesTo ==
    ASSUME LifeInv, NEW j \in Jobs, NEW n, NEW f, Either(j, n, f) \/ Attempts(j, n, f)
    PROVE  pc'[j] \in {n, f} /\ \A k \in Jobs : k # j => pc'[k] = pc[k]
PROOF
<1>1. Goes(j, n) \/ Goes(j, f)
  BY DEF Either, Attempts, Fails
<1>2. QED
  BY <1>1, GoesTo

LEMMA InstallAlone ==
    ASSUME LifeInv, AloneInv, NEW j \in Jobs, InstallStep(j)
    PROVE  AloneInv'
PROOF
<1>1. CASE SetOffline(j)
  <2>1. /\ Goes(j, "done") /\ state' = "offline" /\ UNCHANGED <<proc, starter, kind, exposed>>
        /\ raced' = IF proc THEN raced \cup {k \in Jobs : pc[k] \in InRestore} ELSE raced
    BY <1>1 DEF SetOffline
  <2>2. pc'[j] = "done" /\ \A k \in Jobs : k # j => pc'[k] = pc[k]
    BY <2>1, GoesTo
  <2>3. ASSUME NEW k \in Jobs PROVE Quiet(k)'
    <3>1. Restoring(k)' => Restoring(k) /\ pc'[k] = pc[k]
      BY <2>1, <2>2 DEF Restoring, InRestore
    <3>2. Quiet(k)
      BY DEF AloneInv
    <3>3. CASE proc
      BY <2>1, <3>1, <3>3 DEF Quiet, Restoring
    <3>4. CASE ~proc
      BY <2>1, <3>1, <3>2, <3>4 DEF Quiet
    <3>5. QED
      BY <3>3, <3>4
  <2>4. QED
    BY <2>3 DEF AloneInv
<1>2. CASE \/ StopForReinstall(j) \/ SyncForInstall(j) \/ GetScript(j) \/ Swap(j)
           \/ BeforeExecute(j) \/ ContainerCreate(j) \/ ContainerStart(j) \/ ContainerWait(j)
           \/ AfterExecute(j) \/ Release(j) \/ SyncInstallState(j)
  <2>1. /\ UNCHANGED <<starter, kind, exposed, raced>>
        /\ UNCHANGED <<proc, state>> \/ proc' = FALSE
    BY <1>2 DEF StopForReinstall, SyncForInstall, GetScript, Swap, BeforeExecute, ContainerCreate,
                ContainerStart, ContainerWait, AfterExecute, Release, SyncInstallState, server,
                history
  <2>2. \E to \in {"sync", "done", "script", "report", "swap", "before", "create", "release",
                   "start", "after", "wait", "offline"} : Goes(j, to)
    BY <1>2 DEF StopForReinstall, SyncForInstall, GetScript, Swap, BeforeExecute, ContainerCreate,
                ContainerStart, ContainerWait, AfterExecute, Release, SyncInstallState, Either, Fails
  <2>3. pc'[j] \notin InRestore /\ \A k \in Jobs : k # j => pc'[k] = pc[k]
    BY <2>2, GoesTo DEF InRestore
  <2>4. QED
    BY <2>1, <2>3, QuietJob
<1>3. QED
  BY <1>1, <1>2 DEF InstallStep

LEMMA StopForRestoreAlone ==
    ASSUME LifeInv, AloneInv, NEW j \in Jobs, StopForRestore(j)
    PROVE  AloneInv'
PROOF
<1>1. pc[j] = "quiesce" /\ UNCHANGED <<starter, kind, exposed, raced>>
  BY DEF StopForRestore, history
<1>2. /\ pc'[j] \in {"write", "answer"} /\ \A k \in Jobs : k # j => pc'[k] = pc[k]
      /\ \/ UNCHANGED <<proc, state>> /\ (pc'[j] = "write" => state = "offline")
         \/ proc' = FALSE
  <2>1. CASE state = "offline"
    BY <2>1, GoesTo DEF StopForRestore
  <2>2. CASE state # "offline"
    BY <2>2, EitherGoesTo DEF StopForRestore
  <2>3. QED
    BY <2>1, <2>2
<1>3. Quiet(j)'
  <2>1. Quiet(j) /\ (Restoring(j)' => Restoring(j))
    BY <1>1 DEF AloneInv, Restoring, InRestore
  <2>2. QED
    BY <1>1, <1>2, <2>1 DEF Quiet
<1>4. ASSUME NEW k \in Jobs, k # j PROVE Quiet(k)'
  <2>1. pc'[k] = pc[k] /\ (Restoring(k)' => Restoring(k))
    BY <1>1, <1>2, <1>4 DEF Restoring
  <2>2. QED
    BY <1>1, <1>2, <2>1, QuietStep
<1>5. QED
  BY <1>3, <1>4 DEF AloneInv

LEMMA RestoreAlone ==
    ASSUME LifeInv, AloneInv, NEW j \in Jobs, RestoreStep(j)
    PROVE  AloneInv'
PROOF
<1>1. CASE StopForRestore(j)
  BY <1>1, StopForRestoreAlone
<1>2. CASE Prepare(j, "truncate", "locate") \/ Prepare(j, "locate", "suspend")
  <2>1. /\ pc[j] \in InRestore /\ UNCHANGED <<starter, kind, proc, state>>
        /\ Attempts(j, "locate", "done") \/ Attempts(j, "suspend", "done")
        /\ exposed \subseteq exposed' /\ raced \subseteq raced'
    BY <1>2 DEF Prepare, ClearRestoring, server, history, InRestore
  <2>2. pc'[j] \in {"locate", "suspend", "done"} /\ \A k \in Jobs : k # j => pc'[k] = pc[k]
    BY <2>1, EitherGoesTo
  <2>3. QED
    BY <2>1, <2>2, QuietJob
<1>3. CASE \/ SuspendForRestore(j) \/ WriteFiles(j) \/ SendRestorationStatus(j) \/ Unsuspend(j)
           \/ EndRestore(j)
  <2>1. /\ pc[j] \in InRestore /\ UNCHANGED <<starter, kind, proc, state>>
        /\ exposed \subseteq exposed' /\ raced \subseteq raced'
    BY <1>3 DEF SuspendForRestore, WriteFiles, SendRestorationStatus, Unsuspend, EndRestore,
                ClearRestoring, server, history, InRestore
  <2>2. \E to \in {"quiesce", "answer", "unsuspend", "clear", "done"} : Goes(j, to)
    BY <1>3 DEF SuspendForRestore, WriteFiles, Restore, Either, Fails, SendRestorationStatus,
                Unsuspend, EndRestore
  <2>3. /\ pc'[j] \in {"quiesce", "answer", "unsuspend", "clear", "done"}
        /\ \A k \in Jobs : k # j => pc'[k] = pc[k]
    BY <2>2, GoesTo
  <2>4. QED
    BY <2>1, <2>3, QuietJob
<1>4. QED
  BY <1>1, <1>2, <1>3 DEF RestoreStep

LEMMA AcceptAlone ==
    ASSUME LifeInv, AloneInv, NEW j \in Jobs, NEW k \in Kinds, Accept(j, k)
    PROVE  AloneInv'
PROOF
<1> DEFINE to == CASE k = "install" -> "sync" [] k = "reinstall" -> "stop" [] OTHER -> "truncate"
<1>1. /\ Goes(j, to) /\ kind' = [kind EXCEPT ![j] = k] /\ UNCHANGED <<proc, state, starter, exposed>>
      /\ raced' = IF k = "restore" /\ (starter # "idle" \/ (proc /\ state = "offline"))
                  THEN raced \cup {j} ELSE raced
  BY DEF Accept, server
<1>2. to # "write"
  OBVIOUS
<1> HIDE DEF to
<1>3. pc'[j] # "write" /\ \A i \in Jobs : i # j => pc'[i] = pc[i] /\ kind'[i] = kind[i]
  BY <1>1, <1>2, GoesTo DEF LifeInv, JobTypes
<1>4. Quiet(j)'
  <2>1. kind'[j] = k
    BY <1>1 DEF LifeInv, JobTypes
  <2>2. QED
    BY <1>1, <1>3, <2>1 DEF Quiet, LifeInv, Rest, Restoring
<1>5. ASSUME NEW i \in Jobs, i # j PROVE Quiet(i)'
  <2>1. pc'[i] = pc[i] /\ (Restoring(i)' => Restoring(i))
    BY <1>3, <1>5 DEF Restoring
  <2>2. QED
    BY <1>1, <2>1, QuietStep
<1>6. QED
  BY <1>4, <1>5 DEF AloneInv

\* The flag refuses a start: with one under way no restoration has its flag to itself.
LEMMA StartAlone ==
    ASSUME LifeInv, AloneInv, StartRequest \/ StartStep
    PROVE  AloneInv'
PROOF
<1>1. UNCHANGED <<kind, pc, exposed, raced>> /\ (starter # "idle" \/ ~restoring)
  BY DEF StartRequest, StartStep, StartCheckState, StartSync, StartGate, StartBoot, jobs, history
<1>2. ASSUME NEW j \in Jobs PROVE ~(Restoring(j) /\ j \notin exposed \cup raced)
  BY <1>1 DEF LifeInv, Flagged, AloneInv, Quiet
<1>3. QED
  BY <1>1, <1>2 DEF AloneInv, Quiet, Restoring

LEMMA AsideAlone ==
    ASSUME AloneInv,
           \/ ScriptEnds \/ Enforce \/ ProcessExits \/ PanelSuspends \/ DeleteServer
           \/ UNCHANGED vars
    PROVE  AloneInv'
PROOF
<1>1. /\ UNCHANGED <<kind, pc, starter, exposed, raced>>
      /\ UNCHANGED <<proc, state>> \/ proc' = FALSE
  BY DEF ScriptEnds, Enforce, ProcessExits, PanelSuspends, DeleteServer, vars, server, jobs, history
<1>2. QED
  BY <1>1, QuietStep DEF AloneInv, Restoring

LEMMA AlwaysAlone == Spec => []AloneInv
PROOF
<1>1. Init => AloneInv
  BY DEF Init, AloneInv, Quiet, Restoring, InRestore
<1>2. ASSUME LifeInv, AloneInv, [Next]_vars PROVE AloneInv'
  BY <1>2, InstallAlone, RestoreAlone, AcceptAlone, StartAlone, AsideAlone DEF Next
<1>3. QED
  BY <1>1, <1>2, AlwaysInv, PTL DEF Spec

\* A restoration writes only while no process of the server runs (RestoreBackup), as
\* long as its flag was not cleared by another one and it met no start that was past
\* the check and no process that an installation had marked offline.
THEOREM RestoresAlone == Spec => []WritesAlone
PROOF
<1>1. LifeInv /\ AloneInv => WritesAlone
  <2>1. ASSUME LifeInv, NEW j \in Jobs, pc[j] = "write" PROVE Restoring(j)
    BY <2>1 DEF LifeInv, JobOK, Restoring, InRestore
  <2>2. QED
    BY <2>1 DEF AloneInv, Quiet, WritesAlone
<1>2. QED
  BY <1>1, AlwaysInv, AlwaysAlone, PTL
==============================================================================
