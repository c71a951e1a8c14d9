------------------------- MODULE MonitorDeployProofs -------------------------
(***************************************************************************)
(* Proofs about MonitorDeploy, for any history of commits, any services    *)
(* and packages, and any number of failures, deaths and reruns.            *)
(*                                                                         *)
(* One inductive invariant carries all of them.  It says that only the     *)
(* holder of the lock is past the lock, that nothing on record is newer    *)
(* than the commit it deploys, and what it has applied so far; and, of     *)
(* each service and package, that it is what its record says unless it     *)
(* changed off the record.                                                 *)
(***************************************************************************)
EXTENDS MonitorDeploy, TLAPS

\* A worker that has found its commit to be main while it held the lock.
Past == Holding \ {"recheck"}

\* ... that has fast-forwarded the checkout, and that is done with npm.
Applied  == Past \ {"plan"}
Prepared == Applied \ {"install", "installing", "installed"}

\* No record is about a commit newer than k.
RecordsUpTo(k) ==
  /\ marker \in Sha => marker <= k
  /\ head <= k
  /\ \A s \in Services :
       progress.services[s] \in Sha => progress.services[s] <= k
  /\ \A p \in Packages :
       progress.installs[p] \in Sha => progress.installs[p] <= k

\* What the plan of worker k covers, and what it has applied of it.
OnPlan(k) ==
  LET w == worker[k]
  IN  /\ head = k
      /\ marker \in Sha => /\ w.base = marker
                          /\ \A s \in Services :
                               CodeDiffers(s, marker, k) => s \in w.services
      /\ w.base \in Sha
      /\ progress.pendingHealth \subseteq w.services
      /\ w.todo \subseteq w.services
      /\ \A s \in (w.services \cap Immediate) \ w.todo :
           progress.services[s] = k
      /\ \A p \in Packages \ w.pkgs : progress.installs[p] = k
      /\ w.pc \in {"installing", "installed"} => w.cur \in w.pkgs \cap loose
      /\ w.pc = "installed" => modules[w.cur] = k
      /\ w.pc \in Prepared => w.pkgs = {}
      /\ w.pc = "restarted" => w.cur \in w.todo /\ running[w.cur] = k
      /\ w.pc \in {"health", "save", "mark", "marking"} => w.todo = {}
      /\ w.pc \in {"save", "mark", "marking"} => progress.pendingHealth = {}
      /\ w.pc = "marking" => marker = None

GoodWorker(k) ==
  /\ worker[k].pc # "absent" => k <= main
  /\ worker[k].pc \in Holding => lock = k
  /\ worker[k].pc \in Past => RecordsUpTo(k)
  /\ worker[k].pc \in Applied => OnPlan(k)

Baseline(s) ==
  IF progress.services[s] \in Sha THEN progress.services[s] ELSE deployedSha

\* A service restarted on the record runs the code of its baseline.
RunsItsBaseline ==
  \A s \in Immediate \ loose : ~CodeDiffers(s, running[s], Baseline(s))

\* A probed service that awaits no health check has passed one since it started.
HealthyOrAwaited ==
  \A s \in Probed \cap Immediate : s \in checked \cup loose \cup progress.pendingHealth

IInv ==
  /\ TypeOK
  /\ RecordsUpTo(main)
  /\ \A k \in Sha : GoodWorker(k)
  /\ RunsItsBaseline
  /\ RunsTheMarkedCode
  /\ InstalledAsRecorded
  /\ HealthyOrAwaited

-----------------------------------------------------------------------------
(***************************************************************************)
(* Types                                                                   *)
(***************************************************************************)

LEMMA ShaFacts ==
  /\ Sha \subseteq Nat
  /\ 0 \in Sha
  /\ \A x \in Special : x \notin Sha
  /\ Immediate \subseteq Services
  /\ Webhook \notin Immediate
  BY DeployAssumption DEF Sha, Immediate

\* A worker that goes to another place keeps the rest of its state.
LEMMA GotoTyped ==
  ASSUME TypeOK, NEW k \in Sha, NEW pc \in Active \cup {"absent", "ended"},
         Goto(k, pc)
  PROVE  worker' \in [Sha -> WorkerState]
<1> DEFINE Places == Active \cup {"absent", "ended"}
<1>1. worker \in [Sha -> WorkerState]
  BY DEF TypeOK
<1>2. [worker[k] EXCEPT !.pc = pc] \in WorkerState
  <2>1. worker[k] \in WorkerState /\ pc \in Places
    BY <1>1
  <2> HIDE DEF Places
  <2> QED
    BY <2>1 DEF WorkerState, Places
<1> QED
  BY <1>1, <1>2 DEF Goto

\* A worker that throws.
LEMMA ThrowsTyped ==
  ASSUME TypeOK, NEW k \in Sha, Throws(k), faults' \in 0 .. MaxFaults
  PROVE  TypeOK'
<1>1. worker' \in [Sha -> WorkerState]
  BY GotoTyped DEF Throws
<1>2. lock' \in Sha \cup {Free, Stale}
  BY DEF Throws, Release, TypeOK
<1>3. loose' \subseteq loose \cup {Webhook}
  BY DEF Throws
<1>4. loose' \subseteq Services \cup Packages
  BY <1>3, DeployAssumption DEF TypeOK
<1> QED
  BY <1>1, <1>2, <1>4 DEF Throws, TypeOK

\* The steps of the environment and those before the lock.
LEMMA OuterTyped ==
  ASSUME TypeOK, NEW k \in Sha,
         \/ Push \/ CiCompletes(k) \/ Rerun(k)
         \/ CiGreen(k) \/ CiCancelled(k) \/ CiRed(k)
         \/ ObsoleteBeforeLock(k) \/ StillMain(k) \/ AcquireLock(k)
         \/ ObsoleteAfterLock(k) \/ Recheck(k)
  PROVE  TypeOK'
<1> USE ShaFacts DEF history
<1>1. CASE Push
  <2>1. main' \in Sha
    BY <1>1, DeployAssumption DEF Push, TypeOK, Sha
  <2>2. worker' \in [Sha -> WorkerState]
    BY <1>1 DEF Push, TypeOK, WorkerState, Absent, Active
  <2> QED
    BY <1>1, <2>1, <2>2 DEF Push, TypeOK
<1>2. CASE CiCompletes(k)
  BY <1>2 DEF CiCompletes, TypeOK
<1>3. CASE Rerun(k)
  <2>1. worker' \in [Sha -> WorkerState]
    BY <1>3 DEF Rerun, TypeOK, WorkerState, Absent, Active
  <2>2. reruns' \in 0 .. MaxReruns
    BY <1>3, DeployAssumption DEF Rerun, TypeOK
  <2> QED
    BY <1>3, <2>1, <2>2 DEF Rerun, TypeOK
<1>4. ASSUME Supersede(k) PROVE TypeOK'
  <2>1. worker' \in [Sha -> WorkerState]
    BY <1>4, GotoTyped DEF Supersede
  <2>2. lock' \in Sha \cup {Free, Stale}
    BY <1>4 DEF Supersede, Release, TypeOK
  <2> QED
    BY <1>4, <2>1, <2>2 DEF Supersede, TypeOK
<1>5. CASE CiCancelled(k) \/ ObsoleteBeforeLock(k) \/ ObsoleteAfterLock(k)
  BY <1>4, <1>5 DEF CiCancelled, ObsoleteBeforeLock, ObsoleteAfterLock
<1>6. CASE CiRed(k)
  BY <1>6, ThrowsTyped DEF CiRed, TypeOK
<1>7. CASE CiGreen(k) \/ StillMain(k) \/ AcquireLock(k) \/ Recheck(k)
  <2>1. worker' \in [Sha -> WorkerState]
    BY <1>7, GotoTyped
       DEF CiGreen, StillMain, AcquireLock, Recheck, Active, Holding
  <2> QED
    BY <1>7, <2>1 DEF CiGreen, StillMain, AcquireLock, Recheck, TypeOK
<1> QED
  BY <1>1, <1>2, <1>3, <1>5, <1>6, <1>7

\* The steps of the lock's holder with services.
LEMMA HolderTyped ==
  ASSUME TypeOK, NEW k \in Sha, NEW s \in Services,
         \/ Plan(k) \/ InstallsDone(k) \/ Restart(k, s)
         \/ RecordRestart(k, s) \/ RestartsDone(k) \/ HealthPasses(k)
         \/ SaveProcessList(k) \/ EmptyMarker(k) \/ Mark(k)
  PROVE  TypeOK'
<1> USE ShaFacts DEF history
<1>0. worker \in [Sha -> WorkerState] /\ progress \in ProgressState
  BY DEF TypeOK
<1>1. CASE Plan(k)
  <2>1. AffectedServices(k) \subseteq Services /\ deployedSha \in Sha
    BY <1>0 DEF AffectedServices, ProgressState, Immediate, deployedSha, TypeOK
  <2>2. worker' \in [Sha -> WorkerState]
    <3>1. worker[k] \in WorkerState
      BY <1>0
    <3>2. [worker[k] EXCEPT !.pc = "install", !.base = deployedSha,
                            !.services = AffectedServices(k), !.pkgs = Packages,
                            !.todo = AffectedServices(k) \cap Immediate]
            \in WorkerState
      BY <2>1, <3>1 DEF WorkerState, Active, Holding
    <3> QED
      BY <1>0, <1>1, <3>2 DEF Plan
  <2>3. head' \in Sha /\ loose' \subseteq Services \cup Packages
    BY <1>1 DEF Plan, Unmarked, TypeOK
  <2> QED
    BY <1>1, <2>2, <2>3 DEF Plan, TypeOK
<1>2. CASE InstallsDone(k) \/ RestartsDone(k) \/ SaveProcessList(k)
  <2>1. worker' \in [Sha -> WorkerState]
    BY <1>2, GotoTyped
       DEF InstallsDone, RestartsDone, SaveProcessList, Active, Holding
  <2> QED
    BY <1>2, <2>1 DEF InstallsDone, RestartsDone, SaveProcessList, TypeOK
<1>3. CASE Restart(k, s)
  <2>1. worker' \in [Sha -> WorkerState]
    <3>1. worker[k] \in WorkerState
      BY <1>0
    <3>2. [worker[k] EXCEPT !.pc = "restarted", !.cur = s] \in WorkerState
      BY <3>1 DEF WorkerState, Active, Holding
    <3> QED
      BY <1>0, <1>3, <3>2 DEF Restart
  <2>2. running' \in [Services -> Sha]
    BY <1>3 DEF Restart, TypeOK
  <2>3. loose' \subseteq Services \cup Packages /\ checked' \subseteq Services
    BY <1>3 DEF Restart, TypeOK
  <2> QED
    BY <1>3, <2>1, <2>2, <2>3 DEF Restart, TypeOK
<1>4. CASE RecordRestart(k, s)
  <2>1. worker' \in [Sha -> WorkerState]
    BY <1>0, <1>4 DEF RecordRestart, WorkerState, Active, Holding
  <2>2. progress' \in ProgressState
    BY <1>0, <1>4
       DEF RecordRestart, AwaitsHealth, ProgressState, WorkerState
  <2>3. loose' \subseteq Services \cup Packages
    BY <1>4 DEF RecordRestart, TypeOK
  <2> QED
    BY <1>4, <2>1, <2>2, <2>3 DEF RecordRestart, TypeOK
<1>5. CASE HealthPasses(k)
  <2>1. worker' \in [Sha -> WorkerState]
    BY <1>5, GotoTyped DEF HealthPasses, Active, Holding
  <2>2. progress' \in ProgressState
    BY <1>0, <1>5 DEF HealthPasses, ProgressState
  <2>3. cleared' \subseteq Services /\ checked' \subseteq Services
    BY <1>5 DEF HealthPasses, TypeOK
  <2> QED
    BY <1>5, <2>1, <2>2, <2>3 DEF HealthPasses, TypeOK
<1>6. CASE EmptyMarker(k) \/ Mark(k)
  <2>1. worker' \in [Sha -> WorkerState]
    BY <1>6, GotoTyped DEF EmptyMarker, Mark, Active, Holding
  <2>2. lock' \in Sha \cup {Free, Stale}
    BY <1>6 DEF EmptyMarker, Mark, Release, TypeOK
  <2>3. cleared' \subseteq Services /\ loose' \subseteq Services \cup Packages
    BY <1>6, DeployAssumption DEF EmptyMarker, Mark, TypeOK
  <2> QED
    BY <1>6, <2>1, <2>2, <2>3 DEF EmptyMarker, Mark, TypeOK
<1> QED
  BY <1>1, <1>2, <1>3, <1>4, <1>5, <1>6

\* The steps of the lock's holder with packages.
LEMMA InstallTyped ==
  ASSUME TypeOK, NEW k \in Sha, NEW p \in Packages,
         StartInstall(k, p) \/ FinishInstall(k) \/ RecordInstall(k, p)
  PROVE  TypeOK'
<1> USE DEF history
<1>0. worker \in [Sha -> WorkerState] /\ progress \in ProgressState
  BY DEF TypeOK
<1>1. CASE StartInstall(k, p)
  <2>1. worker' \in [Sha -> WorkerState]
    <3>1. worker[k] \in WorkerState
      BY <1>0
    <3>2. [worker[k] EXCEPT !.pc = "installing", !.cur = p] \in WorkerState
      BY <3>1 DEF WorkerState, Active, Holding
    <3> QED
      BY <1>0, <1>1, <3>2 DEF StartInstall
  <2>2. modules' \in [Packages -> Sha \cup {Missing, Partial}]
    BY <1>1 DEF StartInstall, TypeOK
  <2>3. loose' \subseteq Services \cup Packages
    BY <1>1 DEF StartInstall, TypeOK
  <2> QED
    BY <1>1, <2>1, <2>2, <2>3 DEF StartInstall, TypeOK
<1>2. CASE FinishInstall(k)
  <2>1. worker' \in [Sha -> WorkerState]
    BY <1>2, GotoTyped DEF FinishInstall, Active, Holding
  <2>2. modules' \in [Packages -> Sha \cup {Missing, Partial}]
    BY <1>2 DEF FinishInstall, TypeOK
  <2> QED
    BY <1>2, <2>1, <2>2 DEF FinishInstall, TypeOK
<1>3. CASE RecordInstall(k, p)
  <2>1. worker' \in [Sha -> WorkerState]
    BY <1>0, <1>3 DEF RecordInstall, WorkerState, Active, Holding
  <2>2. progress' \in ProgressState
    BY <1>0, <1>3 DEF RecordInstall, ProgressState
  <2>3. loose' \subseteq Services \cup Packages
    BY <1>3 DEF RecordInstall, TypeOK
  <2> QED
    BY <1>3, <2>1, <2>2, <2>3 DEF RecordInstall, TypeOK
<1> QED
  BY <1>1, <1>2, <1>3

\* Workers that die leave the rest of their state.
LEMMA KillTyped ==
  ASSUME TypeOK, NEW dead, Kill(dead)
  PROVE  worker' \in [Sha -> WorkerState] /\ lock' \in Sha \cup {Free, Stale}
<1>1. worker \in [Sha -> WorkerState]
  BY DEF TypeOK
<1>2. \A k \in Sha : [worker[k] EXCEPT !.pc = "ended"] \in WorkerState
  BY <1>1 DEF WorkerState
<1> QED
  BY <1>1, <1>2 DEF Kill, TypeOK

\* The steps after the lock and the failures.
LEMMA LateTyped ==
  ASSUME TypeOK, NEW k \in Sha, NEW s \in Services,
         EndWorker(k) \/ RestartWebhook(k) \/ StepFails(k) \/ Die(k)
           \/ Recycle(s)
  PROVE  TypeOK'
<1> USE DeployAssumption DEF history
<1>0. Fault => faults' \in 0 .. MaxFaults
  BY DEF Fault, TypeOK
<1>1. CASE EndWorker(k)
  <2>1. worker' \in [Sha -> WorkerState]
    BY <1>1, GotoTyped DEF EndWorker
  <2> QED
    BY <1>1, <2>1 DEF EndWorker, TypeOK
<1>2. CASE RestartWebhook(k)
  <2>1. running' \in [Services -> Sha]
    BY <1>2 DEF RestartWebhook, TypeOK
  <2>2. loose' \subseteq Services \cup Packages
    BY <1>2 DEF RestartWebhook, TypeOK
  <2> QED
    BY <1>2, <2>1, <2>2, KillTyped DEF RestartWebhook, TypeOK
<1>3. CASE StepFails(k)
  BY <1>0, <1>3, ThrowsTyped DEF StepFails
<1>4. CASE Die(k)
  <2>1. loose' \subseteq Services \cup Packages
    BY <1>4 DEF Die, TypeOK
  <2> QED
    BY <1>0, <1>4, <2>1, KillTyped DEF Die, TypeOK
<1>5. CASE Recycle(s)
  <2>1. running' \in [Services -> Sha]
    BY <1>5 DEF Recycle, TypeOK
  <2>2. loose' \subseteq Services \cup Packages
    BY <1>5 DEF Recycle, TypeOK
  <2>3. worker' \in [Sha -> WorkerState] /\ lock' \in Sha \cup {Free, Stale}
    BY <1>5, KillTyped DEF Recycle, TypeOK
  <2> QED
    BY <1>0, <1>5, <2>1, <2>2, <2>3 DEF Recycle, TypeOK
<1> QED
  BY <1>1, <1>2, <1>3, <1>4, <1>5

-----------------------------------------------------------------------------
(***************************************************************************)
(* Steps that leave the records alone                                      *)
(***************************************************************************)

\* The initial state satisfies the invariant.
LEMMA InitIInv == Init => IInv
<1> SUFFICES ASSUME Init PROVE IInv
  OBVIOUS
<1> USE ShaFacts
<1>1. \A k \in Sha : worker[k] = Absent
  BY DEF Init
<1>2. TypeOK
  <2>1. worker \in [Sha -> WorkerState]
    BY DEF Init, Absent, WorkerState
  <2>2. progress \in ProgressState
    BY DEF Init, ProgressState
  <2> QED
    BY <2>1, <2>2, DeployAssumption DEF Init, TypeOK
<1>3. RecordsUpTo(main)
  BY DEF Init, RecordsUpTo, Special
<1>4. \A k \in Sha : GoodWorker(k)
  BY <1>1 DEF GoodWorker, Absent, Active, Holding, Past, Applied
<1>5. RunsItsBaseline /\ RunsTheMarkedCode /\ HealthyOrAwaited
  BY DEF Init, RunsItsBaseline, Baseline, RunsTheMarkedCode, CodeDiffers,
         deployedSha, HealthyOrAwaited, Special
<1>6. InstalledAsRecorded
  BY DEF Init, InstalledAsRecorded, DepsDiffer, deployedSha
<1> QED
  BY <1>2, <1>3, <1>4, <1>5, <1>6 DEF IInv

\* A step that writes no record: workers move outside what they apply, and
\* services start again only off the record.
LEMMA RecordsAlone ==
  ASSUME IInv, TypeOK', main <= main',
         UNCHANGED <<head, marker, progress, modules, cleared, checked>>,
         loose \ {Webhook} \subseteq loose',
         \A s \in Services : running'[s] \in {running[s], head},
         \A s \in Immediate : running'[s] = running[s] \/ s \in loose',
         \/ Webhook \in loose'
         \/ running'[Webhook] = deployedSha
         \/ /\ Webhook \notin loose
            /\ running'[Webhook] = running[Webhook]
            /\ OweRestart \subseteq OweRestart',
         \A j \in Sha : worker'[j].pc # "absent" => j <= main',
         \A j \in Sha : worker'[j].pc \in Holding => lock' = j,
         \A j \in Sha : \/ worker'[j] = worker[j]
                        \/ /\ worker'[j].pc \notin Applied
                           /\ worker'[j].pc \in Past => RecordsUpTo(j)
  PROVE  IInv'
<1> USE ShaFacts
<1>0. /\ main \in Nat /\ main' \in Nat /\ head \in Nat
      /\ progress \in ProgressState /\ deployedSha' = deployedSha
  BY DEF IInv, TypeOK, deployedSha
<1>1. RecordsUpTo(main)'
  <2>1. RecordsUpTo(main)
    BY DEF IInv
  <2>2. \A x \in Sha : x <= main => x <= main'
    BY <1>0
  <2>3. head \in Sha
    BY DEF IInv, TypeOK
  <2> HIDE ShaFacts
  <2> QED
    BY <2>1, <2>2, <2>3 DEF RecordsUpTo
<1>2. ASSUME NEW j \in Sha PROVE GoodWorker(j)'
  <2>1. GoodWorker(j)
    BY DEF IInv
  <2>2. worker'[j].pc \in Past => RecordsUpTo(j)'
    BY <2>1 DEF GoodWorker, RecordsUpTo
  <2>3. worker'[j].pc \in Applied => OnPlan(j)'
    <3> SUFFICES ASSUME worker'[j].pc \in Applied PROVE OnPlan(j)'
      OBVIOUS
    <3>1. worker'[j] = worker[j] /\ OnPlan(j)
      BY <2>1 DEF GoodWorker
    <3>2. worker[j].pc = "restarted" => running'[worker[j].cur] = j
      <4>1. worker[j] \in WorkerState
        BY DEF IInv, TypeOK
      <4> QED
        BY <3>1, <4>1 DEF OnPlan, WorkerState
    <3>3. worker[j].pc \in {"installing", "installed"}
            => worker[j].cur \in worker[j].pkgs \cap loose'
      <4>1. worker[j] \in WorkerState
        BY DEF IInv, TypeOK
      <4> QED
        BY <3>1, <4>1, DeployAssumption DEF OnPlan, WorkerState
    <3> QED
      BY <3>1, <3>2, <3>3 DEF OnPlan
  <2> QED
    BY <2>2, <2>3 DEF GoodWorker
<1>3. RunsItsBaseline'
  BY <1>0 DEF IInv, RunsItsBaseline, Baseline, Immediate
<1>4. RunsTheMarkedCode'
  <2> SUFFICES ASSUME NEW s \in Services, s \notin loose', s \notin cleared
               PROVE  \/ ~CodeDiffers(s, running'[s], deployedSha)
                      \/ s \in progress.pendingHealth
                      \/ s = Webhook /\ OweRestart' # {}
    BY <1>0 DEF RunsTheMarkedCode, CodeDiffers
  <2>1. CASE s = Webhook
    BY <2>1 DEF IInv, RunsTheMarkedCode, CodeDiffers
  <2>2. CASE s # Webhook
    BY <2>2 DEF IInv, RunsTheMarkedCode, Immediate
  <2> QED
    BY <2>1, <2>2
<1>5. InstalledAsRecorded'
  BY <1>0, DeployAssumption DEF IInv, InstalledAsRecorded, DepsDiffer
<1>6. HealthyOrAwaited'
  BY DEF IInv, HealthyOrAwaited, Immediate
<1> QED
  BY <1>1, <1>2, <1>3, <1>4, <1>5, <1>6 DEF IInv

\* A worker goes on outside what it applies, or ends.
LEMMA GoesElsewhere ==
  ASSUME IInv, TypeOK', NEW k \in Sha, NEW pc, Goto(k, pc),
         UNCHANGED <<main, head, marker, progress, running, modules, cleared,
                     checked>>,
         loose \subseteq loose',
         k \in OweRestart => Webhook \in loose',
         k <= main,
         pc \in Holding => lock' = k,
         \A j \in Sha \ {k} : worker[j].pc \in Holding => lock' = j,
         pc \notin Applied,
         pc \in Past => RecordsUpTo(k)
  PROVE  IInv'
<1>1. worker \in [Sha -> WorkerState] /\ \A j \in Sha : GoodWorker(j)
  BY DEF IInv, TypeOK
<1>2. /\ worker'[k].pc = pc
      /\ \A j \in Sha \ {k} : worker'[j] = worker[j]
  BY <1>1 DEF Goto, WorkerState
<1>3. OweRestart \subseteq OweRestart' \/ Webhook \in loose'
  <2> SUFFICES ASSUME k \notin OweRestart PROVE OweRestart \subseteq OweRestart'
    OBVIOUS
  <2> QED
    BY <1>2 DEF OweRestart, At
<1>4. \A j \in Sha : worker'[j].pc # "absent" => j <= main'
  BY <1>1, <1>2 DEF GoodWorker
<1>5. \A j \in Sha : worker'[j].pc \in Holding => lock' = j
  BY <1>2
<1>6. \A j \in Sha : \/ worker'[j] = worker[j]
                     \/ /\ worker'[j].pc \notin Applied
                        /\ worker'[j].pc \in Past => RecordsUpTo(j)
  BY <1>2
<1>7. main <= main'
  BY ShaFacts DEF IInv, TypeOK
<1> QED
  BY <1>3, <1>4, <1>5, <1>6, <1>7, RecordsAlone

\* The lock of a worker that ends is released, another one's is not.
LEMMA ReleaseKeepsOthers ==
  ASSUME IInv, NEW k \in Sha, lock' = Release(k)
  PROVE  \A j \in Sha \ {k} : worker[j].pc \in Holding => lock' = j
  BY DEF IInv, GoodWorker, Release

\* A worker is superseded or throws.
LEMMA WorkerStops ==
  ASSUME IInv, TypeOK', NEW k \in Sha,
         worker[k].pc \in Active,
         \/ Throws(k)
         \/ Supersede(k) /\ worker[k].pc # "notify"
  PROVE  IInv'
<1>0. k <= main
  BY DEF IInv, GoodWorker, Active, Holding
<1>1. /\ Goto(k, "ended")
      /\ lock' = Release(k)
      /\ UNCHANGED <<main, head, marker, progress, running, modules, cleared,
                     checked>>
      /\ loose \subseteq loose'
      /\ k \in OweRestart => Webhook \in loose'
  BY DEF Supersede, Throws, OweRestart, At
<1> QED
  BY <1>0, <1>1, ReleaseKeepsOthers, GoesElsewhere
     DEF Holding, Past, Applied

\* A living worker moves on before the lock, takes it, or ends.
LEMMA WorkerWaits ==
  ASSUME IInv, TypeOK', NEW k \in Sha,
         \/ CiGreen(k) \/ StillMain(k) \/ AcquireLock(k) \/ Recheck(k)
         \/ EndWorker(k)
  PROVE  IInv'
<1>1. GoodWorker(k) /\ \A j \in Sha : worker[j].pc \in Holding => lock = j
  BY DEF IInv, GoodWorker
<1>2. CASE CiGreen(k) \/ StillMain(k) \/ EndWorker(k)
  <2>1. PICK pc \in {"check", "lock", "ended"} : Goto(k, pc)
    BY <1>2 DEF CiGreen, StillMain, EndWorker
  <2>2. /\ k <= main /\ k \notin OweRestart
        /\ UNCHANGED <<main, head, marker, progress, running, modules, lock,
                       loose, cleared, checked>>
    BY <1>1, <1>2
       DEF CiGreen, StillMain, EndWorker, GoodWorker, At, Active, OweRestart,
           history
  <2> QED
    BY <1>1, <2>1, <2>2, GoesElsewhere DEF Holding, Past, Applied
<1>3. CASE AcquireLock(k)
  <2>1. \A j \in Sha : worker[j].pc \notin Holding
    BY <1>1, <1>3, ShaFacts DEF AcquireLock, Special
  <2>2. /\ k <= main /\ k \notin OweRestart /\ Goto(k, "recheck") /\ lock' = k
        /\ UNCHANGED <<main, head, marker, progress, running, modules, loose,
                       cleared, checked>>
    BY <1>1, <1>3
       DEF AcquireLock, GoodWorker, At, Active, OweRestart, history
  <2> QED
    BY <2>1, <2>2, GoesElsewhere DEF Past, Applied, Holding
<1>4. CASE Recheck(k)
  <2>1. RecordsUpTo(k)
    BY <1>4 DEF IInv, Recheck, StillMainUnderLock, Superseded
  <2>2. /\ k <= main /\ k \notin OweRestart /\ Goto(k, "plan") /\ lock = k
        /\ UNCHANGED <<main, head, marker, progress, running, modules, lock,
                       loose, cleared, checked>>
    BY <1>1, <1>4
       DEF Recheck, GoodWorker, At, Active, Holding, OweRestart, history
  <2> QED
    BY <1>1, <2>1, <2>2, GoesElsewhere DEF Past, Applied, Holding
<1> QED
  BY <1>2, <1>3, <1>4

\* Pushes, CI and operators.
LEMMA OutsideStep ==
  ASSUME IInv, TypeOK', NEW k \in Sha, Push \/ CiCompletes(k) \/ Rerun(k)
  PROVE  IInv'
<1> USE ShaFacts
<1>1. /\ worker \in [Sha -> WorkerState] /\ \A j \in Sha : GoodWorker(j)
      /\ main \in Sha /\ main' \in Sha
  BY DEF IInv, TypeOK
<1>2. /\ main <= main'
      /\ UNCHANGED <<head, marker, progress, running, modules, lock, loose,
                     cleared, checked>>
  BY <1>1 DEF Push, CiCompletes, Rerun, history
<1>3. \A j \in Sha : j <= main => j <= main'
  BY <1>1, <1>2
<1>4. \A j \in Sha : \/ worker'[j] = worker[j]
                     \/ /\ worker'[j].pc = "ci" /\ j <= main'
                        /\ worker[j].pc # "notify"
  <2>1. CASE Push
    <3>1. main + 1 \in Sha /\ ~(main + 1 <= main) /\ main + 1 <= main'
      BY <1>1, <2>1, DeployAssumption DEF Push, Sha
    <3>2. worker[main + 1].pc # "notify"
      BY <1>1, <3>1 DEF GoodWorker, Active
    <3> QED
      BY <1>1, <2>1, <3>1, <3>2 DEF Push, Absent
  <2>2. CASE CiCompletes(k)
    BY <2>2 DEF CiCompletes
  <2>3. CASE Rerun(k)
    <3>1. k <= main /\ main' = main /\ worker[k].pc = "ended"
      BY <1>1, <2>3 DEF Rerun, GoodWorker, At
    <3>2. worker' = [worker EXCEPT ![k] = [Absent EXCEPT !.pc = "ci", !.child = FALSE]]
      BY <2>3 DEF Rerun
    <3>3. worker'[k].pc = "ci" /\ \A j \in Sha \ {k} : worker'[j] = worker[j]
      BY <1>1, <3>2 DEF Absent
    <3> QED
      BY <3>1, <3>3
  <2> QED
    BY <2>1, <2>2, <2>3
<1>5. OweRestart \subseteq OweRestart'
  BY <1>4 DEF OweRestart, At
<1>6. \A j \in Sha : worker'[j].pc # "absent" => j <= main'
  BY <1>1, <1>3, <1>4 DEF GoodWorker
<1>7. \A j \in Sha : worker'[j].pc \in Holding => lock' = j
  BY <1>1, <1>2, <1>4 DEF GoodWorker, Holding
<1>8. \A j \in Sha : \/ worker'[j] = worker[j]
                     \/ /\ worker'[j].pc \notin Applied
                        /\ worker'[j].pc \in Past => RecordsUpTo(j)
  BY <1>4 DEF Past, Applied, Holding
<1> QED
  BY <1>2, <1>5, <1>6, <1>7, <1>8, RecordsAlone

\* What death leaves: nobody gains a place, and the lock is still the
\* holder's if the holder lives.
LEMMA DeathKeepsOthers ==
  ASSUME IInv, main' = main,
         NEW dead \in SUBSET {j \in Sha : worker[j].pc \in Active},
         Kill(dead) \/ UNCHANGED <<worker, lock>>
  PROVE  /\ \A j \in Sha : worker'[j].pc # "absent" => j <= main'
         /\ \A j \in Sha : worker'[j].pc \in Holding => lock' = j
         /\ \A j \in Sha : \/ worker'[j] = worker[j]
                           \/ worker'[j].pc = "ended" /\ j \in dead
<1>1. worker \in [Sha -> WorkerState] /\ \A j \in Sha : GoodWorker(j)
  BY DEF IInv, TypeOK
<1>2. CASE UNCHANGED <<worker, lock>>
  BY <1>1, <1>2 DEF GoodWorker
<1>3. CASE Kill(dead)
  <2>1. \A j \in dead : worker'[j] = [worker[j] EXCEPT !.pc = "ended"]
    BY <1>3 DEF Kill
  <2>2. \A j \in dead : worker'[j].pc = "ended" /\ worker[j] \in WorkerState
    BY <1>1, <2>1 DEF WorkerState
  <2>3. \A j \in Sha \ dead : worker'[j] = worker[j]
    BY <1>3 DEF Kill
  <2>4. \A j \in Sha \ dead : lock = j => lock' = j
    BY <1>3 DEF Kill
  <2>5. \A j \in dead : j <= main
    BY <1>1 DEF GoodWorker, Active, Holding
  <2> QED
    BY <1>1, <2>2, <2>3, <2>4, <2>5 DEF GoodWorker, Holding
<1> QED
  BY <1>2, <1>3

\* The deferred restart, deaths, and services PM2 starts again.
LEMMA LateStep ==
  ASSUME IInv, TypeOK', NEW k \in Sha, NEW s \in Services,
         RestartWebhook(k) \/ Die(k) \/ Recycle(s)
  PROVE  IInv'
<1> USE ShaFacts
<1>1. /\ running \in [Services -> Sha] /\ head \in Sha
      /\ main' = main /\ main <= main'
      /\ UNCHANGED <<head, marker, progress, modules, cleared>>
  BY DEF RestartWebhook, Die, Recycle, IInv, TypeOK
<1>2. CASE RestartWebhook(k)
  <2>1. Children \cup {k} \in SUBSET {j \in Sha : worker[j].pc \in Active}
    BY <1>2 DEF RestartWebhook, Children, OweRestart, At, Active
  <2>2. Kill(Children \cup {k}) /\ checked' = checked
    BY <1>2 DEF RestartWebhook
  <2>3. /\ running'[Webhook] = head
        /\ \A v \in Immediate : running'[v] = running[v]
        /\ \A v \in Services : running'[v] \in {running[v], head}
    BY <1>1, <1>2, DeployAssumption DEF RestartWebhook, Immediate
  <2>4. /\ loose \ {Webhook} \subseteq loose'
        /\ Webhook \in loose' \/ head = deployedSha
    BY <1>1, <1>2 DEF RestartWebhook, deployedSha
  <2>5. \A j \in Sha : worker'[j].pc = "ended" => worker'[j].pc \notin Applied
                                                  \cup Past
    BY DEF Applied, Past, Holding
  <2> QED
    BY <1>1, <2>1, <2>2, <2>3, <2>4, <2>5, DeathKeepsOthers, RecordsAlone
<1>3. CASE Die(k)
  <2>1. {k} \in SUBSET {j \in Sha : worker[j].pc \in Active}
    BY <1>3 DEF Die
  <2>2. Kill({k}) /\ checked' = checked /\ running' = running
    BY <1>3 DEF Die
  <2>3. loose \subseteq loose' /\ (k \in OweRestart => Webhook \in loose')
    BY <1>3 DEF Die
  <2>4. /\ \A j \in Sha : worker'[j].pc # "absent" => j <= main'
        /\ \A j \in Sha : worker'[j].pc \in Holding => lock' = j
        /\ \A j \in Sha : \/ worker'[j] = worker[j]
                          \/ worker'[j].pc = "ended" /\ j = k
    BY <1>1, <2>1, <2>2, DeathKeepsOthers
  <2>5. k \notin OweRestart => OweRestart \subseteq OweRestart'
    BY <2>4 DEF OweRestart, At
  <2>6. \A j \in Sha : worker'[j].pc = "ended" => worker'[j].pc \notin Applied
                                                  \cup Past
    BY DEF Applied, Past, Holding
  <2> QED
    BY <1>1, <2>2, <2>3, <2>4, <2>5, <2>6, RecordsAlone
<1>4. CASE Recycle(s)
  <2>1. /\ running' = [running EXCEPT ![s] = head] /\ checked' = checked
        /\ loose' = loose \cup {s}
    BY <1>4 DEF Recycle
  <2>2. Children \in SUBSET {j \in Sha : worker[j].pc \in Active}
    BY DEF Children
  <2>3. /\ Kill(Children) \/ UNCHANGED <<worker, lock>>
        /\ s # Webhook => UNCHANGED <<worker, lock>>
    BY <1>4 DEF Recycle
  <2>4. s # Webhook => OweRestart \subseteq OweRestart'
    BY <2>3 DEF OweRestart, At
  <2>5. \A j \in Sha : worker'[j].pc = "ended" => worker'[j].pc \notin Applied
                                                  \cup Past
    BY DEF Applied, Past, Holding
  <2> QED
    BY <1>1, <2>1, <2>2, <2>3, <2>4, <2>5, DeathKeepsOthers, RecordsAlone
<1> QED
  BY <1>2, <1>3, <1>4

-----------------------------------------------------------------------------
(***************************************************************************)
(* Steps of the lock's holder                                              *)
(***************************************************************************)

\* The holder's step needs to be looked at for the holder only: no other
\* worker is past the lock.
LEMMA HolderMoves ==
  ASSUME IInv, TypeOK', NEW k \in Sha, worker[k].pc \in Past,
         main' = main,
         \A j \in Sha \ {k} : worker'[j] = worker[j],
         worker'[k].pc \in Holding => lock' = k,
         RecordsUpTo(k)',
         worker'[k].pc \in Applied => OnPlan(k)'
  PROVE  /\ RecordsUpTo(main)'
         /\ \A j \in Sha : GoodWorker(j)'
         /\ OweRestart \subseteq OweRestart'
<1> USE ShaFacts
<1>1. \A j \in Sha : GoodWorker(j)
  BY DEF IInv
<1>2. k <= main /\ lock = k
  BY <1>1 DEF GoodWorker, Past, Holding
<1>3. RecordsUpTo(main)'
  <2>1. \A x \in Sha : x <= k => x <= main
    BY <1>2 DEF IInv, TypeOK
  <2>2. head' \in Sha
    BY DEF TypeOK
  <2> HIDE ShaFacts
  <2> QED
    BY <2>1, <2>2 DEF RecordsUpTo
<1>4. \A j \in Sha \ {k} : GoodWorker(j)'
  <2>1. \A j \in Sha \ {k} : worker[j].pc \notin Holding
    BY <1>1, <1>2 DEF GoodWorker
  <2> QED
    BY <1>1, <2>1 DEF GoodWorker, Past, Applied
<1>5. GoodWorker(k)'
  BY <1>2 DEF GoodWorker
<1>6. OweRestart \subseteq OweRestart'
  <2>1. worker[k].pc # "notify"
    BY DEF Past, Holding
  <2> QED
    BY <2>1 DEF OweRestart, At
<1> QED
  BY <1>3, <1>4, <1>5, <1>6

\* What the invariant says of the holder.
LEMMA HolderFacts ==
  ASSUME IInv, NEW k \in Sha, worker[k].pc \in Past
  PROVE  /\ lock = k
         /\ RecordsUpTo(k)
         /\ worker[k].pc \in Applied => OnPlan(k)
         /\ worker \in [Sha -> WorkerState] /\ worker[k] \in WorkerState
         /\ progress \in ProgressState
         /\ k \in Nat /\ head \in Nat
  BY ShaFacts DEF IInv, GoodWorker, Past, Holding, TypeOK

\* The worker plans, or goes on to its next stage.
LEMMA HolderPlans ==
  ASSUME IInv, TypeOK', NEW k \in Sha,
         \/ Plan(k) \/ InstallsDone(k) \/ RestartsDone(k)
         \/ SaveProcessList(k)
  PROVE  IInv'
<1> USE ShaFacts
<1>1. worker[k].pc \in Past
  BY DEF Plan, InstallsDone, RestartsDone, SaveProcessList, At, Past, Holding
<1>2. /\ lock = k /\ RecordsUpTo(k) /\ k \in Nat /\ head \in Nat
      /\ worker[k].pc \in Applied => OnPlan(k)
      /\ worker \in [Sha -> WorkerState] /\ worker[k] \in WorkerState
  BY <1>1, HolderFacts
<1>3. /\ UNCHANGED <<main, lock, marker, progress, running, modules, cleared,
                     checked>>
      /\ \A j \in Sha \ {k} : worker'[j] = worker[j]
  BY <1>2
     DEF Plan, InstallsDone, RestartsDone, SaveProcessList, Goto, history
<1>4. RecordsUpTo(k)' /\ OnPlan(k)'
  <2>1. CASE Plan(k)
    <3>1. head' = k
      BY <1>2, <2>1 DEF Plan, RecordsUpTo
    <3>2. worker'[k] = [worker[k] EXCEPT !.pc = "install", !.base = deployedSha,
                          !.services = AffectedServices(k), !.pkgs = Packages,
                          !.todo = AffectedServices(k) \cap Immediate]
      BY <1>2, <2>1 DEF Plan
    <3>3. /\ worker'[k].pc = "install" /\ worker'[k].base = deployedSha
          /\ worker'[k].services = AffectedServices(k)
          /\ worker'[k].pkgs = Packages
          /\ worker'[k].todo = AffectedServices(k) \cap Immediate
      BY <1>2, <3>2 DEF WorkerState
    <3>4. RecordsUpTo(k)'
      BY <1>2, <1>3, <3>1 DEF RecordsUpTo
    <3>5. deployedSha \in Sha /\ (marker \in Sha => deployedSha = marker)
      BY DEF IInv, TypeOK, deployedSha, Special
    <3>6. OnPlan(k)'
      BY <1>3, <3>1, <3>3, <3>5 DEF OnPlan, AffectedServices, CodeDiffers, Prepared,
                                    Applied, Past, Holding
    <3> QED
      BY <3>4, <3>6
  <2>2. CASE InstallsDone(k) \/ RestartsDone(k) \/ SaveProcessList(k)
    <3>1. PICK pc \in {"restart", "health", "mark"} :
            /\ worker'[k] = [worker[k] EXCEPT !.pc = pc]
            /\ pc = "restart" => At(k, "install") /\ worker[k].pkgs = {}
            /\ pc = "health" => At(k, "restart") /\ worker[k].todo = {}
            /\ pc = "mark" => At(k, "save")
      BY <1>2, <2>2 DEF InstallsDone, RestartsDone, SaveProcessList, Goto
    <3>2. /\ worker'[k].pc = pc
          /\ worker'[k].services = worker[k].services
          /\ worker'[k].pkgs = worker[k].pkgs
          /\ worker'[k].todo = worker[k].todo
          /\ worker'[k].base = worker[k].base
      BY <1>2, <3>1 DEF WorkerState
    <3>3. head' = head /\ OnPlan(k)
      BY <1>2, <2>2, <3>1
         DEF InstallsDone, RestartsDone, SaveProcessList, Applied, Past,
             Holding, At
    <3>4. OnPlan(k)'
      BY <1>3, <3>1, <3>2, <3>3
         DEF OnPlan, CodeDiffers, Prepared, Applied, Past, Holding, At
    <3> QED
      BY <1>2, <1>3, <3>3, <3>4 DEF RecordsUpTo
  <2> QED
    BY <2>1, <2>2
<1>5. /\ RecordsUpTo(main)'
      /\ \A j \in Sha : GoodWorker(j)'
      /\ OweRestart \subseteq OweRestart'
  BY <1>1, <1>2, <1>3, <1>4, HolderMoves
<1>6. /\ loose \subseteq loose'
      /\ \A s \in Services \ loose' : Code[deployedSha'][s] = Code[deployedSha][s]
      /\ \A p \in Packages \ loose' :
           progress.installs[p] = None => Deps[deployedSha'][p] = Deps[deployedSha][p]
  <2>1. CASE Plan(k) /\ marker = None
    <3>1. deployedSha = head /\ deployedSha' = k /\ loose' = loose \cup Unmarked(k)
      BY <1>2, <1>3, <2>1 DEF Plan, RecordsUpTo, deployedSha
    <3> QED  BY <3>1 DEF Unmarked, CodeDiffers, DepsDiffer
  <2>2. CASE ~(Plan(k) /\ marker = None)
    <3>1. loose' = loose /\ deployedSha' = deployedSha
      BY <1>3, <2>2
         DEF Plan, InstallsDone, RestartsDone, SaveProcessList, history, deployedSha
    <3> QED  BY <3>1
  <2> QED  BY <2>1, <2>2
<1>7. RunsItsBaseline' /\ HealthyOrAwaited'
  BY <1>3, <1>6 DEF IInv, RunsItsBaseline, Baseline, HealthyOrAwaited, CodeDiffers
<1>8. InstalledAsRecorded'
  BY <1>3, <1>6 DEF IInv, InstalledAsRecorded, DepsDiffer
<1>9. RunsTheMarkedCode'
  BY <1>3, <1>5, <1>6 DEF IInv, RunsTheMarkedCode, CodeDiffers
<1> QED
  BY <1>5, <1>7, <1>8, <1>9 DEF IInv

\* npm ci starts, ends and is recorded.
LEMMA HolderInstalls ==
  ASSUME IInv, TypeOK', NEW k \in Sha, NEW p \in Packages,
         StartInstall(k, p) \/ FinishInstall(k) \/ RecordInstall(k, p)
  PROVE  IInv'
<1> USE ShaFacts
<1>1. worker[k].pc \in {"install", "installing", "installed"}
  BY DEF StartInstall, FinishInstall, RecordInstall, At
<1>2. worker[k].pc \in Past /\ worker[k].pc \in Applied
  BY <1>1 DEF Applied, Past, Holding
<1>3. /\ lock = k /\ RecordsUpTo(k) /\ k \in Nat /\ head \in Nat
      /\ OnPlan(k)
      /\ worker \in [Sha -> WorkerState] /\ worker[k] \in WorkerState
      /\ progress \in ProgressState
      /\ modules \in [Packages -> Sha \cup {Missing, Partial}]
  BY <1>2, HolderFacts DEF IInv, TypeOK
<1>4. /\ UNCHANGED <<main, lock, head, marker, running, cleared, checked>>
      /\ deployedSha' = deployedSha
      /\ \A j \in Sha \ {k} : worker'[j] = worker[j]
      /\ \A s \in Services : s \in loose' <=> s \in loose
      /\ progress'.services = progress.services
      /\ progress'.pendingHealth = progress.pendingHealth
  BY <1>3, DeployAssumption
     DEF StartInstall, FinishInstall, RecordInstall, Goto, history, OnPlan,
         ProgressState, deployedSha
<1>5. /\ worker'[k].pc \in {"install", "installing", "installed"}
      /\ worker'[k].services = worker[k].services
      /\ worker'[k].base = worker[k].base
      /\ worker'[k].todo = worker[k].todo
  BY <1>3 DEF StartInstall, FinishInstall, RecordInstall, Goto, WorkerState
<1>6. /\ \A q \in Packages \ worker'[k].pkgs : progress'.installs[q] = k
      /\ worker'[k].pc \in {"installing", "installed"}
           => worker'[k].cur \in worker'[k].pkgs \cap loose'
      /\ worker'[k].pc = "installed" => modules'[worker'[k].cur] = k
      /\ \A q \in Packages : progress'.installs[q] \in Sha
                               => progress'.installs[q] <= k
      /\ \A q \in Packages \ loose' :
           /\ modules'[q] \in Sha
           /\ ~DepsDiffer(q, modules'[q],
                          IF progress'.installs[q] = None THEN deployedSha
                          ELSE progress'.installs[q])
  <2>1. CASE StartInstall(k, p)
    <3>1. /\ worker'[k].pc = "installing" /\ worker'[k].cur = p
          /\ worker'[k].pkgs = worker[k].pkgs
          /\ p \in worker[k].pkgs
          /\ loose' = loose \cup {p} /\ progress' = progress
          /\ \A q \in Packages \ {p} : modules'[q] = modules[q]
      BY <1>3, <2>1 DEF StartInstall, WorkerState
    <3> QED
      BY <1>3, <3>1 DEF OnPlan, RecordsUpTo, IInv, InstalledAsRecorded
  <2>2. CASE FinishInstall(k)
    <3>1. /\ worker[k].pc = "installing" /\ worker'[k].pc = "installed"
          /\ worker'[k].cur = worker[k].cur
          /\ worker'[k].pkgs = worker[k].pkgs
          /\ loose' = loose /\ progress' = progress
          /\ modules' = [modules EXCEPT ![worker[k].cur] = head]
      BY <1>3, <2>2 DEF FinishInstall, Goto, At, WorkerState, history
    <3>2. worker[k].cur \in Packages \cap loose
      BY <1>3, <3>1 DEF OnPlan, WorkerState
    <3> QED
      BY <1>3, <3>1, <3>2 DEF OnPlan, RecordsUpTo, IInv, InstalledAsRecorded
  <2>3. CASE RecordInstall(k, p)
    <3>1. /\ worker'[k].pc = "install"
          /\ worker'[k].pkgs = worker[k].pkgs \ {p}
          /\ modules' = modules
          /\ progress'.installs = [progress.installs EXCEPT ![p] = k]
          /\ loose \ {p} \subseteq loose'
      BY <1>3, <2>3 DEF RecordInstall, WorkerState, ProgressState
    <3>2. progress.installs \in [Packages -> Sha \cup {None}]
      BY <1>3 DEF ProgressState
    <3>3. k # None
      BY DEF Special
    <3>4. p \in loose' \/ (modules[p] \in Sha /\ ~DepsDiffer(p, modules[p], k))
      <4>1. CASE At(k, "installed") /\ worker[k].cur = p
        BY <1>3, <4>1 DEF OnPlan, DepsDiffer, At
      <4>2. CASE ~needsInstall(p, k) /\ loose' = loose
        <5> SUFFICES ASSUME p \notin loose
                     PROVE  modules[p] \in Sha /\ ~DepsDiffer(p, modules[p], k)
          BY <4>2
        <5>1. CASE progress.installs[p] = None /\ marker = None
          BY <1>3, <5>1, <4>2
             DEF needsInstall, IInv, InstalledAsRecorded, DepsDiffer, deployedSha, OnPlan
        <5>2. CASE progress.installs[p] # None \/ marker # None
          <6>1. usableBaseline(progress.installs[p], k)
                  = IF progress.installs[p] = None THEN deployedSha
                    ELSE progress.installs[p]
            BY <1>3, <3>2, <5>2
               DEF usableBaseline, RecordsUpTo, Special, OnPlan, deployedSha, IInv, TypeOK
          <6> QED
            BY <4>2, <6>1
               DEF needsInstall, IInv, InstalledAsRecorded, DepsDiffer
        <5> QED  BY <5>1, <5>2
      <4> QED
        BY <2>3, <4>1, <4>2 DEF RecordInstall
    <3>5. \A q \in Packages \ {p} : progress'.installs[q] = progress.installs[q]
      BY <3>1, <3>2
    <3>6. progress'.installs[p] = k
      BY <3>1, <3>2
    <3>7. \A q \in Packages \ loose' :
            /\ modules'[q] \in Sha
            /\ ~DepsDiffer(q, modules'[q],
                           IF progress'.installs[q] = None THEN deployedSha
                           ELSE progress'.installs[q])
      BY <3>1, <3>3, <3>4, <3>5, <3>6 DEF IInv, InstalledAsRecorded
    <3>8. \A q \in Packages \ worker'[k].pkgs : progress'.installs[q] = k
      BY <1>3, <3>1, <3>5, <3>6 DEF OnPlan
    <3>9. \A q \in Packages : progress'.installs[q] \in Sha
                                => progress'.installs[q] <= k
      BY <1>3, <3>5, <3>6 DEF RecordsUpTo
    <3> QED
      BY <3>1, <3>7, <3>8, <3>9
  <2> QED
    BY <2>1, <2>2, <2>3
<1>7. RecordsUpTo(k)'
  BY <1>3, <1>4, <1>6 DEF RecordsUpTo
<1>8. OnPlan(k)'
  BY <1>3, <1>4, <1>5, <1>6 DEF OnPlan, CodeDiffers, Prepared
<1>9. /\ RecordsUpTo(main)'
      /\ \A j \in Sha : GoodWorker(j)'
      /\ OweRestart \subseteq OweRestart'
  BY <1>2, <1>3, <1>4, <1>7, <1>8, HolderMoves
<1>10. RunsItsBaseline' /\ HealthyOrAwaited'
  BY <1>4 DEF IInv, RunsItsBaseline, Baseline, HealthyOrAwaited, CodeDiffers
<1>11. RunsTheMarkedCode'
  BY <1>4, <1>9 DEF IInv, RunsTheMarkedCode, CodeDiffers
<1>12. InstalledAsRecorded'
  BY <1>4, <1>6 DEF InstalledAsRecorded, DepsDiffer
<1> QED
  BY <1>9, <1>10, <1>11, <1>12 DEF IInv

\* A service is restarted.
LEMMA HolderRestarts ==
  ASSUME IInv, TypeOK', NEW k \in Sha, NEW s \in Services, Restart(k, s)
  PROVE  IInv'
<1> USE ShaFacts
<1>1. worker[k].pc = "restart" /\ worker[k].pc \in Past \cap Applied
  BY DEF Restart, At, Applied, Past, Holding
<1>2. /\ lock = k /\ RecordsUpTo(k) /\ OnPlan(k)
      /\ worker \in [Sha -> WorkerState] /\ worker[k] \in WorkerState
      /\ running \in [Services -> Sha]
  BY <1>1, HolderFacts DEF IInv, TypeOK
<1>3. /\ UNCHANGED <<main, lock, head, marker, progress, modules, cleared>>
      /\ deployedSha' = deployedSha
      /\ \A j \in Sha \ {k} : worker'[j] = worker[j]
      /\ loose' = loose \cup {s} /\ checked' = checked \ {s}
      /\ running' = [running EXCEPT ![s] = k]
      /\ s \in worker[k].todo
  BY <1>2 DEF Restart, OnPlan, deployedSha
<1>4. /\ worker'[k].pc = "restarted" /\ worker'[k].cur = s
      /\ worker'[k].base = worker[k].base
      /\ worker'[k].services = worker[k].services
      /\ worker'[k].pkgs = worker[k].pkgs
      /\ worker'[k].todo = worker[k].todo
  BY <1>2 DEF Restart, WorkerState
<1>5. s \in Immediate /\ running'[s] = k
      /\ \A v \in Services \ {s} : running'[v] = running[v]
  BY <1>2, <1>3 DEF WorkerState
<1>6. RecordsUpTo(k)'
  BY <1>2, <1>3 DEF RecordsUpTo
<1>7. OnPlan(k)'
  BY <1>1, <1>2, <1>3, <1>4, <1>5
     DEF OnPlan, CodeDiffers, Prepared, Applied, Past, Holding
<1>8. /\ RecordsUpTo(main)'
      /\ \A j \in Sha : GoodWorker(j)'
      /\ OweRestart \subseteq OweRestart'
  BY <1>1, <1>2, <1>3, <1>6, <1>7, HolderMoves
<1>9. RunsItsBaseline' /\ HealthyOrAwaited'
  BY <1>3, <1>5
     DEF IInv, RunsItsBaseline, Baseline, HealthyOrAwaited, CodeDiffers,
         Immediate
<1>10. RunsTheMarkedCode'
  BY <1>3, <1>5, <1>8 DEF IInv, RunsTheMarkedCode, CodeDiffers
<1>11. InstalledAsRecorded'
  BY <1>3 DEF IInv, InstalledAsRecorded, DepsDiffer
<1> QED
  BY <1>8, <1>9, <1>10, <1>11 DEF IInv

\* A restart is recorded, or found not to be needed.
LEMMA HolderRecordsRestart ==
  ASSUME IInv, TypeOK', NEW k \in Sha, NEW s \in Services,
         RecordRestart(k, s)
  PROVE  IInv'
<1> USE ShaFacts
<1>1. /\ worker[k].pc \in {"restart", "restarted"}
      /\ worker[k].pc \in Past \cap Applied
  BY DEF RecordRestart, At, Applied, Past, Holding
<1>2. /\ lock = k /\ RecordsUpTo(k) /\ OnPlan(k) /\ k \in Nat
      /\ worker \in [Sha -> WorkerState] /\ worker[k] \in WorkerState
      /\ progress \in ProgressState
  BY <1>1, HolderFacts
<1>3. /\ UNCHANGED <<main, lock, head, marker, modules, running, cleared,
                     checked>>
      /\ deployedSha' = deployedSha
      /\ \A j \in Sha \ {k} : worker'[j] = worker[j]
      /\ s \in worker[k].todo /\ s \in Immediate
      /\ progress'.services = [progress.services EXCEPT ![s] = k]
      /\ progress'.installs = progress.installs
      /\ progress'.pendingHealth
           \in {progress.pendingHealth, progress.pendingHealth \cup {s}}
  BY <1>2 DEF RecordRestart, AwaitsHealth, WorkerState, ProgressState, deployedSha
<1>4. /\ worker'[k].pc = "restart" /\ worker'[k].base = worker[k].base
      /\ worker'[k].services = worker[k].services
      /\ worker'[k].pkgs = worker[k].pkgs
      /\ worker'[k].todo = worker[k].todo \ {s}
  BY <1>2 DEF RecordRestart, WorkerState
<1>5. /\ progress'.services[s] = k
      /\ \A v \in Services \ {s} :
           progress'.services[v] = progress.services[v]
  BY <1>2, <1>3 DEF ProgressState
<1>6. \/ /\ loose' = loose \ {s}
         /\ s \in progress'.pendingHealth
         /\ running[s] = k
      \/ /\ loose' = loose
         /\ s \in loose \/ ~CodeDiffers(s, running[s], k)
  <2>1. CASE At(k, "restarted") /\ worker[k].cur = s /\ loose' = loose \ {s}
             /\ progress' = [progress EXCEPT !.services[s] = k,
                                             !.pendingHealth = AwaitsHealth(s)]
    BY <1>2, <2>1 DEF OnPlan, At, AwaitsHealth, ProgressState
  <2>2. CASE ~StillAffected(s, k) /\ loose' = loose
    <3>1. CASE progress.services[s] \notin Sha /\ marker = None
      BY <1>2, <1>3, <2>2, <3>1
         DEF IInv, RunsItsBaseline, Baseline, CodeDiffers, deployedSha, OnPlan
    <3>2. CASE progress.services[s] \in Sha \/ marker # None
      <4>1. usableBaseline(progress.services[s], k) = Baseline(s)
        BY <1>2, <3>2
           DEF usableBaseline, Baseline, RecordsUpTo, OnPlan, deployedSha, IInv, TypeOK
      <4> QED
        BY <1>3, <2>2, <4>1
           DEF StillAffected, IInv, RunsItsBaseline, CodeDiffers
    <3> QED  BY <3>1, <3>2
  <2> QED
    BY <2>1, <2>2 DEF RecordRestart
<1>7. RecordsUpTo(k)'
  BY <1>2, <1>3, <1>5 DEF RecordsUpTo
<1>8. OnPlan(k)'
  BY <1>1, <1>2, <1>3, <1>4, <1>5
     DEF OnPlan, CodeDiffers, Prepared, Applied, Past, Holding
<1>9. /\ RecordsUpTo(main)'
      /\ \A j \in Sha : GoodWorker(j)'
      /\ OweRestart \subseteq OweRestart'
  BY <1>1, <1>2, <1>3, <1>7, <1>8, HolderMoves
<1>10. RunsItsBaseline'
  <2> SUFFICES ASSUME NEW v \in Immediate, v \notin loose'
               PROVE  ~CodeDiffers(v, running[v], Baseline(v)')
    BY <1>3 DEF RunsItsBaseline, CodeDiffers
  <2>1. CASE v = s
    BY <1>5, <1>6, <2>1 DEF Baseline, CodeDiffers
  <2>2. CASE v # s
    <3>1. v \notin loose /\ Baseline(v)' = Baseline(v)
      BY <1>3, <1>5, <1>6, <2>2 DEF Baseline
    <3> QED
      BY <3>1 DEF IInv, RunsItsBaseline
  <2> QED
    BY <2>1, <2>2
<1>11. HealthyOrAwaited'
  BY <1>3, <1>6 DEF IInv, HealthyOrAwaited
<1>12. RunsTheMarkedCode'
  BY <1>3, <1>6, <1>9 DEF IInv, RunsTheMarkedCode, CodeDiffers
<1>13. InstalledAsRecorded'
  BY <1>3, <1>6, DeployAssumption DEF IInv, InstalledAsRecorded, DepsDiffer
<1> QED
  BY <1>9, <1>10, <1>11, <1>12, <1>13 DEF IInv

\* The health check strikes everything off that awaited one.
LEMMA HolderChecks ==
  ASSUME IInv, TypeOK', NEW k \in Sha, HealthPasses(k)
  PROVE  IInv'
<1> USE ShaFacts
<1>1. worker[k].pc = "health" /\ worker[k].pc \in Past \cap Applied
  BY DEF HealthPasses, At, Applied, Past, Holding
<1>2. /\ lock = k /\ RecordsUpTo(k) /\ OnPlan(k)
      /\ worker \in [Sha -> WorkerState] /\ worker[k] \in WorkerState
      /\ progress \in ProgressState
  BY <1>1, HolderFacts
<1>3. /\ UNCHANGED <<main, lock, head, marker, modules, running, loose>>
      /\ deployedSha' = deployedSha
      /\ \A j \in Sha \ {k} : worker'[j] = worker[j]
      /\ progress'.services = progress.services
      /\ progress'.installs = progress.installs
      /\ progress'.pendingHealth
           = progress.pendingHealth \ (worker[k].services \cap Immediate)
      /\ cleared' = cleared \cup (worker[k].services \cap Immediate)
      /\ checked' = checked \cup (worker[k].services \cap Immediate \cap Probed)
  BY <1>2 DEF HealthPasses, Goto, ProgressState, deployedSha
<1>4. /\ worker'[k].pc = "save" /\ worker'[k].base = worker[k].base
      /\ worker'[k].services = worker[k].services
      /\ worker'[k].pkgs = worker[k].pkgs
      /\ worker'[k].todo = worker[k].todo
  BY <1>2 DEF HealthPasses, Goto, WorkerState
<1>5. progress'.pendingHealth = {}
  BY <1>2, <1>3 DEF OnPlan, ProgressState
<1>6. RecordsUpTo(k)'
  BY <1>2, <1>3 DEF RecordsUpTo
<1>7. OnPlan(k)'
  BY <1>1, <1>2, <1>3, <1>4, <1>5
     DEF OnPlan, CodeDiffers, Prepared, Applied, Past, Holding
<1>8. /\ RecordsUpTo(main)'
      /\ \A j \in Sha : GoodWorker(j)'
      /\ OweRestart \subseteq OweRestart'
  BY <1>1, <1>2, <1>3, <1>6, <1>7, HolderMoves
<1>9. RunsItsBaseline' /\ InstalledAsRecorded'
  BY <1>3 DEF IInv, RunsItsBaseline, Baseline, CodeDiffers,
              InstalledAsRecorded, DepsDiffer
<1>10. HealthyOrAwaited'
  BY <1>2, <1>3 DEF IInv, HealthyOrAwaited
<1>11. RunsTheMarkedCode'
  <2>1. progress.pendingHealth \subseteq cleared'
    BY <1>2, <1>3 DEF OnPlan, ProgressState
  <2> QED
    BY <1>3, <1>8, <2>1 DEF IInv, RunsTheMarkedCode, CodeDiffers
<1> QED
  BY <1>8, <1>9, <1>10, <1>11 DEF IInv

\* Everything planned for a commit runs before its marker is written.
LEMMA HolderEmptiesMarker ==
  ASSUME IInv, TypeOK', NEW k \in Sha, EmptyMarker(k)
  PROVE  IInv' /\ deployedSha' >= deployedSha
<1> USE ShaFacts
<1>1. worker[k].pc = "mark" /\ worker[k].pc \in Past \cap Applied
  BY DEF EmptyMarker, At, Applied, Past, Holding
<1>2. /\ lock = k /\ RecordsUpTo(k) /\ OnPlan(k) /\ k \in Nat /\ head = k
      /\ worker \in [Sha -> WorkerState] /\ worker[k] \in WorkerState
      /\ progress \in ProgressState
  BY <1>1, HolderFacts DEF OnPlan
<1>3. /\ UNCHANGED <<main, head, lock, progress, modules, running, checked>>
      /\ \A j \in Sha \ {k} : worker'[j] = worker[j]
      /\ marker' = None /\ marker' \notin Sha /\ deployedSha' = k
      /\ cleared' = cleared \ worker[k].services
      /\ loose' = loose \cup (worker[k].services \cap {Webhook})
  BY <1>2 DEF EmptyMarker, Goto, deployedSha, Special
<1>4. /\ worker'[k].pc = "marking" /\ worker'[k].base = worker[k].base
      /\ worker'[k].services = worker[k].services
      /\ worker'[k].pkgs = worker[k].pkgs
      /\ worker'[k].todo = worker[k].todo
  BY <1>2 DEF EmptyMarker, Goto, WorkerState
<1>5. RecordsUpTo(k)'
  BY <1>2, <1>3 DEF RecordsUpTo
<1>6. OnPlan(k)'
  BY <1>1, <1>2, <1>3, <1>4 DEF OnPlan, Prepared, Applied, Past, Holding
<1>7. /\ RecordsUpTo(main)'
      /\ \A j \in Sha : GoodWorker(j)'
      /\ OweRestart \subseteq OweRestart'
  BY <1>1, <1>2, <1>3, <1>4, <1>5, <1>6, HolderMoves
<1>8. progress.pendingHealth = {} /\ worker[k].todo = {}
      /\ worker[k].pkgs = {} /\ k # None
  BY <1>1, <1>2 DEF OnPlan, Prepared, Applied, Past, Holding, Special
<1>9. \A s \in Services \ worker[k].services : ~CodeDiffers(s, deployedSha, k)
  BY <1>2 DEF OnPlan, deployedSha, CodeDiffers, IInv, TypeOK
<1>10. \A s \in worker[k].services \cap Immediate : progress.services[s] = k
  BY <1>2, <1>8 DEF OnPlan
<1>11. RunsItsBaseline'
  BY <1>3, <1>9, <1>10
     DEF IInv, RunsItsBaseline, Baseline, CodeDiffers, Immediate
<1>12. RunsTheMarkedCode'
  <2> SUFFICES ASSUME NEW s \in Services, s \notin loose', s \notin cleared'
               PROVE  \/ ~CodeDiffers(s, running[s], k)
                      \/ s = Webhook /\ OweRestart' # {}
    BY <1>3 DEF RunsTheMarkedCode, CodeDiffers
  <2>1. CASE s \notin worker[k].services
    BY <1>3, <1>7, <1>8, <1>9, <2>1 DEF IInv, RunsTheMarkedCode, CodeDiffers
  <2>2. CASE s \in worker[k].services
    BY <1>3, <1>10, <2>2 DEF IInv, RunsItsBaseline, Baseline, Immediate
  <2> QED
    BY <2>1, <2>2
<1>13. InstalledAsRecorded'
  <2>1. \A p \in Packages : progress.installs[p] = k
    BY <1>2, <1>8 DEF OnPlan
  <2> QED
    BY <1>3, <1>8, <2>1 DEF IInv, InstalledAsRecorded, DepsDiffer
<1>14. HealthyOrAwaited'
  BY <1>3 DEF IInv, HealthyOrAwaited
<1>15. k >= deployedSha
  BY <1>2 DEF RecordsUpTo, deployedSha, IInv, TypeOK
<1> QED
  BY <1>3, <1>7, <1>11, <1>12, <1>13, <1>14, <1>15 DEF IInv

\* The marker is the commit that already counted as deployed without it.
LEMMA HolderMarks ==
  ASSUME IInv, TypeOK', NEW k \in Sha, Mark(k)
  PROVE  /\ IInv' /\ deployedSha' = deployedSha
         /\ Probed \cap Immediate \subseteq checked \cup loose
<1> USE ShaFacts
<1>1. worker[k].pc = "marking" /\ worker[k].pc \in Past \cap Applied
  BY DEF Mark, At, Applied, Past, Holding
<1>2. /\ lock = k /\ RecordsUpTo(k) /\ OnPlan(k) /\ k \in Nat /\ head = k
      /\ marker = None /\ progress.pendingHealth = {}
      /\ worker \in [Sha -> WorkerState] /\ worker[k] \in WorkerState
  BY <1>1, HolderFacts DEF OnPlan
<1>3. /\ UNCHANGED <<main, head, progress, modules, running, cleared, checked>>
      /\ \A j \in Sha \ {k} : worker'[j] = worker[j]
      /\ marker' = k /\ deployedSha' = deployedSha
      /\ loose' = loose \ (worker[k].services \cap {Webhook})
  BY <1>2 DEF Mark, Goto, deployedSha, Special
<1>4. worker'[k].pc = "notify" /\ worker'[k].services = worker[k].services
  BY <1>2 DEF Mark, Goto, WorkerState
<1>5. RecordsUpTo(k)'
  BY <1>2, <1>3 DEF RecordsUpTo
<1>6. worker'[k].pc \notin Holding /\ worker'[k].pc \notin Applied
  BY <1>4 DEF Holding, Applied, Past
<1>7. /\ RecordsUpTo(main)'
      /\ \A j \in Sha : GoodWorker(j)'
      /\ OweRestart \subseteq OweRestart'
  BY <1>1, <1>2, <1>3, <1>5, <1>6, HolderMoves
<1>8. RunsItsBaseline' /\ HealthyOrAwaited'
  BY <1>3 DEF IInv, RunsItsBaseline, Baseline, CodeDiffers, HealthyOrAwaited, Immediate
<1>9. RunsTheMarkedCode'
  <2> SUFFICES ASSUME NEW s \in Services, s \notin loose', s \notin cleared
               PROVE  \/ ~CodeDiffers(s, running[s], deployedSha)
                      \/ s \in progress.pendingHealth
                      \/ s = Webhook /\ OweRestart' # {}
    BY <1>3 DEF RunsTheMarkedCode, CodeDiffers
  <2>1. CASE s \notin loose
    BY <1>7, <2>1 DEF IInv, RunsTheMarkedCode
  <2>2. CASE s \in loose
    BY <1>3, <1>4, <2>2 DEF OweRestart, At
  <2> QED  BY <2>1, <2>2
<1>10. InstalledAsRecorded'
  BY <1>3, DeployAssumption DEF IInv, InstalledAsRecorded, DepsDiffer
<1>11. Probed \cap Immediate \subseteq checked \cup loose
  BY <1>2 DEF IInv, HealthyOrAwaited
<1> QED
  BY <1>3, <1>7, <1>8, <1>9, <1>10, <1>11 DEF IInv

-----------------------------------------------------------------------------
(***************************************************************************)
(* The theorems                                                            *)
(***************************************************************************)

\* A superseded worker and one whose CI is red stop like any that fails.
LEMMA StopsIInv ==
  ASSUME IInv, NEW k \in Sha,
         \/ CiCancelled(k) \/ CiRed(k) \/ ObsoleteBeforeLock(k)
         \/ ObsoleteAfterLock(k) \/ StepFails(k)
  PROVE  IInv'
<1>1. TypeOK
  BY DEF IInv
<1>2. CASE StepFails(k)
  <2>1. TypeOK'
    BY <1>1, <1>2, ShaFacts, DeployAssumption, LateTyped
  <2> QED
    BY <1>2, <2>1, WorkerStops DEF StepFails
<1>3. CASE CiRed(k)
  <2>1. TypeOK'
    BY <1>1, <1>3, OuterTyped
  <2> QED
    BY <1>3, <2>1, WorkerStops DEF CiRed, At, Active
<1>4. CASE CiCancelled(k) \/ ObsoleteBeforeLock(k) \/ ObsoleteAfterLock(k)
  <2>1. TypeOK'
    BY <1>1, <1>4, OuterTyped
  <2>2. /\ Supersede(k)
        /\ worker[k].pc \in {"ci", "check", "recheck"}
    BY <1>4 DEF CiCancelled, ObsoleteBeforeLock, ObsoleteAfterLock, At
  <2>3. worker[k].pc \in Active /\ worker[k].pc # "notify"
    BY <2>2 DEF Active, Holding
  <2> QED
    BY <2>1, <2>2, <2>3, WorkerStops
<1> QED
  BY <1>2, <1>3, <1>4

\* npm: the package being installed is one of the plan's.
LEMMA InstallsIInv ==
  ASSUME IInv, NEW k \in Sha,
         \/ \E p \in Packages : StartInstall(k, p) \/ RecordInstall(k, p)
         \/ FinishInstall(k)
  PROVE  IInv'
<1>1. PICK p \in Packages :
        StartInstall(k, p) \/ FinishInstall(k) \/ RecordInstall(k, p)
  <2>1. CASE FinishInstall(k)
    <3>1. worker[k].pc = "installing" /\ worker[k].pc \in Past \cap Applied
      BY <2>1 DEF FinishInstall, At, Applied, Past, Holding
    <3>2. OnPlan(k) /\ worker[k] \in WorkerState
      BY <3>1, HolderFacts
    <3>3. worker[k].cur \in Packages
      BY <3>1, <3>2 DEF OnPlan, WorkerState
    <3> QED
      BY <2>1, <3>3
  <2>2. CASE \E p \in Packages : StartInstall(k, p) \/ RecordInstall(k, p)
    BY <2>2
  <2> QED
    BY <2>1, <2>2
<1>2. TypeOK'
  BY <1>1, InstallTyped DEF IInv
<1> QED
  BY <1>1, <1>2, HolderInstalls

\* Every step of a worker.
LEMMA WorkerIInv ==
  ASSUME IInv, NEW k \in Sha, Step(k)
  PROVE  IInv'
<1>1. TypeOK /\ Webhook \in Services
  BY DeployAssumption DEF IInv
<1>2. CASE \/ CiCancelled(k) \/ CiRed(k) \/ ObsoleteBeforeLock(k)
           \/ ObsoleteAfterLock(k)
  BY <1>2, StopsIInv
<1>3. CASE \/ CiGreen(k) \/ StillMain(k) \/ AcquireLock(k) \/ Recheck(k)
  BY <1>1, <1>3, OuterTyped, WorkerWaits
<1>4. CASE EndWorker(k) \/ RestartWebhook(k)
  BY <1>1, <1>4, LateTyped, WorkerWaits, LateStep
<1>5. CASE \/ \E p \in Packages : StartInstall(k, p) \/ RecordInstall(k, p)
           \/ FinishInstall(k)
  BY <1>5, InstallsIInv
<1>6. CASE \/ Plan(k) \/ InstallsDone(k) \/ RestartsDone(k)
           \/ SaveProcessList(k)
  BY <1>1, <1>6, HolderTyped, HolderPlans
<1>7. CASE \E s \in Services : Restart(k, s) \/ RecordRestart(k, s)
  BY <1>1, <1>7, HolderTyped, HolderRestarts, HolderRecordsRestart
<1>8. CASE HealthPasses(k) \/ EmptyMarker(k) \/ Mark(k)
  BY <1>1, <1>8, HolderTyped, HolderChecks, HolderEmptiesMarker, HolderMarks
<1> QED
  BY <1>2, <1>3, <1>4, <1>5, <1>6, <1>7, <1>8 DEF Step

\* The invariant is inductive.
LEMMA StepIInv == IInv /\ [Next]_vars => IInv'
<1> SUFFICES ASSUME IInv, [Next]_vars PROVE IInv'
  OBVIOUS
<1>1. TypeOK /\ Webhook \in Services /\ 0 \in Sha
  BY DeployAssumption, ShaFacts DEF IInv
<1>2. CASE UNCHANGED vars
  BY <1>2
     DEF vars, IInv, TypeOK, RecordsUpTo, GoodWorker, OnPlan, CodeDiffers,
         RunsItsBaseline, Baseline, RunsTheMarkedCode, OweRestart, At, deployedSha,
         InstalledAsRecorded, DepsDiffer, HealthyOrAwaited
<1>3. CASE Push
  BY <1>1, <1>3, OuterTyped, OutsideStep
<1>4. ASSUME NEW k \in Sha, CiCompletes(k) \/ Rerun(k) PROVE IInv'
  BY <1>1, <1>4, OuterTyped, OutsideStep
<1>5. ASSUME NEW k \in Sha, Step(k) PROVE IInv'
  BY <1>5, WorkerIInv
<1>6. ASSUME NEW k \in Sha, StepFails(k) PROVE IInv'
  BY <1>6, StopsIInv
<1>7. ASSUME NEW k \in Sha, Die(k) PROVE IInv'
  BY <1>1, <1>7, LateTyped, LateStep
<1>8. ASSUME NEW s \in Services, Recycle(s) PROVE IInv'
  BY <1>1, <1>8, LateTyped, LateStep
<1> QED
  BY <1>2, <1>3, <1>4, <1>5, <1>6, <1>7, <1>8 DEF Next

LEMMA AlwaysIInv == Spec => []IInv
  BY InitIInv, StepIInv, PTL DEF Spec

\* Every variable of the deploy keeps its type.
THEOREM TypeCorrect == Spec => []TypeOK
<1>1. IInv => TypeOK
  BY DEF IInv
<1> QED
  BY <1>1, AlwaysIInv, PTL

\* Whatever the history of commits, failures and workers, a service that runs
\* other code than the marked commit's is on record for a check or about to
\* be restarted, but for the two named windows between two writes.
THEOREM ServicesRunTheMarkedCode == Spec => []RunsTheMarkedCode
<1>1. IInv => RunsTheMarkedCode
  BY DEF IInv
<1> QED
  BY <1>1, AlwaysIInv, PTL

\* node_modules holds what the progress file, or the marker, says it does.
THEOREM PackagesAreOnRecord == Spec => []InstalledAsRecorded
<1>1. IInv => InstalledAsRecorded
  BY DEF IInv
<1> QED
  BY <1>1, AlwaysIInv, PTL

\* Only Mark writes the marker, only Plan moves the checkout.
LEMMA MovesForward ==
  ASSUME IInv, [Next]_vars
  PROVE  /\ deployedSha' >= deployedSha
         /\ head' >= head
         /\ marker' \notin {marker, None}
              => Probed \cap Immediate \subseteq checked \cup loose
<1> USE ShaFacts
<1>1. deployedSha \in Nat /\ head \in Nat /\ TypeOK /\ Webhook \in Services
  BY DeployAssumption DEF IInv, TypeOK, deployedSha
<1>2. ASSUME NEW k \in Sha, Mark(k)
      PROVE  /\ deployedSha' >= deployedSha /\ head' = head
             /\ Probed \cap Immediate \subseteq checked \cup loose
  <2>1. TypeOK'
    BY <1>1, <1>2, HolderTyped
  <2>2. deployedSha' = deployedSha /\ Probed \cap Immediate \subseteq checked \cup loose
    BY <1>1, <1>2, <2>1, HolderMarks
  <2>3. head' = head
    BY <1>2 DEF Mark
  <2> QED
    BY <1>1, <2>2, <2>3
<1>3. ASSUME NEW k \in Sha, EmptyMarker(k)
      PROVE  deployedSha' >= deployedSha /\ head' = head /\ marker' = None
  <2>1. TypeOK'
    BY <1>1, <1>3, HolderTyped
  <2> QED
    BY <1>3, <2>1, HolderEmptiesMarker DEF EmptyMarker
<1>4. ASSUME NEW k \in Sha, Plan(k)
      PROVE  marker' = marker /\ head' >= head /\ deployedSha' >= deployedSha
  BY <1>1, <1>4 DEF Plan, deployedSha
<1>5. ASSUME NEW k \in Sha, Step(k), ~Mark(k), ~EmptyMarker(k), ~Plan(k)
      PROVE  UNCHANGED <<marker, head>>
  BY <1>5
     DEF Step, CiGreen, CiCancelled, CiRed, ObsoleteBeforeLock, StillMain,
         AcquireLock, ObsoleteAfterLock, Recheck, StartInstall, RecordInstall,
         FinishInstall, InstallsDone, Restart, RecordRestart, RestartsDone,
         HealthPasses, SaveProcessList, EndWorker, RestartWebhook, Supersede,
         Throws
<1>6. ASSUME NEW k \in Sha,
             CiCompletes(k) \/ Rerun(k) \/ StepFails(k) \/ Die(k)
      PROVE  UNCHANGED <<marker, head>>
  BY <1>6 DEF CiCompletes, Rerun, StepFails, Throws, Die
<1>7. CASE Push \/ UNCHANGED vars \/ \E s \in Services : Recycle(s)
  BY <1>1, <1>7 DEF Push, Recycle, vars, deployedSha
<1>8. CASE UNCHANGED <<marker, head>>
  BY <1>1, <1>8 DEF deployedSha
<1>9. CASE \E k \in Sha : \/ CiCompletes(k) \/ Rerun(k) \/ Step(k)
                          \/ StepFails(k) \/ Die(k)
  BY <1>1, <1>2, <1>3, <1>4, <1>5, <1>6, <1>8, <1>9
<1> QED
  BY <1>7, <1>9 DEF Next

\* No commit is marked unless every probed service that was ever restarted has
\* passed a health check since it started.
THEOREM MarkingIsVerified == Spec => MarkedIsVerified
<1>1. IInv /\ [Next]_vars
        => [marker' \notin {marker, None}
              => Probed \cap Immediate \subseteq checked \cup loose]_vars
  BY MovesForward
<1> QED
  BY <1>1, AlwaysIInv, PTL DEF Spec, MarkedIsVerified

\* However many workers wait for each other, die and are started again, and
\* whether or not a marker can be read, production never goes back.
THEOREM ProductionNeverGoesBack == Spec => NeverGoesBack
<1>1. IInv /\ [Next]_vars => [deployedSha' >= deployedSha /\ head' >= head]_vars
  BY MovesForward
<1> QED
  BY <1>1, AlwaysIInv, PTL DEF Spec, NeverGoesBack
=============================================================================
