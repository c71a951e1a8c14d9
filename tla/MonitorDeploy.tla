---------------------------- MODULE MonitorDeploy ----------------------------
(***************************************************************************)
(* How a push to main reaches production: services/lib/                    *)
(* monitor-auto-deploy.js, run by the worker scripts/deploy-monitor.js     *)
(* that services/github-webhook.js spawns for every push.                  *)
(*                                                                         *)
(* A worker waits for the CI of its commit, takes the deploy lock,         *)
(* fast-forwards the checkout, installs packages, restarts the affected    *)
(* services one by one, health-checks them and only then writes the        *)
(* deployed marker.  What it has applied so far is kept in a progress      *)
(* file, so that a later worker resumes.  The webhook service is restarted *)
(* last, after the lock is released: PM2 kills the whole process tree of a *)
(* restarted service, the workers the webhook spawned included.            *)
(*                                                                         *)
(* Commits are numbered along main, which only moves forward; the worker   *)
(* of a commit is named after it.  What a commit contains is data: Code    *)
(* and Deps say which version of each service's files and of each          *)
(* package's manifests it holds, and git diff between two commits touches  *)
(* a service when the versions differ.  The atomicity of the lock file is  *)
(* assumed here.  Only the lock's holder writes the marker and the         *)
(* progress file, so the latter is read where the code uses its copy.  The *)
(* progress file is replaced in one go; the marker is written in place,    *)
(* and at a first deployment there is none.                                *)
(***************************************************************************)
EXTENDS Naturals, FiniteSets

CONSTANTS
  MaxSha,     \* bound on the commits; 0 is the one deployed at first
  Services,   \* ALL_SERVICES
  Webhook,    \* SELF_SERVICE
  Probed,     \* the services of HEALTH_ENDPOINTS
  Packages,   \* the two packages npm ci installs
  Code,       \* [Sha -> [Services -> version]]
  Deps,       \* [Sha -> [Packages -> version]]
  None,       \* no revision on record, or none that can be read
  Missing,    \* no node_modules directory
  Partial,    \* a node_modules directory npm ci did not finish
  Free,       \* no lock file
  Stale,      \* a lock file whose process is dead
  MaxFaults,  \* bound on failing steps, deaths and recycles
  MaxReruns   \* bound on workers an operator starts again

Sha       == 0 .. MaxSha
Immediate == Services \ {Webhook}
Special   == {None, Missing, Partial, Free, Stale}

ASSUME DeployAssumption ==
  /\ {MaxSha, MaxFaults, MaxReruns} \subseteq Nat
  /\ Webhook \in Services /\ Probed \subseteq Services
  /\ Services \cap Packages = {}
  /\ Special \cap Sha = {}
  /\ None \notin Services

VARIABLES
  main,     \* origin/main
  ci,       \* the CI run of each commit
  head,     \* HEAD of the production checkout
  marker,   \* db/.monitor-deployed-sha
  progress, \* db/.monitor-deploy-progress.json
  running,  \* the commit whose files each service has loaded
  modules,  \* what node_modules of each package holds
  lock,     \* db/.monitor-deploy.lock
  worker,   \* the worker of each commit
  faults, reruns,
  loose,    \* history: services and packages that changed off the record
  cleared,  \* history: services struck off pendingHealth, marker not written
  checked,  \* history: services probed and healthy since they last started
  owed,     \* history: commits a superseded worker left to their own worker
  failed    \* history: commits whose worker announced a failure

history == <<loose, cleared, checked, owed, failed>>
vars    == <<main, ci, head, marker, progress, running, modules, lock, worker,
             faults, reruns, loose, cleared, checked, owed, failed>>

-----------------------------------------------------------------------------
\* child:    spawned by the webhook, not by an operator
\* services: affected services
\* pkgs, todo: packages and immediate services still to be handled
\* cur:      the package or service changed but not recorded yet
\* base:     deployedSha
Absent == [pc |-> "absent", child |-> TRUE, services |-> {}, pkgs |-> {},
           todo |-> {}, cur |-> None, base |-> None]

Holding == {"recheck", "plan", "install", "installing", "installed",
            "restart", "restarted", "health", "save", "mark", "marking"}
Active  == {"ci", "check", "lock", "notify"} \cup Holding

Init ==
  /\ main = 0 /\ head = 0 /\ marker \in {0, None}
  /\ ci = [k \in Sha |-> IF k = 0 THEN "success" ELSE "pending"]
  /\ progress = [services |-> [s \in Services |-> None],
                 installs |-> [p \in Packages |-> None],
                 pendingHealth |-> {}]
  /\ running = [s \in Services |-> 0]
  /\ modules = [p \in Packages |-> 0]
  /\ lock = Free
  /\ worker = [k \in Sha |-> Absent]
  /\ faults = 0 /\ reruns = 0
  /\ loose = {} /\ cleared = {}
  /\ checked = Services
  /\ owed = {} /\ failed = {}

At(k, pc)   == worker[k].pc = pc
Goto(k, pc) == worker' = [worker EXCEPT ![k].pc = pc]
Fault       == faults < MaxFaults /\ faults' = faults + 1

\* finally { unlinkSync(lockPath) }
Release(k) == IF lock = k THEN Free ELSE lock

-----------------------------------------------------------------------------
(***************************************************************************)
(* Which services and packages a commit affects                            *)
(***************************************************************************)

CodeDiffers(s, a, b) == Code[a][s] # Code[b][s]
DepsDiffer(p, a, b)  == Deps[a][p] # Deps[b][p]

\* readStateSha: without a marker, the checkout counts as deployed.
deployedSha == IF marker = None THEN head ELSE marker

\* usableBaseline: a recorded revision that target k contains, or what was
\* deployed when the worker looked.
usableBaseline(rev, k) ==
  IF rev \in Sha /\ rev <= k THEN rev ELSE worker[k].base

\* Defect: services of an earlier, unverified attempt are forgotten.
AffectedByDiffOnly(k) == {s \in Services : CodeDiffers(s, deployedSha, k)}

\* servicesForFiles(diff from what is deployed), and what still awaits its
\* health check.
AffectedServices(k) ==
  {s \in Services : CodeDiffers(s, deployedSha, k)} \cup progress.pendingHealth

\* Defect: a recorded install is never repeated.
NeedsInstallOnce(p, k) ==
  modules[p] = Missing \/ progress.installs[p] = None

needsInstall(p, k) ==
  \/ DepsDiffer(p, usableBaseline(progress.installs[p], k), k)
  \/ modules[p] = Missing

\* Defect: a service that was ever restarted counts as up to date.
StillAffectedOnce(s, k) == progress.services[s] = None

StillAffected(s, k) ==
  CodeDiffers(s, usableBaseline(progress.services[s], k), k)

-----------------------------------------------------------------------------
(***************************************************************************)
(* Before the lock                                                         *)
(***************************************************************************)

\* A push; the webhook spawns the worker.
Push ==
  /\ main < MaxSha
  /\ main' = main + 1
  /\ worker' = [worker EXCEPT ![main + 1] = [Absent EXCEPT !.pc = "ci"]]
  /\ UNCHANGED <<ci, head, marker, progress, running, modules, lock, faults,
                 reruns, history>>

CiCompletes(k) ==
  /\ k <= main
  /\ ci[k] = "pending"
  /\ \E c \in {"success", "failure", "cancelled"} : ci' = [ci EXCEPT ![k] = c]
  /\ UNCHANGED <<main, head, marker, progress, running, modules, lock, worker,
                 faults, reruns, history>>

\* An operator runs the script again for a commit whose worker is gone.
Rerun(k) ==
  /\ At(k, "ended")
  /\ reruns < MaxReruns
  /\ reruns' = reruns + 1
  /\ worker' = [worker EXCEPT ![k] = [Absent EXCEPT !.pc = "ci",
                                                    !.child = FALSE]]
  /\ UNCHANGED <<main, ci, head, marker, progress, running, modules, lock,
                 faults, history>>

\* supersedingMainSha: main is linear, so a newer main contains the target.
Superseded(k) == main # k

\* The worker exits quietly: the worker of the newer main owns deployment.
Supersede(k) ==
  /\ Superseded(k)
  /\ Goto(k, "ended")
  /\ lock' = Release(k)
  /\ owed' = owed \cup {main}
  /\ UNCHANGED <<main, ci, head, marker, progress, running, modules, faults,
                 reruns, loose, cleared, checked, failed>>

\* The worker of k throws: the lock is released, the failure announced.
Throws(k) ==
  /\ Goto(k, "ended")
  /\ lock' = Release(k)
  /\ failed' = failed \cup {k}
  /\ loose' = IF At(k, "notify") THEN loose \cup (worker[k].services \cap {Webhook})
              ELSE loose
  /\ UNCHANGED <<main, ci, head, marker, progress, running, modules, reruns,
                 cleared, checked, owed>>

\* waitForSuccessfulCi
CiGreen(k) ==
  /\ At(k, "ci")
  /\ ci[k] = "success"
  /\ Goto(k, "check")
  /\ UNCHANGED <<main, ci, head, marker, progress, running, modules, lock,
                 faults, reruns, history>>

CiCancelled(k) == At(k, "ci") /\ ci[k] = "cancelled" /\ Supersede(k)

CiRed(k) ==
  /\ At(k, "ci")
  /\ ci[k] = "failure" \/ (ci[k] = "cancelled" /\ ~Superseded(k))
  /\ Throws(k)
  /\ UNCHANGED faults

ObsoleteBeforeLock(k) == At(k, "check") /\ Supersede(k)

StillMain(k) ==
  /\ At(k, "check")
  /\ ~Superseded(k)
  /\ Goto(k, "lock")
  /\ UNCHANGED <<main, ci, head, marker, progress, running, modules, lock,
                 faults, reruns, history>>

\* acquireLockWithRetry: a lock file of a dead process is replaced.
AcquireLock(k) ==
  /\ At(k, "lock")
  /\ lock \in {Free, Stale}
  /\ lock' = k
  /\ Goto(k, "recheck")
  /\ UNCHANGED <<main, ci, head, marker, progress, running, modules, faults,
                 reruns, history>>

-----------------------------------------------------------------------------
(***************************************************************************)
(* Under the lock                                                          *)
(***************************************************************************)

ObsoleteAfterLock(k) == At(k, "recheck") /\ Supersede(k)

\* Defect: main is not read again once the lock is held.
RecheckNothing(k) == TRUE

StillMainUnderLock(k) == ~Superseded(k)

Recheck(k) ==
  /\ At(k, "recheck")
  /\ StillMainUnderLock(k)
  /\ Goto(k, "plan")
  /\ UNCHANGED <<main, ci, head, marker, progress, running, modules, lock,
                 faults, reruns, history>>

\* What only a later marker would show to be outdated once the checkout is at k.
Unmarked(k) ==
  {s \in Services : CodeDiffers(s, head, k)}
    \cup {p \in Packages : progress.installs[p] = None /\ DepsDiffer(p, head, k)}

\* The affected services are computed, then the checkout is fast-forwarded;
\* merging a commit the checkout contains changes nothing.
Plan(k) ==
  /\ At(k, "plan")
  /\ head' = IF k > head THEN k ELSE head
  /\ loose' = IF marker = None THEN loose \cup Unmarked(k) ELSE loose
  /\ worker' = [worker EXCEPT ![k].pc = "install",
                              ![k].base = deployedSha,
                              ![k].services = AffectedServices(k),
                              ![k].pkgs = Packages,
                              ![k].todo = AffectedServices(k) \cap Immediate]
  /\ UNCHANGED <<main, ci, marker, progress, running, modules, lock, faults,
                 reruns, cleared, checked, owed, failed>>

\* npm ci removes node_modules first; stopped half-way it leaves no directory
\* or an unfinished one.
StartInstall(k, p) ==
  /\ At(k, "install")
  /\ p \in worker[k].pkgs
  /\ needsInstall(p, k)
  /\ \E left \in {Missing, Partial} : modules' = [modules EXCEPT ![p] = left]
  /\ worker' = [worker EXCEPT ![k].pc = "installing", ![k].cur = p]
  /\ loose' = loose \cup {p}
  /\ UNCHANGED <<main, ci, head, marker, progress, running, lock, faults,
                 reruns, cleared, checked, owed, failed>>

FinishInstall(k) ==
  /\ At(k, "installing")
  /\ modules' = [modules EXCEPT ![worker[k].cur] = head]
  /\ Goto(k, "installed")
  /\ UNCHANGED <<main, ci, head, marker, progress, running, lock, faults,
                 reruns, history>>

\* The revision is recorded, after an install or when none was needed.
RecordInstall(k, p) ==
  /\ p \in worker[k].pkgs
  /\ \/ At(k, "installed") /\ worker[k].cur = p /\ loose' = loose \ {p}
     \/ At(k, "install") /\ ~needsInstall(p, k) /\ UNCHANGED loose
  /\ progress' = [progress EXCEPT !.installs[p] = k]
  /\ worker' = [worker EXCEPT ![k].pc = "install", ![k].cur = None,
                              ![k].pkgs = @ \ {p}]
  /\ UNCHANGED <<main, ci, head, marker, running, modules, lock, faults,
                 reruns, cleared, checked, owed, failed>>

InstallsDone(k) ==
  /\ At(k, "install")
  /\ worker[k].pkgs = {}
  /\ Goto(k, "restart")
  /\ UNCHANGED <<main, ci, head, marker, progress, running, modules, lock,
                 faults, reruns, history>>

\* pm2 restart: the service loads what the checkout holds.
Restart(k, s) ==
  /\ At(k, "restart")
  /\ s \in worker[k].todo
  /\ StillAffected(s, k)
  /\ running' = [running EXCEPT ![s] = head]
  /\ worker' = [worker EXCEPT ![k].pc = "restarted", ![k].cur = s]
  /\ loose' = loose \cup {s}
  /\ checked' = checked \ {s}
  /\ UNCHANGED <<main, ci, head, marker, progress, modules, lock, faults,
                 reruns, cleared, owed, failed>>

AwaitsHealth(s) == progress.pendingHealth \cup {s}

RecordRestart(k, s) ==
  /\ s \in worker[k].todo
  /\ \/ /\ At(k, "restarted") /\ worker[k].cur = s
        /\ loose' = loose \ {s}
        /\ progress' = [progress EXCEPT !.services[s] = k,
                                        !.pendingHealth = AwaitsHealth(s)]
     \/ /\ At(k, "restart") /\ ~StillAffected(s, k)
        /\ progress' = [progress EXCEPT !.services[s] = k]
        /\ UNCHANGED loose
  /\ worker' = [worker EXCEPT ![k].pc = "restart", ![k].cur = None,
                              ![k].todo = @ \ {s}]
  /\ UNCHANGED <<main, ci, head, marker, running, modules, lock, faults,
                 reruns, cleared, checked, owed, failed>>

RestartsDone(k) ==
  /\ At(k, "restart")
  /\ worker[k].todo = {}
  /\ Goto(k, "health")
  /\ UNCHANGED <<main, ci, head, marker, progress, running, modules, lock,
                 faults, reruns, history>>

\* verifyHealth of the affected immediate services, all healthy; one without a
\* health endpoint is passed over, and struck off with the others.
HealthPasses(k) ==
  /\ At(k, "health")
  /\ LET verified == worker[k].services \cap Immediate
     IN  /\ progress' = [progress EXCEPT !.pendingHealth = @ \ verified]
         /\ cleared' = cleared \cup verified
         /\ checked' = checked \cup (verified \cap Probed)
  /\ Goto(k, "save")
  /\ UNCHANGED <<main, ci, head, marker, running, modules, lock, faults,
                 reruns, loose, owed, failed>>

\* pm2 save
SaveProcessList(k) ==
  /\ At(k, "save")
  /\ Goto(k, "mark")
  /\ UNCHANGED <<main, ci, head, marker, progress, running, modules, lock,
                 faults, reruns, history>>

\* The marker is written in place: its file is empty first ...
EmptyMarker(k) ==
  /\ At(k, "mark")
  /\ marker' = None
  /\ cleared' = cleared \ worker[k].services
  /\ loose' = loose \cup (worker[k].services \cap {Webhook})
  /\ Goto(k, "marking")
  /\ UNCHANGED <<main, ci, head, progress, running, modules, lock, faults,
                 reruns, checked, owed, failed>>

\* ... then it holds the commit, and the lock is released.
Mark(k) ==
  /\ At(k, "marking")
  /\ marker' = k
  /\ lock' = Release(k)
  /\ loose' = loose \ (worker[k].services \cap {Webhook})
  /\ Goto(k, "notify")
  /\ UNCHANGED <<main, ci, head, progress, running, modules, faults, reruns,
                 cleared, checked, owed, failed>>

-----------------------------------------------------------------------------
(***************************************************************************)
(* After the lock                                                          *)
(***************************************************************************)

\* The deployments a set of dead workers leaves behind.
Kill(dead) ==
  /\ worker' = [k \in Sha |->
       IF k \in dead THEN [worker[k] EXCEPT !.pc = "ended"] ELSE worker[k]]
  /\ lock' = IF lock \in dead THEN Stale ELSE lock

Children == {k \in Sha : worker[k].pc \in Active /\ worker[k].child}

\* Workers whose restart of the webhook is still to come.
OweRestart == {k \in Sha : At(k, "notify") /\ Webhook \in worker[k].services}

\* notifyDeploy is over; nothing was deferred.
EndWorker(k) ==
  /\ At(k, "notify")
  /\ k \notin OweRestart
  /\ Goto(k, "ended")
  /\ UNCHANGED <<main, ci, head, marker, progress, running, modules, lock,
                 faults, reruns, history>>

\* The deferred restart takes every worker the webhook spawned with it.
RestartWebhook(k) ==
  /\ k \in OweRestart
  /\ running' = [running EXCEPT ![Webhook] = head]
  /\ Kill(Children \cup {k})
  /\ loose' = IF head = marker THEN loose \ {Webhook} ELSE loose \cup {Webhook}
  /\ UNCHANGED <<main, ci, head, marker, progress, modules, faults, reruns,
                 cleared, checked, owed, failed>>

-----------------------------------------------------------------------------
(***************************************************************************)
(* Failures                                                                *)
(***************************************************************************)

\* Any step throws: GitHub, git, npm, pm2 or a health check fails, the
\* checkout is dirty, the wait for CI or for the lock times out.
StepFails(k) ==
  /\ worker[k].pc \in Active
  /\ Fault
  /\ Throws(k)

Die(k) ==
  /\ worker[k].pc \in Active
  /\ Fault
  /\ Kill({k})
  /\ loose' = IF k \in OweRestart THEN loose \cup {Webhook} ELSE loose
  /\ UNCHANGED <<main, ci, head, marker, progress, running, modules, reruns,
                 cleared, checked, owed, failed>>

\* A service crashes or outgrows its memory ceiling: PM2 starts it again,
\* from the files the checkout holds by now.
Recycle(s) ==
  /\ Fault
  /\ running' = [running EXCEPT ![s] = head]
  /\ loose' = loose \cup {s}
  /\ IF s = Webhook THEN Kill(Children) \/ UNCHANGED <<worker, lock>>
     ELSE UNCHANGED <<worker, lock>>
  /\ UNCHANGED <<main, ci, head, marker, progress, modules, reruns, cleared,
                 checked, owed, failed>>

Step(k) ==
  \/ CiGreen(k) \/ CiCancelled(k) \/ CiRed(k)
  \/ ObsoleteBeforeLock(k) \/ StillMain(k) \/ AcquireLock(k)
  \/ ObsoleteAfterLock(k) \/ Recheck(k) \/ Plan(k)
  \/ \E p \in Packages : StartInstall(k, p) \/ RecordInstall(k, p)
  \/ FinishInstall(k) \/ InstallsDone(k)
  \/ \E s \in Services : Restart(k, s) \/ RecordRestart(k, s)
  \/ RestartsDone(k) \/ HealthPasses(k) \/ SaveProcessList(k)
  \/ EmptyMarker(k) \/ Mark(k)
  \/ EndWorker(k) \/ RestartWebhook(k)

Next ==
  \/ Push
  \/ \E k \in Sha : \/ CiCompletes(k) \/ Rerun(k) \/ Step(k)
                    \/ StepFails(k) \/ Die(k)
  \/ \E s \in Services : Recycle(s)

Spec == Init /\ [][Next]_vars

\* GitHub completes every CI run and a worker never stops on its own.
FairSpec ==
  Spec /\ \A k \in Sha : WF_vars(CiCompletes(k)) /\ WF_vars(Step(k))

-----------------------------------------------------------------------------
(***************************************************************************)
(* Properties                                                              *)
(***************************************************************************)

WorkerState ==
  [pc : Active \cup {"absent", "ended"}, child : BOOLEAN,
   services : SUBSET Services, pkgs : SUBSET Packages,
   todo : SUBSET Immediate, cur : Services \cup Packages \cup {None},
   base : Sha \cup {None}]

ProgressState ==
  [services : [Services -> Sha \cup {None}],
   installs : [Packages -> Sha \cup {None}],
   pendingHealth : SUBSET Immediate]

TypeOK ==
  /\ main \in Sha /\ head \in Sha /\ marker \in Sha \cup {None}
  /\ ci \in [Sha -> {"pending", "success", "failure", "cancelled"}]
  /\ progress \in ProgressState
  /\ running \in [Services -> Sha]
  /\ modules \in [Packages -> Sha \cup {Missing, Partial}]
  /\ lock \in Sha \cup {Free, Stale}
  /\ worker \in [Sha -> WorkerState]
  /\ faults \in 0 .. MaxFaults
  /\ reruns \in 0 .. MaxReruns
  /\ loose \subseteq Services \cup Packages
  /\ cleared \subseteq Services
  /\ checked \subseteq Services
  /\ owed \subseteq Sha /\ failed \subseteq Sha

\* A service never runs other code than the marked commit's unnoticed: the
\* progress file will have it checked again, or its worker is about to
\* restart it.  Exempt are the windows in which a worker can stop between two
\* writes: after a restart and before its record (loose), after the health
\* check and before the marker (cleared); and, while no marker can be read,
\* what differs in a commit the checkout was moved to (loose).
RunsTheMarkedCode ==
  \A s \in Services \ (loose \cup cleared) :
    \/ ~CodeDiffers(s, running[s], deployedSha)
    \/ s \in progress.pendingHealth
    \/ s = Webhook /\ OweRestart # {}

\* The installed packages are those of the revision on record, or of the
\* marked commit when none is, unless an install was cut short or its record
\* was (or, without a marker, the checkout was moved to other manifests).
InstalledAsRecorded ==
  \A p \in Packages \ loose :
    /\ modules[p] \in Sha
    /\ LET rev == progress.installs[p]
       IN  ~DepsDiffer(p, modules[p], IF rev = None THEN deployedSha ELSE rev)

\* A commit is marked only after every service with a health endpoint that was
\* ever restarted has passed a health check since, also one restarted by an
\* earlier attempt that failed and that this commit no longer touches.
MarkedIsVerified ==
  [][marker' \notin {marker, None} =>
       Probed \cap Immediate \subseteq checked \cup loose]_vars

\* Production never goes back to an older commit, however workers of several
\* pushes wait for each other, and wherever they die.
NeverGoesBack == [][deployedSha' >= deployedSha /\ head' >= head]_vars

\* A commit is not marked as deployed before installation, restart, health
\* verification and pm2 save succeeded: what is marked is what runs.
MarkedIsDeployed ==
  [][marker' \notin {marker, None} =>
       \A s \in Immediate : ~CodeDiffers(s, running[s], marker')]_vars

\* The newer worker remains responsible for publishing: a commit another
\* worker was superseded by is published or superseded in turn, or its
\* failure is announced.
SupersedingIsPublished ==
  \A k \in Sha : k \in owed ~> \/ marker \in k..MaxSha \/ main > k
                               \/ k \in failed
=============================================================================
