---------------------------- MODULE MonitorProofs ----------------------------
(***************************************************************************)
(* Proofs about the services of the monitor that no other proof module     *)
(* has: the watchdog's rollbacks, what the drain and the collector store,  *)
(* whom the notifier tells, what the detectors say, and what the tracker   *)
(* believes of a charger.                                                  *)
(***************************************************************************)
EXTENDS AutoRollback, VercelDrain, LogCollector, PartnerNotifier, Detectors,
        ChargerTracker, TLAPS

-----------------------------------------------------------------------------
(***************************************************************************)
(* The rollback watchdog.                                                  *)
(***************************************************************************)
Ticks == [stage : {"idle", "judge", "alert", "ready", "deliver", "actuate",
                   "issue", "verify"},
          began : Times, seen : Shas, resumed : BOOLEAN]

-----------------------------------------------------------------------------
(***************************************************************************)
(* Types of the values that the steps build                                *)
(***************************************************************************)
LEMMA NoTickType == NoTick \in Ticks
  BY RollbackAssumption DEF NoTick, Ticks, Times, Shas

LEMMA NoFileType == NoFile \in File
  BY RollbackAssumption DEF NoFile, File, NoRequest, Request, Times, Shas, NoTime

LEMMA NoRequestType == NoRequest \in Request
  BY RollbackAssumption DEF NoRequest, Request, Times

LEMMA WatchType ==
  ASSUME NEW s \in File, NEW sha \in Shas, clock \in Times
  PROVE  Watch(s, sha) \in File
  BY NoRequestType DEF Watch, File, Shas

LEMMA PreparedType ==
  ASSUME copy \in File, tick \in Ticks, NEW c \in BOOLEAN
  PROVE  Prepared(c) \in File
<1>1. CASE Stands
  BY <1>1 DEF Prepared
<1>2. CASE ~Stands
  <2> DEFINE asked == [NoRequest EXCEPT !.status = "pending", !.created = tick.began,
                                          !.critical = c]
  <2>1. asked \in Request
    BY NoRequestType DEF Request, Ticks
  <2> HIDE DEF asked
  <2>2. [copy EXCEPT !.reported = NoRelease, !.request = asked] \in File
    BY <2>1 DEF File, Shas
  <2> QED  BY <1>2, <2>2 DEF Prepared, asked
<1> QED  BY <1>1, <1>2

LEMMA GotoType ==
  ASSUME tick \in Ticks, NEW stage \in {"deliver", "actuate", "issue", "verify", "alert",
                                        "ready", "judge"},
         Goto(stage)
  PROVE  tick' \in Ticks
  BY DEF Goto, Ticks

-----------------------------------------------------------------------------
LEMMA RollbackInitTypes == RollbackInit => RollbackTypeOK
  BY NoTickType, NoFileType, RollbackAssumption DEF RollbackInit, RollbackTypeOK, Ticks, Times

\* What is watched or proposed has a release to go back to.
Target(s) == s.start # NoTime \/ s.request.status # "none" => s.prev \in Releases
HasTarget ==
  /\ Target(file) /\ Target(copy)
  /\ tick.stage \in {"ready", "deliver", "actuate", "issue", "verify"} =>
       copy.prev \in Releases

LEMMA TickTypes ==
  ASSUME RollbackTypeOK, HasTarget, TickStep
  PROVE  RollbackTypeOK'
<1> USE DEF World
<1>0. /\ live \in Releases /\ clock \in Times /\ calls \in Nat
      /\ phase \in {"shadow", "approval-required", "catastrophic-auto"}
      /\ file \in File /\ copy \in File /\ tick \in Ticks
      /\ production \in 0 .. MaxProduction
  BY DEF RollbackTypeOK, Ticks
<1>t. SUFFICES /\ live' \in Releases /\ clock' \in Times /\ calls' \in Nat
               /\ phase' \in {"shadow", "approval-required", "catastrophic-auto"}
               /\ file' \in File /\ copy' \in File /\ tick' \in Ticks
               /\ production' \in 0 .. MaxProduction
  BY DEF RollbackTypeOK, Ticks
<1>1. CASE TickBegins
  <2>1. PICK sha \in {live, NoRelease} :
          /\ tick' = [NoTick EXCEPT !.stage = "judge", !.began = clock, !.seen = sha]
          /\ IF sha = NoRelease \/ sha = file.current
               THEN copy' = file /\ UNCHANGED <<file, calls>>
             ELSE IF file.current = NoRelease
               THEN Save([file EXCEPT !.current = sha]) /\ UNCHANGED calls
             ELSE Save(Watch(file, sha)) /\ calls' = 0
    BY <1>1 DEF TickBegins
  <2>2. sha \in Shas
    BY <1>0 DEF Shas
  <2>3. tick' \in Ticks
    BY <1>0, <2>1, <2>2, NoTickType DEF Ticks
  <2>4. [file EXCEPT !.current = sha] \in File
    BY <1>0, <2>2 DEF File
  <2>5. Watch(file, sha) \in File
    BY <1>0, <2>2, WatchType
  <2> QED  BY <1>0, <1>1, <2>1, <2>3, <2>4, <2>5 DEF TickBegins, Save
<1>2. CASE Judge
  <2>1. \/ EndTick \/ Goto("alert")
        \/ \E resumed \in BOOLEAN :
             tick' = [tick EXCEPT !.stage = "ready", !.resumed = resumed]
    <3>1. PICK signal \in {"observe", "investigate", "recommend"} :
            LET resumed == signal = "observe" /\ NeedsAttention
            IN  IF signal = "observe" /\ ~resumed THEN EndTick
                ELSE IF signal = "investigate" \/ tick.seen # copy.new THEN Goto("alert")
                ELSE tick' = [tick EXCEPT !.stage = "ready", !.resumed = resumed]
      BY <1>2 DEF Judge
    <3>2. (signal = "observe" /\ NeedsAttention) \in BOOLEAN
      OBVIOUS
    <3> QED  BY <3>1, <3>2, Zenon
  <2>2. CASE \E resumed \in BOOLEAN :
               tick' = [tick EXCEPT !.stage = "ready", !.resumed = resumed]
    <3>1. tick' \in Ticks
      BY <1>0, <2>2 DEF Ticks
    <3> QED  BY <1>0, <1>2, <3>1 DEF Judge
  <2>3. CASE EndTick \/ Goto("alert")
    <3>1. tick' \in Ticks
      BY <1>0, <2>3, NoTickType, GotoType DEF EndTick
    <3> QED  BY <1>0, <1>2, <3>1 DEF Judge
  <2> QED  BY <2>1, <2>2, <2>3
<1>3. CASE BlockedAlert
  BY <1>0, <1>3, NoTickType DEF BlockedAlert, EndTick
<1>4. CASE NotReady
  BY <1>0, <1>4, GotoType DEF NotReady, Ready
<1>5. CASE DirectPermitted
  BY <1>0, <1>5, GotoType DEF DirectPermitted, Ready
<1>6. CASE ShadowReport
  <2>1. [copy EXCEPT !.reported = copy.new] \in File
    BY <1>0 DEF File
  <2> QED  BY <1>0, <1>6, <2>1, NoTickType DEF ShadowReport, Ready, Save, EndTick
<1>7. CASE ConsumeConfirmation
  <2>1. [copy EXCEPT !.request.status = "consumed", !.request.confirmed = FALSE] \in File
    BY <1>0 DEF File, Request
  <2> QED  BY <1>0, <1>7, <2>1, GotoType DEF ConsumeConfirmation, Ready, Save
<1>8. CASE \E c \in BOOLEAN : ProposeRollback(c)
  <2>1. PICK c \in BOOLEAN : ProposeRollback(c)
    BY <1>8
  <2>2. Prepared(c) \in File
    BY <1>0, PreparedType
  <2>3. tick' \in Ticks
    BY <1>0, <2>1, NoTickType, GotoType DEF ProposeRollback, EndTick
  <2> QED  BY <1>0, <2>1, <2>2, <2>3 DEF ProposeRollback, Ready
<1>9. CASE DeliverProposal
  <2>1. PICK message \in {"none", "waiting", "sent"} :
          Save([copy EXCEPT !.request.message = message,
                  !.reported = IF message = "sent" THEN copy.new ELSE @])
    BY <1>9 DEF DeliverProposal
  <2>2. [copy EXCEPT !.request.message = message,
            !.reported = IF message = "sent" THEN copy.new ELSE @] \in File
    BY <1>0 DEF File, Request
  <2> QED  BY <1>0, <1>9, <2>1, <2>2, NoTickType DEF DeliverProposal, Save, EndTick
<1>10. CASE ActuateRefused
  BY <1>0, <1>10, NoTickType DEF ActuateRefused, EndTick
<1>11. CASE Actuate
  <2>1. [copy EXCEPT !.acted = copy.new, !.action = clock] \in File
    BY <1>0 DEF File
  <2> QED  BY <1>0, <1>11, <2>1, GotoType DEF Actuate, Save
<1>12. CASE Issue
  <2>1. live' \in Releases
    BY <1>0, <1>12 DEF Issue, At, HasTarget
  <2> QED  BY <1>0, <1>12, <2>1, NoTickType, GotoType DEF Issue, Save, EndTick
<1>13. CASE Verify
  BY <1>0, <1>13, NoTickType DEF Verify, Save, EndTick
<1> QED
  BY <1>1, <1>2, <1>3, <1>4, <1>5, <1>6, <1>7, <1>8, <1>9, <1>10, <1>11, <1>12, <1>13
     DEF TickStep

LEMMA JudgeGoes ==
  ASSUME RollbackTypeOK, Judge
  PROVE  /\ tick'.stage \in {"idle", "alert", "ready"}
         /\ tick'.stage = "ready" => InWindow \/ NeedsAttention
<1>0. tick \in Ticks
  BY DEF RollbackTypeOK, Ticks
<1>1. PICK signal \in IF InWindow THEN {"observe", "investigate", "recommend"}
                       ELSE {"observe"} :
        IF signal = "observe" /\ ~(signal = "observe" /\ NeedsAttention) THEN EndTick
        ELSE IF signal = "investigate" \/ tick.seen # copy.new THEN Goto("alert")
        ELSE tick' = [tick EXCEPT !.stage = "ready",
                        !.resumed = signal = "observe" /\ NeedsAttention]
  BY Zenon DEF Judge
<1>2. EndTick => tick'.stage = "idle"
  BY DEF EndTick, NoTick
<1>3. Goto("alert") => tick'.stage = "alert"
  BY <1>0 DEF Goto, Ticks
<1>4. tick' = [tick EXCEPT !.stage = "ready",
                 !.resumed = signal = "observe" /\ NeedsAttention]
        => tick'.stage = "ready"
  BY <1>0 DEF Ticks
<1>5. signal # "observe" => InWindow
  BY <1>1
<1> QED  BY <1>1, <1>2, <1>3, <1>4, <1>5

LEMMA TickTargets ==
  ASSUME RollbackTypeOK, HasTarget, TickStep
  PROVE  HasTarget'
<1>0. file \in File /\ copy \in File /\ tick \in Ticks /\ live \in Releases
  BY DEF RollbackTypeOK, Ticks
<1> USE DEF World, At
<1>1. CASE TickBegins
  <2>1. PICK sha \in {live, NoRelease} :
          /\ tick' = [NoTick EXCEPT !.stage = "judge", !.began = clock, !.seen = sha]
          /\ IF sha = NoRelease \/ sha = file.current
               THEN copy' = file /\ UNCHANGED <<file, calls>>
             ELSE IF file.current = NoRelease
               THEN Save([file EXCEPT !.current = sha]) /\ UNCHANGED calls
             ELSE Save(Watch(file, sha)) /\ calls' = 0
    BY <1>1 DEF TickBegins
  <2>2. tick'.stage = "judge"
    BY <2>1 DEF NoTick
  <2>3. Target([file EXCEPT !.current = sha])
    BY <1>0 DEF HasTarget, Target, File
  <2>4. file.current # NoRelease => Target(Watch(file, sha))
    BY <1>0 DEF Target, Watch, File, Shas
  <2>5. Target(file)' /\ Target(copy)'
    BY <2>1, <2>3, <2>4 DEF HasTarget, Target, Save
  <2> QED  BY <2>2, <2>5 DEF HasTarget
<1>2. CASE Judge
  <2>1. UNCHANGED <<file, copy>>
    BY <1>2 DEF Judge
  <2>2. InWindow \/ NeedsAttention => copy.prev \in Releases
    BY <1>0 DEF InWindow, NeedsAttention, Resumable, HasTarget, Target
  <2> QED  BY <1>2, <2>1, <2>2, JudgeGoes DEF HasTarget, Target
<1>3. CASE BlockedAlert
  BY <1>0, <1>3 DEF BlockedAlert, EndTick, NoTick, HasTarget, Target
<1>4. CASE NotReady
  BY <1>0, <1>4 DEF NotReady, Ready, Goto, Ticks, HasTarget, Target
<1>5. CASE DirectPermitted
  BY <1>0, <1>5 DEF DirectPermitted, Ready, Goto, Ticks, HasTarget, Target
<1>6. CASE ShadowReport
  BY <1>0, <1>6 DEF ShadowReport, Ready, Save, EndTick, NoTick, File, HasTarget, Target
<1>7. CASE ConsumeConfirmation
  <2>1. copy.prev \in Releases
    BY <1>7 DEF ConsumeConfirmation, Ready, HasTarget
  <2>2. copy'.prev = copy.prev /\ file' = copy'
    BY <1>0, <1>7 DEF ConsumeConfirmation, Save, File, Request
  <2> QED  BY <2>1, <2>2 DEF HasTarget, Target
<1>8. CASE \E c \in BOOLEAN : ProposeRollback(c)
  <2>1. PICK c \in BOOLEAN : ProposeRollback(c)
    BY <1>8
  <2>2. copy.prev \in Releases
    BY <2>1 DEF ProposeRollback, Ready, HasTarget
  <2>3. Prepared(c).prev = copy.prev
    BY <1>0 DEF Prepared, File
  <2>4. copy'.prev = copy.prev /\ file' \in {file, copy'}
    BY <2>1, <2>3 DEF ProposeRollback
  <2> QED  BY <2>2, <2>4 DEF HasTarget, Target
<1>9. CASE DeliverProposal
  <2>1. copy.prev \in Releases
    BY <1>9 DEF DeliverProposal, HasTarget
  <2>2. copy'.prev = copy.prev /\ file' = copy'
    BY <1>0, <1>9 DEF DeliverProposal, Save, File, Request
  <2> QED  BY <2>1, <2>2 DEF HasTarget, Target
<1>10. CASE ActuateRefused
  BY <1>10 DEF ActuateRefused, EndTick, NoTick, HasTarget, Target
<1>11. CASE Actuate
  <2>1. copy.prev \in Releases
    BY <1>11 DEF Actuate, HasTarget
  <2>2. copy'.prev = copy.prev /\ file' = copy'
    BY <1>0, <1>11 DEF Actuate, Save, File
  <2> QED  BY <2>1, <2>2 DEF HasTarget, Target
<1>12. CASE Issue
  BY <1>12 DEF Issue, Save, Goto, HasTarget, Target
<1>13. CASE Verify
  BY <1>13 DEF Verify, Save, HasTarget, Target
<1> QED
  BY <1>1, <1>2, <1>3, <1>4, <1>5, <1>6, <1>7, <1>8, <1>9, <1>10, <1>11, <1>12, <1>13
     DEF TickStep

-----------------------------------------------------------------------------
\* Vercel has been asked only if the file says so, a tick that is under way
\* agrees with the file about it, and asks only where nobody has.
Recorded ==
  /\ calls <= 1
  /\ calls > 0 => file.acted = file.new
  /\ tick.stage # "idle" => copy.acted = file.acted /\ copy.new = file.new
  /\ tick.stage = "issue" => calls = 0 /\ file.acted = file.new

LEMMA TickRecords ==
  ASSUME RollbackTypeOK, Recorded, TickStep
  PROVE  Recorded'
<1>0. file \in File /\ copy \in File /\ tick \in Ticks /\ calls \in Nat
  BY DEF RollbackTypeOK, Ticks
<1> USE DEF World, At
<1>1. CASE TickBegins
  <2>1. tick'.stage = "judge"
    BY <1>1 DEF TickBegins, NoTick
  <2>2. PICK sha \in {live, NoRelease} :
          \/ copy' = file /\ UNCHANGED <<file, calls>>
          \/ Save([file EXCEPT !.current = sha]) /\ UNCHANGED calls
          \/ Save(Watch(file, sha)) /\ calls' = 0
    BY <1>1 DEF TickBegins
  <2>3. CASE copy' = file /\ UNCHANGED <<file, calls>>
    BY <2>1, <2>3 DEF Recorded
  <2>4. CASE Save([file EXCEPT !.current = sha]) /\ UNCHANGED calls
    <3>1. file' = copy' /\ file'.acted = file.acted /\ file'.new = file.new
      BY <1>0, <2>4 DEF Save, File
    <3> QED  BY <2>1, <2>4, <3>1 DEF Recorded
  <2>5. CASE Save(Watch(file, sha)) /\ calls' = 0
    BY <2>1, <2>5 DEF Save, Recorded
  <2> QED  BY <2>2, <2>3, <2>4, <2>5
<1>2. CASE Judge
  <2>1. UNCHANGED <<file, copy, calls>> /\ tick.stage # "idle"
    BY <1>2 DEF Judge
  <2> QED  BY <1>2, <2>1, JudgeGoes DEF Recorded
<1>3. CASE BlockedAlert
  BY <1>0, <1>3 DEF BlockedAlert, EndTick, NoTick, Recorded
<1>4. CASE NotReady
  BY <1>0, <1>4 DEF NotReady, Ready, Goto, Ticks, Recorded
<1>5. CASE DirectPermitted
  BY <1>0, <1>5 DEF DirectPermitted, Ready, Goto, Ticks, Recorded
<1>6. CASE ShadowReport
  BY <1>0, <1>6 DEF ShadowReport, Ready, Save, EndTick, NoTick, File, Recorded
<1>7. CASE ConsumeConfirmation
  <2>1. /\ file' = copy' /\ copy'.acted = copy.acted /\ copy'.new = copy.new
        /\ UNCHANGED calls /\ tick.stage # "idle" /\ tick'.stage = "actuate"
    BY <1>0, <1>7 DEF ConsumeConfirmation, Ready, Save, Goto, File, Request, Ticks
  <2> QED  BY <2>1 DEF Recorded
<1>8. CASE \E c \in BOOLEAN : ProposeRollback(c)
  <2>1. PICK c \in BOOLEAN : ProposeRollback(c)
    BY <1>8
  <2>2. Prepared(c).acted = copy.acted /\ Prepared(c).new = copy.new
    BY <1>0 DEF Prepared, File
  <2>3. tick'.stage \in {"idle", "deliver"}
    BY <1>0, <2>1 DEF ProposeRollback, EndTick, NoTick, Goto, Ticks
  <2>4. /\ file' \in {file, copy'} /\ copy' = Prepared(c)
        /\ UNCHANGED calls /\ tick.stage # "idle"
    BY <2>1 DEF ProposeRollback, Ready
  <2> QED  BY <2>2, <2>3, <2>4 DEF Recorded
<1>9. CASE DeliverProposal
  <2>1. /\ file' = copy' /\ copy'.acted = copy.acted /\ copy'.new = copy.new
        /\ UNCHANGED calls /\ tick.stage # "idle" /\ tick'.stage = "idle"
    BY <1>0, <1>9 DEF DeliverProposal, Save, File, Request, EndTick, NoTick
  <2> QED  BY <2>1 DEF Recorded
<1>10. CASE ActuateRefused
  BY <1>10 DEF ActuateRefused, EndTick, NoTick, Recorded
<1>11. CASE Actuate
  <2>1. /\ file' = copy' /\ copy'.acted = copy.new /\ copy'.new = copy.new
        /\ UNCHANGED calls /\ tick.stage # "idle" /\ copy.acted # copy.new
    BY <1>0, <1>11 DEF Actuate, Acted, Save, File
  <2>2. calls = 0
    BY <1>0, <2>1 DEF Recorded
  <2> QED  BY <2>1, <2>2 DEF Recorded
<1>12. CASE Issue
  <2>1. /\ calls' = calls + 1 /\ calls = 0 /\ copy' = copy
        /\ file' \in {file, copy} /\ tick'.stage \in {"idle", "verify"}
        /\ copy.acted = file.acted /\ copy.new = file.new /\ file.acted = file.new
    BY <1>0, <1>12 DEF Issue, Save, Goto, EndTick, NoTick, Ticks, Recorded
  <2> QED  BY <2>1 DEF Recorded
<1>13. CASE Verify
  BY <1>13 DEF Verify, Save, EndTick, NoTick, Recorded
<1> QED
  BY <1>1, <1>2, <1>3, <1>4, <1>5, <1>6, <1>7, <1>8, <1>9, <1>10, <1>11, <1>12, <1>13
     DEF TickStep

-----------------------------------------------------------------------------
(***************************************************************************)
(* What happens beside the tick: the ingress, other releases, time, pm2    *)
(***************************************************************************)
Beside == Confirm \/ Deploy \/ ClockTicks \/ RollbackRestart

RollbackIInv == RollbackTypeOK /\ HasTarget /\ Recorded

LEMMA BesideKeeps ==
  ASSUME RollbackIInv, Beside
  PROVE  RollbackIInv'
<1>0. file \in File /\ copy \in File /\ tick \in Ticks /\ clock \in Times
  BY DEF RollbackIInv, RollbackTypeOK, Ticks
<1> USE DEF World
<1>1. CASE Confirm
  <2>1. /\ file' \in File /\ file'.start = file.start /\ file'.prev = file.prev
        /\ file'.acted = file.acted /\ file'.new = file.new
        /\ file'.request.status = file.request.status
    BY <1>0, <1>1 DEF Confirm, File, Request
  <2>2. UNCHANGED <<copy, tick, calls, World>>
    BY <1>1 DEF Confirm
  <2> QED  BY <2>1, <2>2 DEF RollbackIInv, RollbackTypeOK, HasTarget, Target, Recorded
<1>2. CASE Deploy
  BY <1>2, RollbackAssumption
     DEF Deploy, RollbackIInv, RollbackTypeOK, HasTarget, Target, Recorded
<1>3. CASE ClockTicks
  BY <1>0, <1>3, RollbackAssumption
     DEF ClockTicks, Times, RollbackIInv, RollbackTypeOK, HasTarget, Target, Recorded
<1>4. CASE RollbackRestart
  <2>1. tick' \in Ticks /\ tick'.stage = "idle"
    BY <1>4, NoTickType DEF RollbackRestart, NoTick
  <2> QED
    BY <1>0, <1>4, <2>1
       DEF RollbackRestart, RollbackIInv, RollbackTypeOK, Ticks, HasTarget, Target, Recorded
<1> QED  BY <1>1, <1>2, <1>3, <1>4 DEF Beside

LEMMA RollbackInvariant == RollbackSpec => []RollbackIInv
<1>1. RollbackInit => RollbackIInv
  <2>1. RollbackInit => HasTarget /\ Recorded
    BY RollbackAssumption
       DEF RollbackInit, HasTarget, Target, Recorded, NoFile, NoRequest, NoTick
  <2> QED  BY <2>1, RollbackInitTypes DEF RollbackIInv
<1>2. RollbackIInv /\ [RollbackStep \/ RollbackRestart]_rollbackVars => RollbackIInv'
  <2>1. RollbackIInv /\ TickStep => RollbackIInv'
    BY TickTypes, TickTargets, TickRecords DEF RollbackIInv
  <2>2. RollbackIInv /\ Beside => RollbackIInv'
    BY BesideKeeps
  <2>3. RollbackIInv /\ UNCHANGED rollbackVars => RollbackIInv'
    BY DEF rollbackVars, RollbackIInv, RollbackTypeOK, HasTarget, Target, Recorded
  <2> QED  BY <2>1, <2>2, <2>3 DEF RollbackStep, Beside
<1> QED  BY <1>1, <1>2, PTL DEF RollbackSpec

\* The state file, the copy and the tick keep their types.
THEOREM RollbackTypeCorrect == RollbackSpec => []RollbackTypeOK
<1>1. RollbackIInv => RollbackTypeOK
  BY DEF RollbackIInv
<1> QED  BY <1>1, RollbackInvariant, PTL

\* While a release is watched Vercel is asked at most once to roll it back, for
\* any releases, times to live and windows, however often the process dies.
THEOREM OneAttemptPerWatchHolds == RollbackSpec => []OneAttemptPerWatch
<1>1. RollbackIInv => OneAttemptPerWatch
  BY DEF RollbackIInv, Recorded, OneAttemptPerWatch
<1> QED  BY <1>1, RollbackInvariant, PTL

-----------------------------------------------------------------------------
(***************************************************************************)
(* The Vercel drain.                                                       *)
(***************************************************************************)
LEMMA DrainInitTypes == DrainInit => DrainTypeOK
  BY DrainAssumption DEF DrainInit, DrainTypeOK, Wires

LEMMA StoredTypes ==
  ASSUME DrainTypeOK, NEW S
  PROVE  LogsWith(S) \in [Entries -> Nat] /\ CountedWith(S) \in [Entries -> Nat]
  BY DEF DrainTypeOK, LogsWith, CountedWith

LEMMA StepTypes ==
  ASSUME DrainTypeOK, DrainStep
  PROVE  DrainTypeOK'
<1>1. PICK b \in Batches : Post(b) \/ HandleRequest(b) \/ ResponseArrives(b)
  BY DEF DrainStep
<1>2. CASE Post(b)
  BY <1>2, DrainAssumption DEF Post, DrainTypeOK, Wires
<1>3. CASE HandleRequest(b)
  <2>1. logs' \in [Entries -> Nat] /\ counted' \in [Entries -> Nat]
    BY <1>3, StoredTypes DEF HandleRequest, Stored, Refused, DrainTypeOK
  <2>2. wire' \in [Batches -> Wires]
    BY <1>3 DEF HandleRequest, Stored, Refused, DrainTypeOK, Wires
  <2> QED  BY <1>3, <2>1, <2>2 DEF HandleRequest, DrainTypeOK
<1>4. CASE ResponseArrives(b)
  BY <1>4 DEF ResponseArrives, DrainTypeOK, Wires
<1> QED  BY <1>1, <1>2, <1>3, <1>4

LEMMA RestartTypes ==
  ASSUME DrainTypeOK, DrainRestart
  PROVE  DrainTypeOK'
  BY DEF DrainRestart, DrainTypeOK, Wires

\* The tables, the requests and what Vercel knows keep their types.
THEOREM DrainTypeCorrect == DrainSpec => []DrainTypeOK
<1>1. DrainTypeOK /\ [DrainStep \/ DrainRestart]_drainVars => DrainTypeOK'
  <2>1. DrainTypeOK /\ UNCHANGED drainVars => DrainTypeOK'
    BY DEF DrainTypeOK, drainVars
  <2> QED  BY <2>1, StepTypes, RestartTypes
<1> QED  BY <1>1, DrainInitTypes, PTL DEF DrainSpec

-----------------------------------------------------------------------------
\* What Vercel knows to be stored, or is being told so, is in the table.
AnsweredIsStored ==
  \A b \in Batches : wire[b] \in {"ok", "done"} => \A e \in Recordable(b) : Traced(e)

LEMMA TracesGrow ==
  ASSUME DrainTypeOK, NEW S, NEW e \in Entries, UNCHANGED kind,
         logs' = LogsWith(S), counted' = CountedWith(S), Traced(e) \/ e \in S
  PROVE  Traced(e)'
  BY DEF DrainTypeOK, LogsWith, CountedWith, Traced

LEMMA StepStores ==
  ASSUME DrainTypeOK, AnsweredIsStored, DrainStep
  PROVE  AnsweredIsStored'
<1>1. PICK c \in Batches : Post(c) \/ HandleRequest(c) \/ ResponseArrives(c)
  BY DEF DrainStep
<1>2. UNCHANGED <<kind, content>>
  BY <1>1 DEF Post, HandleRequest, ResponseArrives
<1>3. \A b \in Batches : Recordable(b)' = Recordable(b) /\ Recordable(b) \subseteq Entries
  BY <1>2 DEF Recordable, DrainTypeOK
<1>4. CASE Post(c)
  BY <1>2, <1>3, <1>4 DEF Post, AnsweredIsStored, Traced, DrainTypeOK
<1>5. CASE HandleRequest(c)
  <2>1. CASE Stored(c)
    <3>1. \A e \in Entries : Traced(e) \/ e \in Recordable(c) => Traced(e)'
      BY <1>2, <2>1, TracesGrow DEF Stored
    <3>2. \A b \in Batches : wire'[b] \in {"ok", "done"} =>
            b = c \/ wire[b] \in {"ok", "done"}
      BY <2>1 DEF Stored, DrainTypeOK
    <3> QED  BY <1>3, <3>1, <3>2 DEF AnsweredIsStored
  <2>2. CASE Refused(c)
    BY <1>2, <1>3, <2>2 DEF Refused, AnsweredIsStored, Traced, DrainTypeOK
  <2> QED  BY <1>5, <2>1, <2>2 DEF HandleRequest
<1>6. CASE ResponseArrives(c)
  BY <1>2, <1>3, <1>6 DEF ResponseArrives, AnsweredIsStored, Traced, DrainTypeOK
<1> QED  BY <1>1, <1>4, <1>5, <1>6

LEMMA RestartStores ==
  ASSUME AnsweredIsStored, DrainRestart
  PROVE  AnsweredIsStored'
<1>1. \A b \in Batches : Recordable(b)' = Recordable(b)
  BY DEF DrainRestart, Recordable
<1> QED  BY <1>1 DEF DrainRestart, AnsweredIsStored, Traced

\* Vercel never takes a batch for delivered that is not in the table, for any
\* batches and any number of posts, lost answers, locks and restarts.
THEOREM AckedIsStoredHolds == DrainSpec => []AckedIsStored
<1> DEFINE DrainIInv == DrainTypeOK /\ AnsweredIsStored
<1>1. DrainInit => DrainIInv
  <2>1. DrainInit => AnsweredIsStored
    BY DEF DrainInit, AnsweredIsStored
  <2> QED  BY <2>1, DrainInitTypes
<1>2. DrainIInv /\ [DrainStep \/ DrainRestart]_drainVars => DrainIInv'
  <2>1. DrainIInv /\ UNCHANGED drainVars => DrainIInv'
    BY DEF DrainTypeOK, AnsweredIsStored, Recordable, Traced, drainVars
  <2> QED  BY <2>1, StepTypes, RestartTypes, StepStores, RestartStores
<1>3. DrainIInv => AckedIsStored
  BY DEF AnsweredIsStored, AckedIsStored
<1> QED  BY <1>1, <1>2, <1>3, PTL DEF DrainSpec

-----------------------------------------------------------------------------
LEMMA StepCounts ==
  ASSUME DrainTypeOK, CountedTogether, DrainStep
  PROVE  CountedTogether'
<1>1. PICK c \in Batches : Post(c) \/ HandleRequest(c) \/ ResponseArrives(c)
  BY DEF DrainStep
<1>2. UNCHANGED <<kind, content>>
  BY <1>1 DEF Post, HandleRequest, ResponseArrives
<1>3. \A b \in Batches : Recordable(b)' = Recordable(b)
  BY <1>2 DEF Recordable
<1>4. CASE counted' = counted
  BY <1>3, <1>4 DEF CountedTogether
<1>5. CASE counted' = CountedWith(Recordable(c))
  <2> SUFFICES ASSUME NEW e \in Entries, NEW f \in Entries,
                      \A b \in Batches : e \in Recordable(b) <=> f \in Recordable(b)
               PROVE  counted'[e] = counted'[f]
    BY <1>3 DEF CountedTogether
  <2>1. counted[e] = counted[f]
    BY DEF CountedTogether
  <2>2. e \in Recordable(c) <=> f \in Recordable(c)
    OBVIOUS
  <2> QED  BY <1>5, <2>1, <2>2 DEF CountedWith
<1> QED  BY <1>1, <1>4, <1>5 DEF Post, HandleRequest, Stored, Refused, ResponseArrives

\* Counters drift by whole payloads only: entries of the same batches have been
\* counted as often as each other, whatever attempts were refused or repeated.
THEOREM CountedTogetherHolds == DrainSpec => []CountedTogether
<1>1. DrainInit => CountedTogether
  BY DEF DrainInit, CountedTogether
<1>2. DrainTypeOK /\ CountedTogether /\ [DrainStep \/ DrainRestart]_drainVars
        => CountedTogether'
  <2>1. CountedTogether /\ (UNCHANGED drainVars \/ DrainRestart) => CountedTogether'
    BY DEF CountedTogether, Recordable, drainVars, DrainRestart
  <2> QED  BY <2>1, StepCounts
<1> QED  BY <1>1, <1>2, DrainTypeCorrect, PTL DEF DrainSpec

-----------------------------------------------------------------------------
(***************************************************************************)
(* The OCPP collector.                                                     *)
(***************************************************************************)
Counts == [Tables -> [LogEntries -> Nat]]

CollectorIInv ==
  /\ table \in Counts /\ buffer \in Counts /\ seen \in Counts
  /\ StoredAsProcessed

LEMMA CountedMore ==
  ASSUME NEW f \in Counts, NEW S
  PROVE  /\ Counted(f, S) \in Counts
         /\ \A k \in Tables, e \in LogEntries :
              Counted(f, S)[k][e] = IF e \in S /\ k \in KindsOf(e) THEN f[k][e] + 1 ELSE f[k][e]
  BY DEF Counts, Counted

LEMMA ProcessedKeeps ==
  ASSUME CollectorIInv, NEW S, Processed(S)
  PROVE  CollectorIInv'
<1>1. /\ table' = table /\ table \in Counts
      /\ buffer' = Counted(buffer, S) /\ seen' = Counted(seen, S)
      /\ buffer' \in Counts /\ seen' \in Counts
  BY CountedMore DEF CollectorIInv, Processed
<1>2. ASSUME NEW k \in Tables, NEW e \in LogEntries
      PROVE  table'[k][e] + buffer'[k][e] = seen'[k][e]
  <2>1. table[k][e] \in Nat /\ buffer[k][e] \in Nat /\ seen[k][e] \in Nat
        /\ table[k][e] + buffer[k][e] = seen[k][e]
    BY DEF CollectorIInv, Counts, StoredAsProcessed
  <2>2. /\ buffer'[k][e] = IF e \in S /\ k \in KindsOf(e) THEN buffer[k][e] + 1
                                                          ELSE buffer[k][e]
        /\ seen'[k][e] = IF e \in S /\ k \in KindsOf(e) THEN seen[k][e] + 1
                                                        ELSE seen[k][e]
    BY <1>1, CountedMore DEF CollectorIInv
  <2> QED  BY <1>1, <2>1, <2>2
<1> QED  BY <1>1, <1>2 DEF CollectorIInv, StoredAsProcessed

\* A transaction moves the rows of a buffer into its table, or neither changes.
LEMMA FlushKeeps ==
  ASSUME CollectorIInv, NEW failing \in Failures, Flush(failing)
  PROVE  CollectorIInv'
<1>1. /\ table \in Counts /\ buffer \in Counts /\ seen \in Counts /\ seen' = seen
      /\ table' = [k \in Tables |-> IF k \in WrittenBefore(failing)
                                   THEN Sum(table[k], buffer[k]) ELSE table[k]]
      /\ buffer' = [k \in Tables |-> IF k \in WrittenBefore(failing)
                                    THEN Empty[k] ELSE buffer[k]]
  BY DEF CollectorIInv, Flush, Cleared
<1>2. ASSUME NEW k \in Tables
      PROVE  /\ table'[k] \in [LogEntries -> Nat] /\ buffer'[k] \in [LogEntries -> Nat]
             /\ \A e \in LogEntries :
                  table'[k][e] + buffer'[k][e] = table[k][e] + buffer[k][e]
  <2>1. table[k] \in [LogEntries -> Nat] /\ buffer[k] \in [LogEntries -> Nat]
    BY <1>1 DEF Counts
  <2>2. CASE k \in WrittenBefore(failing)
    <3>1. table'[k] = Sum(table[k], buffer[k]) /\ buffer'[k] = [e \in LogEntries |-> 0]
      BY <1>1, <2>2 DEF Empty
    <3> QED  BY <2>1, <3>1 DEF Sum
  <2>3. CASE k \notin WrittenBefore(failing)
    <3>1. table'[k] = table[k] /\ buffer'[k] = buffer[k]
      BY <1>1, <2>3
    <3> QED  BY <2>1, <3>1
  <2> QED  BY <2>2, <2>3
<1>3. table' \in Counts /\ buffer' \in Counts
  BY <1>1, <1>2 DEF Counts
<1> QED  BY <1>1, <1>2, <1>3 DEF CollectorIInv, StoredAsProcessed

\* What the process starts again with is in the tables.
LEMMA StartsAgainKeeps ==
  ASSUME CollectorIInv, LogRestart
  PROVE  CollectorIInv'
<1>1. /\ table \in Counts /\ buffer \in Counts
      /\ buffer' = Empty /\ seen' = table'
  BY DEF CollectorIInv, LogRestart, CollectorKilled, Stopped, StartsAgain
<1>2. table' \in Counts
  <2>1. CASE table' = table
    BY <1>1, <2>1
  <2>2. ASSUME NEW failing,
               table' = [k \in Tables |-> IF k \in WrittenBefore(failing)
                                         THEN Sum(table[k], buffer[k]) ELSE table[k]]
        PROVE  table' \in Counts
    <3>1. \A k \in Tables : Sum(table[k], buffer[k]) \in [LogEntries -> Nat]
                         /\ table[k] \in [LogEntries -> Nat]
      BY <1>1 DEF Counts, Sum
    <3> QED  BY <2>2, <3>1 DEF Counts
  <2> QED  BY <2>1, <2>2 DEF LogRestart, CollectorKilled, Stopped
<1>3. buffer' \in Counts /\ \A k \in Tables, e \in LogEntries : buffer'[k][e] = 0
  BY <1>1 DEF Empty, Counts
<1>4. \A k \in Tables, e \in LogEntries : table'[k][e] \in Nat
  BY <1>2 DEF Counts
<1> QED  BY <1>1, <1>2, <1>3, <1>4 DEF CollectorIInv, StoredAsProcessed

\* A processed entry is in the buffer or in the table, never in both and never in
\* neither, whichever of the two transactions throws and however often the process
\* is stopped or killed.
THEOREM StoredAsProcessedHolds == LogSpec => []StoredAsProcessed
<1>1. LogInit => CollectorIInv
  <2> SUFFICES ASSUME LogInit PROVE CollectorIInv
    OBVIOUS
  <2>1. Empty \in Counts /\ \A k \in Tables, e \in LogEntries : Empty[k][e] = 0
    BY DEF Empty, Counts
  <2> QED  BY <2>1 DEF LogInit, CollectorIInv, StoredAsProcessed
<1>2. CollectorIInv /\ [LogStep \/ LogRestart]_logVars => CollectorIInv'
  <2> SUFFICES ASSUME CollectorIInv, [LogStep \/ LogRestart]_logVars PROVE CollectorIInv'
    OBVIOUS
  <2>1. CASE UNCHANGED <<buffer, table, seen>>
    BY <2>1 DEF CollectorIInv, StoredAsProcessed
  <2>2. CASE \E S : Processed(S)
    BY <2>2, ProcessedKeeps
  <2>3. CASE LogStep
    <3>1. \/ UNCHANGED <<buffer, table, seen>>
          \/ \E S : Processed(S)
          \/ \E failing \in Failures : Flush(failing)
      BY <2>3 DEF LogStep, Logs, SocketOpens, SocketCloses, SocketDelivers, PollStarts,
                  Served, PollAnswered, PollFails, FallsQuiet, KeyExpires
    <3> QED  BY <2>1, <2>2, <3>1, FlushKeeps
  <2> QED  BY <2>1, <2>3, StartsAgainKeeps DEF logVars
<1>3. CollectorIInv => StoredAsProcessed
  BY DEF CollectorIInv
<1> QED  BY <1>1, <1>2, <1>3, PTL DEF LogSpec

-----------------------------------------------------------------------------
(***************************************************************************)
(* The partner notifier.                                                   *)
(***************************************************************************)
Notices == [case : Cases, asked : Nat, at : Nat, known : BOOLEAN]

\* Of every notice known to be sent the record is as old or younger.
Remembers(record, notices) ==
  /\ DOMAIN record \subseteq Cases /\ \A c \in DOMAIN record : record[c] \in Nat
  /\ \A a \in notices : a.known => a.case \in DOMAIN record /\ a.at <= record[a.case]

\* What is asked at hour t of case c does not come too early after a known notice.
NotEarly(c, t) ==
  \A a \in told : a.known /\ a.case = c /\ a.at < t => a.at + NoticeWindow <= t

NotifierIInv ==
  /\ hour \in Nat /\ told \subseteq Notices
  /\ call \in [Calls -> [case : Cases \union {NoCase}, asked : Nat,
                         at : {"idle", "resolve", "post"}]]
  /\ \A p \in Calls : /\ call[p].at # "idle" => call[p].case \in Cases
                      /\ call[p].asked <= hour /\ NotEarly(call[p].case, call[p].asked)
  /\ \A a \in told : a.asked <= a.at /\ a.at <= hour
  /\ Remembers(lastNotice, told) /\ Remembers(noticeFile, told)
  /\ ToldOncePerWindow

CallRecord == [case : Cases \union {NoCase}, asked : Nat, at : {"idle", "resolve", "post"}]

CallFits(p) ==
  /\ call[p].at # "idle" => call[p].case \in Cases
  /\ call[p].asked <= hour /\ NotEarly(call[p].case, call[p].asked)

\* A call goes from one stage to the next, or ends, and nothing is sent.
LEMMA CallGoesOn ==
  ASSUME NotifierIInv, NEW p \in Calls, UNCHANGED <<hour, told, lastNotice, noticeFile>>,
         NEW k \in CallRecord, call' = [call EXCEPT ![p] = k],
         k.at # "idle" => k.case \in Cases, k.asked <= hour, NotEarly(k.case, k.asked)
  PROVE  NotifierIInv'
<1>1. /\ call' \in [Calls -> CallRecord] /\ call'[p] = k
      /\ \A q \in Calls \ {p} : call'[q] = call[q]
  BY DEF NotifierIInv, CallRecord
<1>2. \A q \in Calls : CallFits(q)'
  BY <1>1 DEF NotifierIInv, CallFits, NotEarly
<1> QED
  BY <1>1, <1>2
     DEF NotifierIInv, CallFits, CallRecord, Remembers, ToldOncePerWindow

LEMMA NoCallFits ==
  ASSUME NotifierIInv
  PROVE  /\ NoCall \in CallRecord /\ NoCall.at = "idle" /\ NoCall.asked <= hour
         /\ NotEarly(NoCall.case, NoCall.asked) /\ NoCall.asked = 0
  BY DEF NotifierIInv, NoCall, CallRecord, NotEarly, Notices

LEMMA NotifyKeeps ==
  ASSUME NotifierIInv, NEW p \in Calls, NEW c \in Cases, Notify(p, c)
  PROVE  NotifierIInv'
<1> DEFINE k == [case |-> c, asked |-> hour, at |-> IF liveMode THEN "resolve" ELSE "post"]
<1>1. /\ k \in CallRecord /\ k.case = c /\ k.asked = hour /\ hour \in Nat
      /\ call' = [call EXCEPT ![p] = k] /\ UNCHANGED <<hour, told, lastNotice, noticeFile>>
      /\ NoticeDue(c)
  BY DEF Notify, CallRecord, NotifierIInv
<1>2. NotEarly(c, hour)
  <2> SUFFICES ASSUME NEW a \in told, a.known, a.case = c PROVE a.at + NoticeWindow <= hour
    BY DEF NotEarly
  <2>1. c \in DOMAIN lastNotice /\ a.at <= lastNotice[c] /\ lastNotice[c] \in Nat
    BY DEF NotifierIInv, Remembers
  <2>2. lastNotice[c] + NoticeWindow <= hour
    BY <1>1, <2>1 DEF NoticeDue
  <2>3. a.at \in Nat /\ NoticeWindow \in Nat
    BY NotifierAssumption DEF NotifierIInv, Notices
  <2> QED  BY <1>1, <2>1, <2>2, <2>3
<1>3. k.asked <= hour /\ NotEarly(k.case, k.asked)
  BY <1>1, <1>2
<1> HIDE DEF k
<1> QED  BY <1>1, <1>3, CallGoesOn

LEMMA SentNotice ==
  ASSUME NotifierIInv, NEW p \in Calls, NEW sure \in BOOLEAN,
         call[p].at = "post", Accepted(p, sure), UNCHANGED hour
  PROVE  /\ told' \subseteq Notices
         /\ \A a \in told' : a.asked <= a.at /\ a.at <= hour
         /\ \A c, t : NotEarly(c, t) /\ t \in Nat /\ t <= hour => NotEarly(c, t)'
         /\ ToldOncePerWindow'
         /\ \A a \in told' : a \in told \/ (a.case = call[p].case /\ a.at = hour /\ a.known = sure)
<1> DEFINE b == [case |-> call[p].case, asked |-> call[p].asked, at |-> hour, known |-> sure]
<1>1. /\ b \in Notices /\ told' = told \union {b} /\ b.at = hour /\ hour \in Nat
      /\ b.asked <= hour /\ NotEarly(b.case, b.asked)
      /\ b.case = call[p].case /\ b.known = sure
  BY DEF NotifierIInv, Accepted, Notices
<1> HIDE DEF b
<1>2. told' \subseteq Notices /\ \A a \in told' : a.asked <= a.at /\ a.at <= hour
  BY <1>1 DEF NotifierIInv
<1>3. ASSUME NEW c, NEW t, NotEarly(c, t), t \in Nat, t <= hour PROVE NotEarly(c, t)'
  BY <1>1, <1>3 DEF NotEarly, Notices
<1>4. ToldOncePerWindow'
  <2> SUFFICES ASSUME NEW x \in told', NEW y \in told', x.known, x.case = y.case, x.at < y.asked
               PROVE  x.at + NoticeWindow <= y.asked
    BY DEF ToldOncePerWindow
  <2>1. x.at \in Nat /\ y.asked \in Nat /\ y.at \in Nat /\ y.asked <= y.at /\ y.at <= hour
    BY <1>2 DEF Notices
  <2>2. x # b
    BY <1>1, <2>1
  <2>3. x \in told
    BY <1>1, <2>2
  <2>4. CASE y = b
    BY <1>1, <2>3, <2>4 DEF NotEarly
  <2>5. CASE y \in told
    BY <2>3, <2>5 DEF NotifierIInv, ToldOncePerWindow
  <2> QED  BY <1>1, <2>4, <2>5
<1> QED  BY <1>1, <1>2, <1>3, <1>4

LEMMA PostKeeps ==
  ASSUME NotifierIInv, NEW p \in Calls, PartnerTold(p) \/ TellingFails(p)
  PROVE  NotifierIInv'
<1>0. /\ call[p].at = "post" /\ call[p].case \in Cases /\ hour \in Nat /\ UNCHANGED hour
      /\ call' = [call EXCEPT ![p] = NoCall]
  BY DEF NotifierIInv, PartnerTold, TellingFails, CallEnds
<1>1. /\ call' \in [Calls -> CallRecord] /\ call'[p] = NoCall
      /\ \A q \in Calls \ {p} : call'[q] = call[q]
  BY <1>0, NoCallFits DEF NotifierIInv, CallRecord
<1>2. CASE told' = told /\ lastNotice' = lastNotice /\ noticeFile' = noticeFile
  BY <1>0, <1>2, NoCallFits, CallGoesOn
<1>3. ASSUME NEW sure \in BOOLEAN, Accepted(p, sure),
             Remembers(lastNotice', told'), Remembers(noticeFile', told')
      PROVE  NotifierIInv'
  <2>1. /\ told' \subseteq Notices
        /\ \A a \in told' : a.asked <= a.at /\ a.at <= hour
        /\ \A c, t : NotEarly(c, t) /\ t \in Nat /\ t <= hour => NotEarly(c, t)'
        /\ ToldOncePerWindow'
    BY <1>0, <1>3, SentNotice
  <2>2. \A q \in Calls : CallFits(q)'
    <3> SUFFICES ASSUME NEW q \in Calls PROVE CallFits(q)'
      OBVIOUS
    <3>1. CASE q = p
      <4>1. NotEarly(NoCall.case, NoCall.asked)' /\ NoCall.asked <= hour /\ NoCall.at = "idle"
        BY <1>0, <2>1, NoCallFits
      <4> QED  BY <1>0, <1>1, <3>1, <4>1 DEF CallFits, NotEarly
    <3>2. CASE q # p
      <4>1. /\ call'[q] = call[q] /\ call[q].asked <= hour /\ call[q].asked \in Nat
            /\ call[q].at # "idle" => call[q].case \in Cases
            /\ NotEarly(call[q].case, call[q].asked)
        BY <1>1, <3>2 DEF NotifierIInv
      <4>2. NotEarly(call[q].case, call[q].asked)'
        BY <2>1, <4>1
      <4> QED  BY <1>0, <4>1, <4>2 DEF CallFits, NotEarly
    <3> QED  BY <3>1, <3>2
  <2> QED  BY <1>0, <1>1, <1>3, <2>1, <2>2 DEF NotifierIInv, CallFits, CallRecord
<1>4. ASSUME NEW record, Remembers(record, told), Accepted(p, FALSE)
      PROVE  Remembers(record, told')
  BY <1>4 DEF Accepted, Remembers
<1>5. CASE TellingFails(p)
  <2>1. lastNotice' = lastNotice /\ noticeFile' = noticeFile
    BY <1>5 DEF TellingFails
  <2>2. CASE told' = told
    BY <1>2, <2>1, <2>2
  <2>3. CASE Accepted(p, FALSE)
    <3>1. Remembers(lastNotice', told') /\ Remembers(noticeFile', told')
      BY <1>4, <2>1, <2>3 DEF NotifierIInv
    <3> QED  BY <1>3, <2>3, <3>1
  <2> QED  BY <1>5, <2>2, <2>3 DEF TellingFails
<1>6. CASE PartnerTold(p)
  <2>1. PICK sure \in BOOLEAN : /\ Accepted(p, sure)
                                /\ \/ noticeFile' = lastNotice'
                                   \/ ~sure /\ noticeFile' = noticeFile
    BY <1>6 DEF PartnerTold
  <2>2. lastNotice' = [c \in DOMAIN lastNotice \union {call[p].case} |->
                         IF c = call[p].case THEN hour ELSE lastNotice[c]]
    BY <1>6 DEF PartnerTold
  <2>3. Remembers(lastNotice', told')
    <3>1. \A a \in told' : a \in told \/ (a.case = call[p].case /\ a.at = hour)
      BY <1>0, <2>1, SentNotice
    <3>2. \A a \in told : a.at \in Nat /\ a.at <= hour
      BY DEF NotifierIInv, Notices
    <3>3. /\ DOMAIN lastNotice' = DOMAIN lastNotice \union {call[p].case}
          /\ \A c \in DOMAIN lastNotice' :
               lastNotice'[c] = IF c = call[p].case THEN hour ELSE lastNotice[c]
      BY <2>2
    <3>4. DOMAIN lastNotice' \subseteq Cases /\ \A c \in DOMAIN lastNotice' : lastNotice'[c] \in Nat
      BY <1>0, <3>3 DEF NotifierIInv, Remembers
    <3>5. ASSUME NEW a \in told', a.known
          PROVE  a.case \in DOMAIN lastNotice' /\ a.at <= lastNotice'[a.case]
      <4>1. CASE a \in told
        <5>1. a.case \in DOMAIN lastNotice /\ a.at <= lastNotice[a.case]
          BY <3>5, <4>1 DEF NotifierIInv, Remembers
        <5> QED  BY <3>2, <3>3, <4>1, <5>1
      <4>2. CASE a.case = call[p].case /\ a.at = hour
        BY <1>0, <3>3, <4>2
      <4> QED  BY <3>1, <4>1, <4>2
    <3> QED  BY <3>4, <3>5 DEF Remembers
  <2>4. Remembers(noticeFile', told')
    BY <1>4, <2>1, <2>3 DEF NotifierIInv
  <2> QED  BY <1>3, <2>1, <2>3, <2>4
<1> QED  BY <1>5, <1>6

\* A partner is not told again within the window of a notice that is known to have
\* been sent, for any number of calls under way, failures and restarts.
THEOREM ToldOncePerWindowHolds == NotifierSpec => []ToldOncePerWindow
<1>1. NotifierInit => NotifierIInv
  BY DEF NotifierInit, NotifierIInv, NoCall, NeverTold, Remembers, NotEarly, ToldOncePerWindow
<1>2. NotifierIInv /\ [NotifierNext]_notifierVars => NotifierIInv'
  <2> SUFFICES ASSUME NotifierIInv, [NotifierNext]_notifierVars PROVE NotifierIInv'
    OBVIOUS
  <2>1. ASSUME NEW p \in Calls, GroupFound(p) \/ NoGroup(p) PROVE NotifierIInv'
    <3>1. PICK k \in CallRecord : /\ call' = [call EXCEPT ![p] = k]
                                  /\ k.at # "idle" => k.case \in Cases
                                  /\ k.asked <= hour /\ NotEarly(k.case, k.asked)
      <4>1. CASE GroupFound(p)
        <5> DEFINE k == [call[p] EXCEPT !.at = "post"]
        <5>1. call[p] \in CallRecord /\ call[p].at = "resolve"
          BY <4>1 DEF NotifierIInv, CallRecord, GroupFound
        <5>2. k \in CallRecord /\ k.case = call[p].case /\ k.asked = call[p].asked
          BY <5>1 DEF CallRecord
        <5>3. call' = [call EXCEPT ![p] = k]
          BY <4>1 DEF GroupFound
        <5>4. /\ call[p].case \in Cases /\ call[p].asked <= hour
              /\ NotEarly(call[p].case, call[p].asked)
          BY <5>1 DEF NotifierIInv
        <5> HIDE DEF k
        <5> QED  BY <5>2, <5>3, <5>4
      <4>2. CASE NoGroup(p)
        BY <4>2, NoCallFits DEF NoGroup, CallEnds
      <4> QED  BY <2>1, <4>1, <4>2
    <3>2. UNCHANGED <<hour, told, lastNotice, noticeFile>>
      BY <2>1 DEF GroupFound, NoGroup
    <3> QED  BY <3>1, <3>2, CallGoesOn
  <2>2. CASE HourPasses
    BY <2>2 DEF HourPasses, NotifierIInv, CallFits, NotEarly, Remembers, ToldOncePerWindow, Notices
  <2>3. CASE NotifierRestart
    <3>1. /\ call' = [p \in Calls |-> NoCall] /\ UNCHANGED <<hour, told, noticeFile>>
          /\ lastNotice' = noticeFile
      BY <2>3 DEF NotifierRestart
    <3>2. call' \in [Calls -> CallRecord] /\ \A p \in Calls : call'[p] = NoCall
      BY <3>1, NoCallFits
    <3>3. \A p \in Calls : CallFits(p)'
      BY <3>1, <3>2, NoCallFits DEF CallFits, NotEarly
    <3> QED
      BY <3>1, <3>2, <3>3 DEF NotifierIInv, CallFits, CallRecord, ToldOncePerWindow
  <2>4. CASE UNCHANGED notifierVars
    BY <2>4 DEF notifierVars, NotifierIInv, NotEarly, ToldOncePerWindow
  <2> QED  BY <2>1, <2>2, <2>3, <2>4, NotifyKeeps, PostKeeps DEF NotifierNext
<1>3. NotifierIInv => ToldOncePerWindow
  BY DEF NotifierIInv
<1> QED  BY <1>1, <1>2, <1>3, PTL DEF NotifierSpec

-----------------------------------------------------------------------------
(***************************************************************************)
(* The detectors.                                                          *)
(***************************************************************************)
\* What is kept of an alert.
AlertRecord(a) ==
  /\ a = [subjects |-> a.subjects, at |-> a.at, event |-> a.event, fate |-> a.fate]
  /\ a.at \in Nat /\ a.at <= now
  /\ a.fate \in {"queued", "saved", "stale", "lost"}
  /\ a.fate = "lost" => failures > 0

\* Whatever a cache holds of a subject, an alert that names it was returned then.
Backed(cache, alerts) ==
  \A s \in DOMAIN cache : \E a \in alerts : s \in a.subjects /\ a.at = cache[s]

\* While the cache could be written: what was returned lately is in it.
Held(cache, alerts, t) ==
  \A a \in alerts : \A s \in a.subjects :
    \/ a.at + DebounceWindow <= t
    \/ s \in DOMAIN cache /\ a.at <= cache[s]

TimedCache(cache) == \A s \in DOMAIN cache : cache[s] \in Nat /\ cache[s] <= now

DetectorIInv ==
  /\ now \in Nat /\ failures \in Nat /\ unwritten \in BOOLEAN /\ watched \subseteq Names
  /\ \A a \in raised : AlertRecord(a)
  /\ TimedCache(debounceCache) /\ TimedCache(cacheFile)
  /\ Backed(debounceCache, raised) /\ Backed(cacheFile, raised)
  /\ ~unwritten => cacheFile = debounceCache /\ Held(debounceCache, raised, now)
  /\ AlertedOncePerWindow

-----------------------------------------------------------------------------
(* What the detectors return.                                              *)

\* Two alerts of one tick name no subject in common.
Disjoint(found) ==
  \A f, g \in found : f # g => f.subjects \intersect g.subjects = {}

Fresh(found) == \A f \in found : \A s \in f.subjects : ~Debounced(s)

FoundRecord(f) == f = [subjects |-> f.subjects, event |-> f.event]

TypeOf(name) ==
  CASE name = "detectIngestStalls" -> "ingest_stall"
    [] name = "detectVercel5xxErrors" -> "vercel_5xx"
    [] name = "detectVercelTimeouts" -> "vercel_timeout"
    [] name = "detectHighLatency" -> "vercel_latency"
    [] name = "detectAdmissionTariffFallback" -> "fallback"
    [] name = "detectMarketPricingAlerts" -> "market_pricing_alert"
    [] name = "detectOcppVercelCorrelation" -> "correlation"
    [] OTHER -> "none"

OfType(found, type) == \A f \in found : \A s \in f.subjects : \E key : s = <<type, key>>

LEMMA PassedFresh ==
  ASSUME NEW found
  PROVE  Passed(found) \subseteq found /\ Fresh(Passed(found))
  BY DEF Passed, Fresh

\* One alert per key of K at most.
Keyed(found, type, K, ev) == \A f \in found : \E k \in K : f = Found1(type, k, ev[k])

LEMMA KeyedAlerts ==
  ASSUME NEW type, NEW K, NEW ev, NEW found, Keyed(found, type, K, ev)
  PROVE  Disjoint(found) /\ OfType(found, type) /\ \A f \in found : FoundRecord(f)
<1>1. ASSUME NEW f \in found
      PROVE  \E k \in K : f = Found1(type, k, ev[k])
  BY DEF Keyed
<1>2. ASSUME NEW f \in found, NEW g \in found, f.subjects \intersect g.subjects # {}
      PROVE  f = g
  <2>1. PICK k \in K : f = Found1(type, k, ev[k])
    BY <1>1
  <2>2. PICK l \in K : g = Found1(type, l, ev[l])
    BY <1>1
  <2>3. <<type, k>> = <<type, l>>
    BY <1>2, <2>1, <2>2 DEF Found1
  <2>4. k = l
    BY <2>3
  <2> QED  BY <2>1, <2>2, <2>4
<1> QED  BY <1>1, <1>2 DEF Disjoint, OfType, FoundRecord, Found1

\* Alerts of one kind, let through together.
SoundFinds(found, type) ==
  /\ Disjoint(found) /\ Fresh(found) /\ OfType(found, type)
  /\ \A f \in found : FoundRecord(f)

LEMMA PassedSound ==
  ASSUME NEW type, NEW K, NEW ev, NEW found, Keyed(found, type, K, ev)
  PROVE  SoundFinds(Passed(found), type)
<1>1. Disjoint(found) /\ OfType(found, type) /\ \A f \in found : FoundRecord(f)
  BY KeyedAlerts
<1>2. Passed(found) \subseteq found /\ Fresh(Passed(found))
  BY PassedFresh
<1> QED  BY <1>1, <1>2 DEF SoundFinds, Disjoint, OfType

LEMMA FallbacksSound == SoundFinds(Fallbacks, "fallback")
<1> DEFINE new == {s \in FallbackStations : ~Debounced(<<"fallback", s>>)}
           f == [subjects |-> {<<"fallback", s>> : s \in new},
                 event |-> Newest({i \in Recent : rows[i].kind = "fallback"})]
<1>1. Fallbacks = {} \/ Fallbacks = {f}
  BY DEF Fallbacks
<1>2. /\ f.subjects = {<<"fallback", s>> : s \in new} /\ FoundRecord(f)
  BY DEF FoundRecord
<1>3. \A x \in f.subjects : ~Debounced(x) /\ \E key : x = <<"fallback", key>>
  BY <1>2
<1> HIDE DEF f
<1> QED  BY <1>1, <1>2, <1>3 DEF SoundFinds, Disjoint, Fresh, OfType

LEMMA CorrelationsKeyed ==
  LET K == {<<rows[i].about, rows[i].at>> : i \in Correlated}
  IN  Keyed(Correlations, "correlation", K, [x \in K |-> x[2]])
<1> DEFINE K == {<<rows[i].about, rows[i].at>> : i \in Correlated}
           ev == [x \in K |-> x[2]]
<1>1. \A i \in Correlated : /\ <<rows[i].about, rows[i].at>> \in K
                            /\ ev[<<rows[i].about, rows[i].at>>] = rows[i].at
  OBVIOUS
<1> HIDE DEF K, ev
<1>2. \A f \in Correlations :
        \E i \in Correlated :
          f = Found1("correlation", <<rows[i].about, rows[i].at>>, rows[i].at)
  BY DEF Correlations
<1>3. Keyed(Correlations, "correlation", K, ev)
  BY <1>1, <1>2 DEF Keyed
<1> QED  BY <1>3 DEF K, ev

LEMMA LetThroughSound ==
  ASSUME NEW name \in Names, NEW unread
  PROVE  SoundFinds(LetThroughBy(name, unread), TypeOf(name))
<1>1. SoundFinds(Passed(IngestStalls(unread)), "ingest_stall")
  <2> DEFINE K == {s \in Sources : s \in unread \/ Stalled(s)}  ev == [s \in K |-> now]
  <2>1. Keyed(IngestStalls(unread), "ingest_stall", K, ev)
    BY DEF IngestStalls, Keyed
  <2> HIDE DEF K, ev
  <2> QED  BY <2>1, PassedSound
<1>2. SoundFinds(Passed(Vercel5xxErrors), "vercel_5xx")
  <2> DEFINE K == {r \in Routes : Reportable(r)}
             ev == [r \in K |-> Newest(Of("error", r))]
  <2>1. Keyed(Vercel5xxErrors, "vercel_5xx", K, ev)
    BY DEF Vercel5xxErrors, Keyed
  <2> HIDE DEF K, ev
  <2> QED  BY <2>1, PassedSound
<1>3. SoundFinds(Passed(VercelTimeouts), "vercel_timeout")
  <2> DEFINE K == {r \in Routes : Of("timeout", r) # {}}
             ev == [r \in K |-> Newest(Of("timeout", r))]
  <2>1. Keyed(VercelTimeouts, "vercel_timeout", K, ev)
    BY DEF VercelTimeouts, Keyed
  <2> HIDE DEF K, ev
  <2> QED  BY <2>1, PassedSound
<1>4. SoundFinds(Passed(HighLatency), "vercel_latency")
  <2> DEFINE ev == [r \in SlowRoutes |-> Newest(Of("slow", r))]
  <2>1. Keyed(HighLatency, "vercel_latency", SlowRoutes, ev)
    BY DEF HighLatency, Keyed
  <2> HIDE DEF ev
  <2> QED  BY <2>1, PassedSound
<1>5. SoundFinds(Passed(MarketPricing), "market_pricing_alert")
  <2> DEFINE K == {k \in PricingKinds : Of("pricing", k) # {}}
             ev == [k \in K |-> Newest(Of("pricing", k))]
  <2>1. Keyed(MarketPricing, "market_pricing_alert", K, ev)
    BY DEF MarketPricing, Keyed
  <2> HIDE DEF K, ev
  <2> QED  BY <2>1, PassedSound
<1>6. SoundFinds(Passed(Correlations), "correlation")
  <2> DEFINE K == {<<rows[i].about, rows[i].at>> : i \in Correlated}
             ev == [x \in K |-> x[2]]
  <2>1. Keyed(Correlations, "correlation", K, ev)
    BY CorrelationsKeyed
  <2> HIDE DEF K, ev
  <2> QED  BY <2>1, PassedSound
<1> QED
  BY <1>1, <1>2, <1>3, <1>4, <1>5, <1>6, FallbacksSound DEF LetThroughBy, TypeOf, Names

LEMMA ErrorSound ==
  ASSUME NEW name
  PROVE  SoundFinds(ErrorOf(name), "engine_detector_error")
<1> DEFINE ev == [k \in {name} |-> now]
           found == {Found1("engine_detector_error", name, now)}
<1>1. Keyed(found, "engine_detector_error", {name}, ev)
  BY DEF Keyed
<1>2. ErrorOf(name) = Passed(found)
  BY DEF ErrorOf
<1> HIDE DEF ev, found
<1> QED  BY <1>1, <1>2, PassedSound

\* The alerts of the detectors of a tick, and of the errors of one.
LEMMA TogetherSound ==
  ASSUME NEW W, W \subseteq Names, NEW unread, NEW errors,
         SoundFinds(errors, "engine_detector_error")
  PROVE  LET found == (UNION {Reported(n, unread) : n \in W}) \union errors
         IN  Disjoint(found) /\ Fresh(found) /\ \A f \in found : FoundRecord(f)
<1> DEFINE found == (UNION {Reported(n, unread) : n \in W}) \union errors
<1>1. ASSUME NEW n \in W PROVE SoundFinds(Reported(n, unread), TypeOf(n))
  <2>1. SoundFinds(LetThroughBy(n, unread), TypeOf(n))
    BY LetThroughSound
  <2> QED  BY <2>1 DEF Reported, SoundFinds, Disjoint, Fresh, OfType
<1>2. SoundFinds(errors, "engine_detector_error")
  OBVIOUS
<1>3. ASSUME NEW f \in found
      PROVE  \/ f \in errors
             \/ \E n \in W : f \in Reported(n, unread)
  OBVIOUS
<1>4. ASSUME NEW F, NEW t, SoundFinds(F, t), NEW f \in F
      PROVE  /\ FoundRecord(f) /\ \A s \in f.subjects : ~Debounced(s) /\ s[1] = t
  <2>1. FoundRecord(f) /\ \A s \in f.subjects : ~Debounced(s)
    BY <1>4 DEF SoundFinds, Fresh
  <2>2. \A s \in f.subjects : \E key : s = <<t, key>>
    BY <1>4 DEF SoundFinds, OfType
  <2>3. \A s \in f.subjects : s[1] = t
    BY <2>2
  <2> QED  BY <2>1, <2>3
<1>5. \A n \in W : TypeOf(n) # "engine_detector_error" /\ \A m \in W : TypeOf(n) = TypeOf(m) => n = m
  BY DEF TypeOf, Names
<1> HIDE DEF found
<1>6. ASSUME NEW f \in found PROVE FoundRecord(f) /\ \A s \in f.subjects : ~Debounced(s)
  BY <1>1, <1>2, <1>3, <1>4
<1>7. ASSUME NEW f \in found, NEW g \in found, NEW s \in f.subjects, s \in g.subjects PROVE f = g
  <2>1. CASE f \in errors /\ g \in errors
    BY <1>2, <1>7, <2>1 DEF SoundFinds, Disjoint
  <2>2. ASSUME NEW n \in W, f \in Reported(n, unread), g \in errors PROVE FALSE
    BY <1>1, <1>2, <1>4, <1>5, <1>7, <2>2
  <2>3. ASSUME NEW n \in W, g \in Reported(n, unread), f \in errors PROVE FALSE
    BY <1>1, <1>2, <1>4, <1>5, <1>7, <2>3
  <2>4. ASSUME NEW n \in W, NEW m \in W, f \in Reported(n, unread), g \in Reported(m, unread) PROVE f = g
    <3>1. n = m
      BY <1>1, <1>4, <1>5, <1>7, <2>4
    <3> QED  BY <1>1, <1>7, <2>4, <3>1 DEF SoundFinds, Disjoint
  <2> QED  BY <1>3, <2>1, <2>2, <2>3, <2>4
<1> QED  BY <1>6, <1>7 DEF Disjoint, Fresh, found

-----------------------------------------------------------------------------
\* The alerts of a tick are returned, and their subjects remembered.
LEMMA BatchKeeps ==
  ASSUME DetectorIInv, NEW queued, NEW lost, queued \intersect lost = {},
         Disjoint(queued \union lost), Fresh(queued \union lost),
         \A f \in queued \union lost : FoundRecord(f),
         raised' = raised \union Alerts(queued, "queued") \union Alerts(lost, "lost"),
         debounceCache' = LetThrough(SubjectsOf(queued \union lost)),
         failures' \in Nat, failures <= failures', lost # {} => failures' > 0,
         \/ cacheFile' = debounceCache' /\ unwritten' = unwritten
         \/ cacheFile' = cacheFile /\ unwritten' = TRUE,
         UNCHANGED <<now, watched>>
  PROVE  DetectorIInv'
<1> DEFINE found == queued \union lost
<1>1. /\ now \in Nat /\ failures \in Nat
      /\ \A a \in raised : AlertRecord(a)
      /\ TimedCache(debounceCache) /\ TimedCache(cacheFile)
      /\ Backed(debounceCache, raised) /\ Backed(cacheFile, raised)
      /\ ~unwritten => Held(debounceCache, raised, now)
      /\ AlertedOncePerWindow /\ watched \subseteq Names /\ unwritten \in BOOLEAN
  BY DEF DetectorIInv
<1>2. /\ DOMAIN debounceCache' = SubjectsOf(found) \union DOMAIN debounceCache
      /\ \A s \in SubjectsOf(found) : debounceCache'[s] = now
      /\ \A s \in DOMAIN debounceCache \ SubjectsOf(found) : debounceCache'[s] = debounceCache[s]
  BY DEF LetThrough
<1>3. ASSUME NEW b \in raised', b \notin raised
      PROVE  \E f \in found :
               /\ b = [subjects |-> f.subjects, at |-> now, event |-> f.event, fate |-> b.fate]
               /\ b.subjects = f.subjects /\ b.at = now
               /\ b.fate = IF f \in lost THEN "lost" ELSE "queued"
  <2>1. CASE b \in Alerts(queued, "queued")
    BY <2>1 DEF Alerts
  <2>2. CASE b \in Alerts(lost, "lost")
    BY <2>2 DEF Alerts
  <2> QED  BY <1>3, <2>1, <2>2
<1>4. ASSUME NEW f \in found
      PROVE  \E b \in raised' : b.subjects = f.subjects /\ b.at = now
  <2>1. CASE f \in queued
    <3> DEFINE b == [subjects |-> f.subjects, at |-> now, event |-> f.event, fate |-> "queued"]
    <3>1. b \in raised' /\ b.subjects = f.subjects /\ b.at = now
      BY <2>1 DEF Alerts
    <3> QED  BY <3>1
  <2>2. CASE f \in lost
    <3> DEFINE b == [subjects |-> f.subjects, at |-> now, event |-> f.event, fate |-> "lost"]
    <3>1. b \in raised' /\ b.subjects = f.subjects /\ b.at = now
      BY <2>2 DEF Alerts
    <3> QED  BY <3>1
  <2> QED  BY <1>4, <2>1, <2>2
<1>5. \A f, g \in found : f # g => f.subjects \intersect g.subjects = {}
  BY DEF Disjoint
<1>6. \A f \in found : \A s \in f.subjects : ~Debounced(s) /\ s \in SubjectsOf(found)
  BY DEF Fresh, SubjectsOf
<1>7. \A s \in SubjectsOf(found) : \E f \in found : s \in f.subjects
  BY DEF SubjectsOf
<1> HIDE DEF found
<1>8. \A a \in raised' : AlertRecord(a)'
  <2> SUFFICES ASSUME NEW a \in raised' PROVE AlertRecord(a)'
    OBVIOUS
  <2>1. CASE a \in raised
    BY <1>1, <2>1 DEF AlertRecord
  <2>2. CASE a \notin raised
    <3>1. PICK f \in found :
            /\ a = [subjects |-> f.subjects, at |-> now, event |-> f.event, fate |-> a.fate]
            /\ a.at = now /\ a.fate = IF f \in lost THEN "lost" ELSE "queued"
      BY <1>3, <2>2
    <3>2. a.subjects = f.subjects /\ a.event = f.event
      BY <3>1
    <3> QED  BY <1>1, <3>1, <3>2 DEF AlertRecord
  <2> QED  BY <2>1, <2>2
<1>9. TimedCache(debounceCache)' /\ Backed(debounceCache, raised)'
  <2>1. TimedCache(debounceCache)'
    <3>1. ASSUME NEW s \in DOMAIN debounceCache'
          PROVE  debounceCache'[s] \in Nat /\ debounceCache'[s] <= now
      <4>1. CASE s \in SubjectsOf(found)
        BY <1>1, <1>2, <4>1
      <4>2. CASE s \in DOMAIN debounceCache \ SubjectsOf(found)
        <5>1. debounceCache[s] \in Nat /\ debounceCache[s] <= now
          BY <1>1, <4>2 DEF TimedCache
        <5> QED  BY <1>2, <4>2, <5>1
      <4> QED  BY <1>2, <3>1, <4>1, <4>2
    <3> QED  BY <3>1 DEF TimedCache
  <2>2. ASSUME NEW s \in DOMAIN debounceCache'
        PROVE  \E a \in raised' : s \in a.subjects /\ a.at = debounceCache'[s]
    <3>1. CASE s \in SubjectsOf(found)
      <4>1. PICK f \in found : s \in f.subjects
        BY <1>7, <3>1
      <4>2. PICK b \in raised' : b.subjects = f.subjects /\ b.at = now
        BY <1>4
      <4>3. debounceCache'[s] = now
        BY <1>2, <3>1
      <4> QED  BY <4>1, <4>2, <4>3
    <3>2. CASE s \notin SubjectsOf(found)
      BY <1>1, <1>2, <2>2, <3>2 DEF Backed
    <3> QED  BY <3>1, <3>2
  <2> QED  BY <2>1, <2>2 DEF Backed
<1>10. TimedCache(cacheFile)' /\ Backed(cacheFile, raised)'
  <2>1. CASE cacheFile' = debounceCache'
    BY <1>9, <2>1 DEF TimedCache, Backed
  <2>2. CASE cacheFile' = cacheFile
    BY <1>1, <2>2 DEF TimedCache, Backed
  <2> QED  BY <2>1, <2>2
<1>11. ASSUME ~unwritten PROVE Held(debounceCache, raised, now)'
  <2> SUFFICES ASSUME NEW a \in raised', NEW s \in a.subjects
               PROVE  \/ a.at + DebounceWindow <= now
                      \/ s \in DOMAIN debounceCache' /\ a.at <= debounceCache'[s]
    BY DEF Held
  <2>1. CASE a \in raised
    <3>1. \/ a.at + DebounceWindow <= now
          \/ s \in DOMAIN debounceCache /\ a.at <= debounceCache[s]
      BY <1>1, <1>11, <2>1 DEF Held
    <3>2. a.at <= now
      BY <1>1, <2>1 DEF AlertRecord
    <3> QED  BY <1>2, <3>1, <3>2
  <2>2. CASE a \notin raised
    <3>1. PICK f \in found : a.subjects = f.subjects /\ a.at = now
      BY <1>3, <2>2
    <3>2. s \in SubjectsOf(found)
      BY <1>6, <3>1
    <3>3. s \in DOMAIN debounceCache' /\ debounceCache'[s] = now
      BY <1>2, <3>2
    <3> QED  BY <1>1, <3>1, <3>3
  <2> QED  BY <2>1, <2>2
<1>12. AlertedOncePerWindow'
  <2> SUFFICES ASSUME ~unwritten', NEW a \in raised', NEW b \in raised', a # b,
                      NEW s \in a.subjects, s \in b.subjects
               PROVE  a.at + DebounceWindow <= b.at \/ b.at + DebounceWindow <= a.at
    BY DEF AlertedOncePerWindow
  <2>0. ~unwritten
    OBVIOUS
  <2>1. CASE a \in raised /\ b \in raised
    BY <1>1, <2>0, <2>1 DEF AlertedOncePerWindow
  <2>2. ASSUME NEW x \in raised, NEW y \in raised', y \notin raised,
               s \in x.subjects, s \in y.subjects
        PROVE  x.at + DebounceWindow <= y.at
    <3>1. y.at = now /\ ~Debounced(s)
      BY <1>3, <1>6, <2>2
    <3>2. \/ x.at + DebounceWindow <= now
          \/ s \in DOMAIN debounceCache /\ x.at <= debounceCache[s]
      BY <1>1, <2>0, <2>2 DEF Held
    <3>3. CASE s \in DOMAIN debounceCache /\ x.at <= debounceCache[s]
      <4>1. debounceCache[s] \in Nat /\ ~(now < debounceCache[s] + DebounceWindow)
        BY <1>1, <3>1, <3>3 DEF TimedCache, Debounced
      <4>2. x.at \in Nat /\ DebounceWindow \in Nat
        BY <1>1, <2>2, DetectorsAssumption DEF AlertRecord
      <4> QED  BY <1>1, <3>1, <3>3, <4>1, <4>2
    <3> QED  BY <3>1, <3>2, <3>3
  <2>3. CASE a \notin raised /\ b \notin raised
    <3>1. PICK f \in found :
            /\ a = [subjects |-> f.subjects, at |-> now, event |-> f.event, fate |-> a.fate]
            /\ a.subjects = f.subjects /\ a.fate = IF f \in lost THEN "lost" ELSE "queued"
      BY <1>3, <2>3
    <3>2. PICK g \in found :
            /\ b = [subjects |-> g.subjects, at |-> now, event |-> g.event, fate |-> b.fate]
            /\ b.subjects = g.subjects /\ b.fate = IF g \in lost THEN "lost" ELSE "queued"
      BY <1>3, <2>3
    <3>3. f = g
      BY <1>5, <3>1, <3>2
    <3>4. a.fate = b.fate
      BY <3>1, <3>2, <3>3
    <3>5. a = b
      BY <3>1, <3>2, <3>3, <3>4
    <3> QED  BY <3>5
  <2> QED  BY <2>1, <2>2, <2>3
<1> QED
  BY <1>1, <1>8, <1>9, <1>10, <1>11, <1>12 DEF DetectorIInv

\* What a run of the detectors returns is sound, and remembered.
LEMMA DetectionKeeps ==
  ASSUME DetectorIInv, NEW unread, RunDetectors(unread)
  PROVE  DetectorIInv'
<1> DEFINE found == UNION {Reported(n, unread) : n \in watched}
<1>1. Disjoint(found) /\ Fresh(found) /\ \A f \in found : FoundRecord(f)
  <2>1. watched \subseteq Names
    BY DEF DetectorIInv
  <2>2. LET both == (UNION {Reported(n, unread) : n \in watched}) \union {}
        IN  Disjoint(both) /\ Fresh(both) /\ \A f \in both : FoundRecord(f)
    <3>1. SoundFinds({}, "engine_detector_error")
      BY DEF SoundFinds, Disjoint, Fresh, OfType
    <3> QED  BY <2>1, <3>1, TogetherSound
  <2>3. found \union {} = found
    OBVIOUS
  <2> QED  BY <2>2, <2>3
<1>2. /\ raised' = raised \union Alerts(found, "queued")
      /\ UNCHANGED <<now, watched>>
      /\ \/ Remember(LetThrough(SubjectsOf(found)))
         \/ Fails /\ CacheSaved(LetThrough(SubjectsOf(found)))
  BY DEF RunDetectors, Queried
<1> HIDE DEF found
<1>3. /\ debounceCache' = LetThrough(SubjectsOf(found)) /\ failures' \in Nat /\ failures <= failures'
      /\ \/ cacheFile' = debounceCache' /\ unwritten' = unwritten
         \/ cacheFile' = cacheFile /\ unwritten' = TRUE
  BY <1>2 DEF Remember, CacheSaved, Fails, DetectorIInv
<1>4. Alerts({}, "lost") = {} /\ found \union {} = found
  BY DEF Alerts
<1>5. raised' = raised \union Alerts(found, "queued") \union Alerts({}, "lost")
  BY <1>2, <1>4
<1> QED  BY <1>1, <1>2, <1>3, <1>4, <1>5, BatchKeeps

\* What the detectors have reported that may be lost names something.
LEMMA LostNamesSomething ==
  ASSUME NEW name \in AskBeforeTheEnd, NEW f \in LetThroughBy(name, {})
  PROVE  f.subjects # {}
<1>1. CASE name = "detectOcppVercelCorrelation"
  <2>1. f \in Correlations
    BY <1>1, PassedFresh DEF LetThroughBy
  <2>2. PICK i \in Correlated : f = Found1("correlation", <<rows[i].about, rows[i].at>>, rows[i].at)
    BY <2>1 DEF Correlations
  <2>3. <<"correlation", <<rows[i].about, rows[i].at>>>> \in f.subjects
    BY <2>2 DEF Found1
  <2> QED  BY <2>3
<1>2. CASE name = "detectMarketPricingAlerts"
  <2>1. f \in MarketPricing
    BY <1>2, PassedFresh DEF LetThroughBy
  <2>2. PICK k \in PricingKinds :
          f = Found1("market_pricing_alert", k, Newest(Of("pricing", k)))
    BY <2>1 DEF MarketPricing
  <2>3. <<"market_pricing_alert", k>> \in f.subjects
    BY <2>2 DEF Found1
  <2> QED  BY <2>3
<1>3. CASE name = "detectAdmissionTariffFallback"
  <2> DEFINE new == {s \in FallbackStations : ~Debounced(<<"fallback", s>>)}
  <2>1. f \in Fallbacks
    BY <1>3 DEF LetThroughBy
  <2>2. new # {} /\ f.subjects = {<<"fallback", s>> : s \in new}
    <3>1. Fallbacks = IF new = {} THEN {}
                      ELSE {[subjects |-> {<<"fallback", s>> : s \in new},
                             event |-> Newest({i \in Recent : rows[i].kind = "fallback"})]}
      BY DEF Fallbacks
    <3>2. new # {}
      BY <2>1, <3>1
    <3>3. f = [subjects |-> {<<"fallback", s>> : s \in new},
               event |-> Newest({i \in Recent : rows[i].kind = "fallback"})]
      BY <2>1, <3>1, <3>2
    <3> QED  BY <3>2, <3>3
  <2>3. PICK s \in new : TRUE
    BY <2>2
  <2>4. <<"fallback", s>> \in f.subjects
    BY <2>2, <2>3
  <2> QED  BY <2>4
<1> QED  BY <1>1, <1>2, <1>3 DEF AskBeforeTheEnd

LEMMA ThrowKeeps ==
  ASSUME DetectorIInv, NEW name \in watched, NEW gone, DetectorThrows(name, gone)
  PROVE  DetectorIInv'
<1> DEFINE others == (UNION {Reported(n, {}) : n \in watched \ {name}}) \union ErrorOf(name)
<1>1. watched \subseteq Names
  BY DEF DetectorIInv
<1>0. gone \subseteq Reported(name, {}) /\ (gone # {} => name \in AskBeforeTheEnd)
  BY DEF DetectorThrows
<1>2. /\ Disjoint(others \union gone) /\ Fresh(others \union gone)
      /\ \A f \in others \union gone : FoundRecord(f)
  <2> DEFINE all == (UNION {Reported(n, {}) : n \in watched}) \union ErrorOf(name)
  <2>1. Disjoint(all) /\ Fresh(all) /\ \A f \in all : FoundRecord(f)
    <3> DEFINE no == {}  errors == ErrorOf(name)
    <3>1. SoundFinds(errors, "engine_detector_error")
      BY ErrorSound
    <3> HIDE DEF no, errors
    <3>2. LET found == (UNION {Reported(n, no) : n \in watched}) \union errors
          IN  Disjoint(found) /\ Fresh(found) /\ \A f \in found : FoundRecord(f)
      BY <1>1, <3>1, TogetherSound
    <3> QED  BY <3>2 DEF no, errors
  <2>2. others \union gone \subseteq all
    <3>1. others \subseteq all
      OBVIOUS
    <3>2. Reported(name, {}) \subseteq all
      OBVIOUS
    <3> QED  BY <1>0, <3>1, <3>2
  <2> HIDE DEF all, others
  <2> QED  BY <2>1, <2>2 DEF Disjoint, Fresh
<1>3. others \intersect gone = {}
  <2> SUFFICES ASSUME NEW f \in others, f \in gone PROVE FALSE
    OBVIOUS
  <2>1. name \in AskBeforeTheEnd /\ f \in LetThroughBy(name, {})
    BY <1>0 DEF Reported
  <2>2. PICK s \in f.subjects : TRUE
    BY <2>1, LostNamesSomething
  <2>3. s[1] = TypeOf(name)
    <3>1. OfType(LetThroughBy(name, {}), TypeOf(name))
      BY <1>1, LetThroughSound DEF SoundFinds
    <3> QED  BY <2>1, <2>2, <3>1 DEF OfType
  <2>4. s[1] # TypeOf(name)
    <3>1. CASE f \in ErrorOf(name)
      <4>1. s[1] = "engine_detector_error"
        BY <2>2, <3>1, ErrorSound DEF SoundFinds, OfType
      <4> QED  BY <1>1, <4>1 DEF TypeOf, Names
    <3>2. ASSUME NEW n \in watched \ {name}, f \in Reported(n, {})
          PROVE  s[1] # TypeOf(name)
      <4>1. OfType(LetThroughBy(n, {}), TypeOf(n)) /\ f \in LetThroughBy(n, {})
        BY <1>1, <3>2, LetThroughSound DEF SoundFinds, Reported
      <4>2. TypeOf(n) # TypeOf(name)
        BY <1>1 DEF TypeOf, Names
      <4>3. s[1] = TypeOf(n)
        BY <2>2, <4>1 DEF OfType
      <4> QED  BY <4>2, <4>3
    <3> QED  BY <3>1, <3>2
  <2> QED  BY <2>3, <2>4
<1>4. /\ raised' = raised \union Alerts(others, "queued") \union Alerts(gone, "lost")
      /\ debounceCache' = LetThrough(SubjectsOf(others \union gone))
      /\ cacheFile' = debounceCache' /\ unwritten' = unwritten /\ UNCHANGED <<now, watched>>
      /\ failures' = failures + 1 /\ failures \in Nat
  BY DEF DetectorThrows, CacheSaved, Fails, DetectorIInv
<1> HIDE DEF others
<1>5. failures' \in Nat /\ failures <= failures' /\ failures' > 0
  BY <1>4
<1> QED  BY <1>2, <1>3, <1>4, <1>5, BatchKeeps

\* Alerts that say the same, whatever has become of them.
Same(a, b) == a.subjects = b.subjects /\ a.at = b.at

\* What becomes of the alerts leaves their subjects and times; a restart reads back
\* what the file holds.
LEMMA FatesKeep ==
  ASSUME DetectorIInv, UNCHANGED <<now, watched, cacheFile, unwritten>>,
         debounceCache' \in {debounceCache, cacheFile}, failures' \in Nat,
         \A b \in raised' : AlertRecord(b)' /\ \E a \in raised : Same(a, b),
         \A a \in raised : \E b \in raised' : Same(a, b),
         \A b, c \in raised' : b # c =>
           \E a, d \in raised : a # d /\ Same(a, b) /\ Same(d, c)
  PROVE  DetectorIInv'
<1>1. /\ TimedCache(cacheFile) /\ Backed(cacheFile, raised) /\ TimedCache(debounceCache)
      /\ Backed(debounceCache, raised)
      /\ ~unwritten => cacheFile = debounceCache /\ Held(debounceCache, raised, now)
      /\ AlertedOncePerWindow
  BY DEF DetectorIInv
<1>2. ASSUME NEW cache, Backed(cache, raised) PROVE Backed(cache, raised')
  BY <1>2 DEF Backed, Same
<1>3. Backed(debounceCache, raised)' /\ Backed(cacheFile, raised)'
  BY <1>1, <1>2 DEF Backed
<1>4. TimedCache(debounceCache)' /\ TimedCache(cacheFile)'
  BY <1>1 DEF TimedCache
<1>5. ~unwritten' => cacheFile' = debounceCache' /\ Held(debounceCache, raised, now)'
  BY <1>1 DEF Held, Same
<1>6. AlertedOncePerWindow'
  <2> SUFFICES ASSUME ~unwritten', NEW b \in raised', NEW c \in raised', b # c,
                      b.subjects \intersect c.subjects # {}
               PROVE  b.at + DebounceWindow <= c.at \/ c.at + DebounceWindow <= b.at
    BY DEF AlertedOncePerWindow
  <2>1. PICK a \in raised, d \in raised : a # d /\ Same(a, b) /\ Same(d, c)
    OBVIOUS
  <2>2. a.subjects \intersect d.subjects # {} /\ a.at = b.at /\ d.at = c.at
    BY <2>1 DEF Same
  <2>3. a.at + DebounceWindow <= d.at \/ d.at + DebounceWindow <= a.at
    BY <1>1, <2>1, <2>2 DEF AlertedOncePerWindow
  <2> QED  BY <2>2, <2>3
<1>7. /\ now' \in Nat /\ unwritten' \in BOOLEAN /\ watched' \subseteq Names
      /\ \A a \in raised' : AlertRecord(a)'
  BY DEF DetectorIInv
<1> QED  BY <1>3, <1>4, <1>5, <1>6, <1>7 DEF DetectorIInv

LEMMA FatedRecord ==
  ASSUME NEW a, AlertRecord(a), NEW fate \in {"queued", "saved", "stale", "lost"},
         NEW b, b = [a EXCEPT !.fate = fate]
  PROVE  /\ b = [subjects |-> b.subjects, at |-> b.at, event |-> b.event, fate |-> b.fate]
         /\ Same(a, b) /\ b.fate = fate
  BY SMTT(30) DEF AlertRecord, Same

LEMMA TurnKeeps ==
  ASSUME DetectorIInv, NEW a \in raised, SaveFound(a) \/ DropFound(a)
  PROVE  DetectorIInv'
<1>1. PICK fate \in {"saved", "stale", "lost"} :
        /\ Becomes(a, fate) /\ failures' \in Nat /\ failures <= failures'
        /\ fate = "lost" => failures' > 0
  BY DEF SaveFound, DropFound, Fails, DetectorIInv
<1>2. UNCHANGED <<now, watched, debounceCache, cacheFile, unwritten>>
  BY DEF SaveFound, DropFound
<1>3. \A x \in raised : AlertRecord(x) /\ AlertRecord(x)'
  BY <1>1, <1>2 DEF DetectorIInv, AlertRecord
<1> DEFINE b == [a EXCEPT !.fate = fate]
<1>4. /\ b = [subjects |-> b.subjects, at |-> b.at, event |-> b.event, fate |-> b.fate]
      /\ Same(a, b) /\ b.fate = fate
  <2>1. AlertRecord(a) /\ fate \in {"queued", "saved", "stale", "lost"}
    BY <1>3
  <2>2. b = [a EXCEPT !.fate = fate]
    OBVIOUS
  <2> HIDE DEF b
  <2> QED  BY <2>1, <2>2, FatedRecord
<1>5. raised' = (raised \ {a}) \union {b}
  BY <1>1 DEF Becomes
<1> HIDE DEF b
<1>6. AlertRecord(b)'
  BY <1>1, <1>2, <1>3, <1>4 DEF AlertRecord, Same
<1>7. \A x : Same(x, x)
  BY DEF Same
<1> QED  BY <1>1, <1>2, <1>3, <1>4, <1>5, <1>6, <1>7, FatesKeep

LEMMA DetectorRestartKeeps ==
  ASSUME DetectorIInv, DetectorRestart
  PROVE  DetectorIInv'
<1> DEFINE Lost(a) == IF a.fate = "queued" THEN [a EXCEPT !.fate = "lost"] ELSE a
<1>1. /\ UNCHANGED <<now, watched, cacheFile, unwritten>> /\ debounceCache' = cacheFile
      /\ failures' = failures + 1 /\ failures' \in Nat /\ failures' > 0 /\ failures <= failures'
      /\ raised' = {Lost(a) : a \in raised}
  BY DEF DetectorRestart, Reloaded, Fails, DetectorIInv
<1>2. ASSUME NEW a \in raised
      PROVE  AlertRecord(Lost(a))' /\ Same(a, Lost(a)) /\ Lost(a) \in raised'
  <2>1. AlertRecord(a) /\ Lost(a) \in raised'
    BY <1>1 DEF DetectorIInv
  <2> DEFINE b == [a EXCEPT !.fate = "lost"]
  <2>2. /\ b = [subjects |-> b.subjects, at |-> b.at, event |-> b.event, fate |-> b.fate]
        /\ Same(a, b) /\ b.fate = "lost"
    <3>1. b = [a EXCEPT !.fate = "lost"]
      OBVIOUS
    <3> HIDE DEF b
    <3> QED  BY <2>1, <3>1, FatedRecord
  <2>3. Lost(a) = a \/ Lost(a) = b
    OBVIOUS
  <2> HIDE DEF b, Lost
  <2> QED  BY <1>1, <2>1, <2>2, <2>3 DEF AlertRecord, Same
<1>3. \A b \in raised' : \E a \in raised : b = Lost(a)
  BY <1>1
<1> HIDE DEF Lost
<1>4. \A b, c \in raised' : b # c => \E a, d \in raised : a # d /\ Same(a, b) /\ Same(d, c)
  <2> SUFFICES ASSUME NEW b \in raised', NEW c \in raised', b # c
               PROVE  \E a, d \in raised : a # d /\ Same(a, b) /\ Same(d, c)
    OBVIOUS
  <2>1. PICK a \in raised : b = Lost(a)
    BY <1>3
  <2>2. PICK d \in raised : c = Lost(d)
    BY <1>3
  <2>3. a # d
    BY <2>1, <2>2
  <2> QED  BY <1>2, <2>1, <2>2, <2>3
<1>5. \A b \in raised' : AlertRecord(b)' /\ \E a \in raised : Same(a, b)
  <2> SUFFICES ASSUME NEW b \in raised' PROVE AlertRecord(b)' /\ \E a \in raised : Same(a, b)
    OBVIOUS
  <2>1. PICK a \in raised : b = Lost(a)
    BY <1>3
  <2> QED  BY <1>2, <2>1
<1>6. \A a \in raised : \E b \in raised' : Same(a, b)
  BY <1>2
<1> QED  BY <1>1, <1>4, <1>5, <1>6, FatesKeep

LEMMA CleanupKeeps ==
  ASSUME DetectorIInv, CleanupDebounce
  PROVE  DetectorIInv'
<1> DEFINE kept == {s \in DOMAIN debounceCache : now <= debounceCache[s] + ForgetAfter}
<1>1. /\ UNCHANGED <<now, watched, raised>> /\ debounceCache' = [s \in kept |-> debounceCache[s]]
      /\ failures' \in Nat /\ failures <= failures' /\ failures \in Nat
      /\ \/ cacheFile' = debounceCache' /\ unwritten' = unwritten
         \/ cacheFile' = cacheFile /\ unwritten' = TRUE
  BY DEF CleanupDebounce, Remember, CacheSaved, Fails, DetectorIInv
<1>2. /\ TimedCache(debounceCache)' /\ Backed(debounceCache, raised)'
  BY <1>1 DEF DetectorIInv, TimedCache, Backed
<1>3. /\ TimedCache(cacheFile)' /\ Backed(cacheFile, raised)'
  <2>1. CASE cacheFile' = debounceCache'
    BY <1>2, <2>1 DEF TimedCache, Backed
  <2>2. CASE cacheFile' = cacheFile
    BY <1>1, <2>2 DEF DetectorIInv, TimedCache, Backed
  <2> QED  BY <1>1, <2>1, <2>2
<1>4. ASSUME ~unwritten PROVE Held(debounceCache, raised, now)'
  <2> SUFFICES ASSUME NEW a \in raised, NEW s \in a.subjects
               PROVE  \/ a.at + DebounceWindow <= now
                      \/ s \in DOMAIN debounceCache' /\ a.at <= debounceCache'[s]
    BY <1>1 DEF Held
  <2>1. \/ a.at + DebounceWindow <= now
        \/ s \in DOMAIN debounceCache /\ a.at <= debounceCache[s]
    BY <1>4 DEF DetectorIInv, Held
  <2>2. CASE s \in kept
    BY <1>1, <2>1, <2>2
  <2>3. CASE s \in DOMAIN debounceCache /\ s \notin kept /\ a.at <= debounceCache[s]
    <3>1. /\ debounceCache[s] \in Nat /\ now \in Nat /\ a.at \in Nat /\ DebounceWindow \in Nat
          /\ ForgetAfter \in Nat /\ DebounceWindow <= ForgetAfter
      BY <2>3, DetectorsAssumption DEF DetectorIInv, TimedCache, AlertRecord
    <3>2. now > debounceCache[s] + ForgetAfter
      BY <2>3, <3>1
    <3> QED  BY <2>3, <3>1, <3>2
  <2> QED  BY <2>1, <2>2, <2>3
<1>5. (\A a \in raised : AlertRecord(a))' /\ AlertedOncePerWindow'
  BY <1>1 DEF DetectorIInv, AlertRecord, AlertedOncePerWindow
<1>6. now' \in Nat /\ unwritten' \in BOOLEAN /\ watched' \subseteq Names
  <2>1. now \in Nat /\ unwritten \in BOOLEAN /\ watched \subseteq Names
    BY DEF DetectorIInv
  <2> QED  BY <1>1, <2>1
<1>7. ASSUME ~unwritten' PROVE cacheFile' = debounceCache' /\ Held(debounceCache, raised, now)'
  <2>1. cacheFile' = debounceCache' /\ ~unwritten
    BY <1>1, <1>7
  <2> QED  BY <1>4, <2>1
<1> HIDE DEF kept
<1> QED  BY <1>1, <1>2, <1>3, <1>5, <1>6, <1>7 DEF DetectorIInv

LEMMA LogOrTimeKeeps ==
  ASSUME DetectorIInv,
         (\E r \in RowKinds : LogWritten(r)) \/ TimePasses \/ UNCHANGED detectorVars
  PROVE  DetectorIInv'
<1>1. /\ UNCHANGED <<watched, debounceCache, cacheFile, raised, failures, unwritten>>
      /\ now' = now \/ now' = now + 1
  BY DEF LogWritten, TimePasses, detectorVars
<1>2. now \in Nat /\ now' \in Nat /\ now <= now' /\ DebounceWindow \in Nat
  BY <1>1, DetectorsAssumption DEF DetectorIInv
<1>3. \A a \in raised : AlertRecord(a)'
  BY <1>1, <1>2 DEF DetectorIInv, AlertRecord
<1>4. TimedCache(debounceCache)' /\ TimedCache(cacheFile)'
  BY <1>1, <1>2 DEF DetectorIInv, TimedCache
<1>5. ~unwritten => Held(debounceCache, raised, now)'
  BY <1>1, <1>2 DEF DetectorIInv, Held, AlertRecord
<1>6. Backed(debounceCache, raised)' /\ Backed(cacheFile, raised)' /\ AlertedOncePerWindow'
  BY <1>1 DEF DetectorIInv, Backed, AlertedOncePerWindow
<1> QED  BY <1>1, <1>2, <1>3, <1>4, <1>5, <1>6 DEF DetectorIInv

LEMMA DetectorInvariant == DetectorSpec => []DetectorIInv
<1>1. DetectorInit => DetectorIInv
  <2> SUFFICES ASSUME DetectorInit PROVE DetectorIInv
    OBVIOUS
  <2>1. /\ now = 0 /\ failures = 0 /\ raised = {} /\ cacheFile = debounceCache
        /\ debounceCache = NoEntries /\ unwritten \in BOOLEAN /\ watched \subseteq Names
    BY DEF DetectorInit
  <2>2. DOMAIN debounceCache = {}
    BY <2>1 DEF NoEntries
  <2>3. TimedCache(debounceCache) /\ TimedCache(cacheFile)
    BY <2>1, <2>2 DEF TimedCache
  <2>4. Backed(debounceCache, raised) /\ Backed(cacheFile, raised)
    BY <2>1, <2>2 DEF Backed
  <2>5. Held(debounceCache, raised, now) /\ AlertedOncePerWindow
    BY <2>1 DEF Held, AlertedOncePerWindow
  <2> QED  BY <2>1, <2>3, <2>4, <2>5 DEF DetectorIInv
<1>2. DetectorIInv /\ [DetectorNext]_detectorVars => DetectorIInv'
  BY DetectionKeeps, ThrowKeeps, TurnKeeps, DetectorRestartKeeps, CleanupKeeps, LogOrTimeKeeps
     DEF DetectorNext
<1> QED  BY <1>1, <1>2, PTL DEF DetectorSpec

\* No subject is alerted about twice within the window while the cache can be written,
\* whatever ticks overlap, detectors throw and restarts come between.
THEOREM AlertedOncePerWindowHolds == DetectorSpec => []AlertedOncePerWindow
<1>1. DetectorIInv => AlertedOncePerWindow
  BY DEF DetectorIInv
<1> QED  BY <1>1, DetectorInvariant, PTL

\* A subject that is kept quiet was named by an alert that was returned when it was let
\* through, and that was given up only after a failure.
THEOREM SilencedByAnAlertHolds == DetectorSpec => []SilencedByAnAlert
<1>1. DetectorIInv => SilencedByAnAlert
  BY DEF DetectorIInv, Backed, AlertRecord, SilencedByAnAlert
<1> QED  BY <1>1, DetectorInvariant, PTL

-----------------------------------------------------------------------------
(***************************************************************************)
(* The charger tracker.                                                    *)
(***************************************************************************)
ChargerRecords ==
  [status : TrackedStatuses, lastHeartbeat : Nat, lastMeterValue : Nat,
   activeTransaction : Transactions \union {NoTransaction}, consecutiveErrors : Nat,
   needsRestart : BOOLEAN, lastRecoveryAt : Nat]

\* Whoever names a transaction has it.
NamesItsOwn(chargers, on) ==
  \A c \in TrackedChargers :
    LET t == chargers[c].activeTransaction
    IN  t # NoTransaction => t \in DOMAIN on /\ on[t].charger = c

ActiveRecords(on) ==
  \A t \in DOMAIN on : on[t] = [charger |-> on[t].charger, zeroSince |-> on[t].zeroSince]

TrackerIInv ==
  /\ minute \in Nat /\ torn \in BOOLEAN
  /\ tracked \in [TrackedChargers -> ChargerRecords] /\ ActiveRecords(transactions)
  /\ ~torn => NamesItsOwn(tracked, transactions)

\* Health checks leave a charger's transaction alone.
LEMMA UpdatedKeepsTransaction ==
  ASSUME NEW ch \in ChargerRecords, NEW on, minute \in Nat
  PROVE  /\ Updated(ch, on) \in ChargerRecords
         /\ Updated(ch, on).activeTransaction = ch.activeTransaction
<1> DEFINE healed == Checked(ch)
           more == healed.needsRestart \/ (~Within(healed.lastRecoveryAt, RecoveryCooldown)
                                             /\ RestartCalledFor(healed, on))
<1>1. healed \in ChargerRecords /\ healed.activeTransaction = ch.activeTransaction
  <2>1. CASE healed = ch
    BY <2>1
  <2> DEFINE rested == [[ch EXCEPT !.needsRestart = FALSE] EXCEPT !.consecutiveErrors = 0]
  <2>2. rested \in ChargerRecords /\ rested.activeTransaction = ch.activeTransaction
    BY DEF ChargerRecords
  <2>3. healed = ch \/ healed = [rested EXCEPT !.lastRecoveryAt = minute]
    BY DEF Checked
  <2> HIDE DEF rested, healed
  <2>4. CASE healed = [rested EXCEPT !.lastRecoveryAt = minute]
    BY <2>2, <2>4 DEF ChargerRecords
  <2> QED  BY <2>1, <2>3, <2>4
<1>2. more \in BOOLEAN
  OBVIOUS
<1>3. Updated(ch, on) = [healed EXCEPT !.needsRestart = more]
  BY DEF Updated
<1> HIDE DEF healed, more
<1> QED  BY <1>1, <1>2, <1>3 DEF ChargerRecords

LEMMA LevelledKeepsTransaction ==
  ASSUME NEW ch \in ChargerRecords, NEW on, NEW level \in Levels, minute \in Nat
  PROVE  /\ Levelled(ch, level, on) \in ChargerRecords
         /\ Levelled(ch, level, on).activeTransaction = ch.activeTransaction
<1> DEFINE calmed == [ch EXCEPT !.consecutiveErrors = 0]
           errored == [ch EXCEPT !.consecutiveErrors = IF @ < ErrorLimit THEN @ + 1 ELSE @]
<1>1. /\ calmed \in ChargerRecords /\ calmed.activeTransaction = ch.activeTransaction
      /\ errored \in ChargerRecords /\ errored.activeTransaction = ch.activeTransaction
  BY DEF ChargerRecords
<1>2. Levelled(ch, level, on) \in {ch, Updated(calmed, on), Updated(errored, on)}
  BY DEF Levelled, Levels
<1> HIDE DEF calmed, errored
<1> QED  BY <1>1, <1>2, UpdatedKeepsTransaction

\* Both files are written, or the process dies between them.
LEMMA SavedKeeps ==
  ASSUME TrackerIInv, NEW c \in TrackedChargers, NEW ch \in ChargerRecords, NEW on, NEW count,
         Counting(c, ch, on, count), ActiveRecords(on),
         ~torn => NamesItsOwn([tracked EXCEPT ![c] = ch], on)
  PROVE  TrackerIInv'
<1> DEFINE chargers == [tracked EXCEPT ![c] = ch]
<1>1. chargers \in [TrackedChargers -> ChargerRecords]
  BY DEF TrackerIInv
<1>2. NoneTracked \in [TrackedChargers -> ChargerRecords]
  BY DEF NoneTracked, Unseen, ChargerRecords, TrackedStatuses
<1>3. ActiveRecords(NoTransactions)
  BY DEF ActiveRecords, NoTransactions
<1>4. minute' = minute /\ Saved(chargers, on, count)
  BY DEF Counting
<1> HIDE DEF chargers
<1>5. CASE /\ tracked' = chargers /\ transactions' = on /\ torn' = torn
  <2>1. ~torn' => NamesItsOwn(tracked', transactions')
    BY <1>5 DEF chargers
  <2>2. ActiveRecords(transactions')
    BY <1>5
  <2> QED  BY <1>1, <1>4, <1>5, <2>1, <2>2 DEF TrackerIInv, NamesItsOwn, ActiveRecords
<1>6. CASE /\ torn' = TRUE /\ tracked' \in {chargers, NoneTracked}
           /\ transactions' \in {transactions, NoTransactions}
  <2>1. ActiveRecords(transactions')
    BY <1>3, <1>6 DEF TrackerIInv
  <2> QED  BY <1>1, <1>2, <1>4, <1>6, <2>1 DEF TrackerIInv, ActiveRecords
<1> QED  BY <1>4, <1>5, <1>6 DEF Saved

\* An entry that leaves the charger's transaction and the active ones alone.
LEMMA SameTransactionKeeps ==
  ASSUME TrackerIInv, NEW c \in TrackedChargers, NEW ch \in ChargerRecords, NEW count,
         Counting(c, ch, transactions, count),
         ch.activeTransaction = tracked[c].activeTransaction
  PROVE  TrackerIInv'
<1>1. ~torn => NamesItsOwn([tracked EXCEPT ![c] = ch], transactions)
  BY DEF TrackerIInv, NamesItsOwn
<1>2. ActiveRecords(transactions)
  BY DEF TrackerIInv
<1> QED  BY <1>1, <1>2, SavedKeeps

LEMMA SignOfLifeKeeps ==
  ASSUME TrackerIInv, NEW c \in TrackedChargers, NEW at \in 1..minute, SignOfLifeLogged(c, at)
  PROVE  TrackerIInv'
<1> DEFINE ch == [tracked[c] EXCEPT !.consecutiveErrors = 0]
           beat == [ch EXCEPT !.lastHeartbeat = at]
           meter == [ch EXCEPT !.lastMeterValue = at]
<1>1. minute \in Nat /\ at \in Nat /\ tracked[c] \in ChargerRecords
  BY DEF TrackerIInv
<1>2. /\ beat \in ChargerRecords /\ beat.activeTransaction = tracked[c].activeTransaction
      /\ meter \in ChargerRecords /\ meter.activeTransaction = tracked[c].activeTransaction
  BY <1>1 DEF ChargerRecords
<1>3. \/ Counting(c, Updated(beat, transactions), transactions, placeholder)
      \/ Counting(c, Updated(meter, transactions), transactions, placeholder)
  BY DEF SignOfLifeLogged, Kept
<1> HIDE DEF ch, beat, meter
<1>4. /\ Updated(beat, transactions) \in ChargerRecords
      /\ Updated(beat, transactions).activeTransaction = tracked[c].activeTransaction
      /\ Updated(meter, transactions) \in ChargerRecords
      /\ Updated(meter, transactions).activeTransaction = tracked[c].activeTransaction
  BY <1>1, <1>2, UpdatedKeepsTransaction
<1> QED  BY <1>3, <1>4, SameTransactionKeeps

LEMMA TrackedStatusKeeps ==
  ASSUME TrackerIInv, NEW c \in TrackedChargers, NEW s \in TrackedStatuses,
         NEW level \in Levels, StatusLogged(c, s, level)
  PROVE  TrackerIInv'
<1> DEFINE was == [tracked[c] EXCEPT !.status = s]
           ch == Updated(was, transactions)
           new == Levelled(ch, level, transactions)
<1>1. minute \in Nat /\ was \in ChargerRecords
      /\ was.activeTransaction = tracked[c].activeTransaction
  BY DEF TrackerIInv, ChargerRecords
<1>2. Counting(c, new, transactions, placeholder)
  BY DEF StatusLogged, Kept
<1> HIDE DEF was
<1>3. ch \in ChargerRecords /\ ch.activeTransaction = was.activeTransaction
  BY <1>1, UpdatedKeepsTransaction
<1> HIDE DEF ch
<1>4. new \in ChargerRecords /\ new.activeTransaction = ch.activeTransaction
  BY <1>1, <1>3, LevelledKeepsTransaction
<1> HIDE DEF new
<1> QED  BY <1>1, <1>2, <1>3, <1>4, SameTransactionKeeps

LEMMA ErrorKeeps ==
  ASSUME TrackerIInv, NEW c \in TrackedChargers, ErrorLogged(c) \/ PlaceholderLogged(c)
  PROVE  TrackerIInv'
<1> DEFINE new == Levelled(tracked[c], "error", transactions)
<1>1. minute \in Nat /\ tracked[c] \in ChargerRecords /\ "error" \in Levels
  BY DEF TrackerIInv, Levels
<1>2. new \in ChargerRecords /\ new.activeTransaction = tracked[c].activeTransaction
  BY <1>1, LevelledKeepsTransaction
<1>3. \/ \E count : Counting(c, new, transactions, count)
      \/ UNCHANGED <<minute, tracked, transactions, torn>>
  BY DEF ErrorLogged, PlaceholderLogged, Kept
<1> HIDE DEF new
<1>4. CASE UNCHANGED <<minute, tracked, transactions, torn>>
  BY <1>4 DEF TrackerIInv, NamesItsOwn, ActiveRecords
<1>5. ASSUME NEW count, Counting(c, new, transactions, count)
      PROVE  TrackerIInv'
  BY <1>2, <1>5, SameTransactionKeeps
<1> QED  BY <1>3, <1>4, <1>5

LEMMA StartKeeps ==
  ASSUME TrackerIInv, NEW c \in TrackedChargers, NEW t \in Transactions,
         TransactionStarted(c, t)
  PROVE  TrackerIInv'
<1> DEFINE on == Started(transactions, c, t)
           ch == Levelled(tracked[c], "ok", transactions)
           named == [ch EXCEPT !.activeTransaction = t]
           new == Updated(named, on)
           count == [placeholder EXCEPT ![c] = 0]
<1>1. minute \in Nat /\ tracked[c] \in ChargerRecords /\ "ok" \in Levels
      /\ ActiveRecords(transactions)
  BY DEF TrackerIInv, Levels
<1>2. Counting(c, new, on, count)
  BY DEF TransactionStarted
<1>3. ch \in ChargerRecords
  BY <1>1, LevelledKeepsTransaction
<1> HIDE DEF ch
<1>4. named \in ChargerRecords /\ named.activeTransaction = t
  BY <1>3 DEF ChargerRecords
<1> HIDE DEF named
<1>5. new \in ChargerRecords /\ new.activeTransaction = t
  BY <1>1, <1>4, UpdatedKeepsTransaction
<1>6. /\ DOMAIN on = DOMAIN transactions \union {t}
      /\ on[t] = [charger |-> c, zeroSince |-> 0]
      /\ \A x \in DOMAIN transactions \ {t} : on[x] = transactions[x]
  BY DEF Started
<1> HIDE DEF new, on, count
<1>7. ActiveRecords(on)
  BY <1>1, <1>6 DEF ActiveRecords
<1>8. ASSUME ~torn PROVE NamesItsOwn([tracked EXCEPT ![c] = new], on)
  <2>1. NamesItsOwn(tracked, transactions)
    BY <1>8 DEF TrackerIInv
  <2>2. \A x \in DOMAIN transactions : x = t => transactions[x].charger = c
    BY DEF TransactionStarted
  <2> SUFFICES ASSUME NEW d \in TrackedChargers,
                      [tracked EXCEPT ![c] = new][d].activeTransaction # NoTransaction
               PROVE  LET x == [tracked EXCEPT ![c] = new][d].activeTransaction
                      IN  x \in DOMAIN on /\ on[x].charger = d
    BY DEF NamesItsOwn
  <2>3. CASE d = c
    <3>1. [tracked EXCEPT ![c] = new][d] = new
      BY <2>3 DEF TrackerIInv
    <3> QED  BY <1>5, <1>6, <2>3, <3>1
  <2>4. CASE d # c
    <3>1. [tracked EXCEPT ![c] = new][d] = tracked[d]
      BY <2>4 DEF TrackerIInv
    <3> QED  BY <1>6, <2>1, <2>2, <2>4, <3>1 DEF NamesItsOwn
  <2> QED  BY <2>3, <2>4
<1> QED  BY <1>2, <1>5, <1>7, <1>8, SavedKeeps

LEMMA StopKeeps ==
  ASSUME TrackerIInv, NEW c \in TrackedChargers, NEW t \in Transactions,
         NEW level \in Levels, TransactionStopped(c, t, level)
  PROVE  TrackerIInv'
<1> DEFINE ch == Levelled(tracked[c], level, transactions)
           new == Ended(ch, t)
           on == Without(transactions, t)
<1>1. minute \in Nat /\ tracked[c] \in ChargerRecords /\ ActiveRecords(transactions)
  BY DEF TrackerIInv
<1>2. Counting(c, new, on, placeholder)
  BY DEF TransactionStopped, Kept
<1>3. ch \in ChargerRecords /\ ch.activeTransaction = tracked[c].activeTransaction
  BY <1>1, LevelledKeepsTransaction
<1> HIDE DEF ch
<1>4. /\ new \in ChargerRecords
      /\ new.activeTransaction = IF t \in DOMAIN transactions THEN NoTransaction
                                 ELSE tracked[c].activeTransaction
  BY <1>3 DEF Ended, ChargerRecords
<1>5. /\ DOMAIN on = DOMAIN transactions \ {t}
      /\ \A x \in DOMAIN on : on[x] = transactions[x]
  BY DEF Without
<1> HIDE DEF new, on
<1>6. ActiveRecords(on)
  BY <1>1, <1>5 DEF ActiveRecords
<1>7. ASSUME ~torn PROVE NamesItsOwn([tracked EXCEPT ![c] = new], on)
  <2>1. NamesItsOwn(tracked, transactions)
    BY <1>7 DEF TrackerIInv
  <2>2. t \in DOMAIN transactions => transactions[t].charger = c
    BY DEF TransactionStopped
  <2> SUFFICES ASSUME NEW d \in TrackedChargers,
                      [tracked EXCEPT ![c] = new][d].activeTransaction # NoTransaction
               PROVE  LET x == [tracked EXCEPT ![c] = new][d].activeTransaction
                      IN  x \in DOMAIN on /\ on[x].charger = d
    BY DEF NamesItsOwn
  <2>3. CASE d = c
    <3>1. [tracked EXCEPT ![c] = new][d] = new
      BY <2>3 DEF TrackerIInv
    <3> QED  BY <1>4, <1>5, <2>1, <2>3, <3>1 DEF NamesItsOwn
  <2>4. CASE d # c
    <3>1. [tracked EXCEPT ![c] = new][d] = tracked[d]
      BY <2>4 DEF TrackerIInv
    <3> QED  BY <1>5, <2>1, <2>2, <2>4, <3>1 DEF NamesItsOwn
  <2> QED  BY <2>3, <2>4
<1> QED  BY <1>2, <1>4, <1>6, <1>7, SavedKeeps

LEMMA PowerKeeps ==
  ASSUME TrackerIInv, NEW c \in TrackedChargers, NEW t \in Transactions,
         NEW zero \in BOOLEAN, NEW level \in Levels, PowerLogged(c, t, zero, level)
  PROVE  TrackerIInv'
<1> DEFINE new == Levelled(tracked[c], level, transactions)
<1>1. minute \in Nat /\ tracked[c] \in ChargerRecords /\ ActiveRecords(transactions)
  BY DEF TrackerIInv
<1>2. PICK since : Counting(c, new, [transactions EXCEPT ![t].zeroSince = since], placeholder)
  BY DEF PowerLogged, Kept
<1>3. new \in ChargerRecords /\ new.activeTransaction = tracked[c].activeTransaction
  BY <1>1, LevelledKeepsTransaction
<1> HIDE DEF new
<1> DEFINE on == [transactions EXCEPT ![t].zeroSince = since]
<1>4. /\ DOMAIN on = DOMAIN transactions
      /\ \A x \in DOMAIN transactions : /\ on[x].charger = transactions[x].charger
                                        /\ on[x] = [charger |-> on[x].charger,
                                                    zeroSince |-> on[x].zeroSince]
  <2> SUFFICES ASSUME NEW x \in DOMAIN transactions
               PROVE  /\ on[x].charger = transactions[x].charger
                      /\ on[x] = [charger |-> on[x].charger, zeroSince |-> on[x].zeroSince]
    OBVIOUS
  <2>1. transactions[x] = [charger |-> transactions[x].charger,
                           zeroSince |-> transactions[x].zeroSince]
    BY <1>1 DEF ActiveRecords
  <2>2. on[x] = IF x = t THEN [transactions[x] EXCEPT !.zeroSince = since] ELSE transactions[x]
    OBVIOUS
  <2>3. [transactions[x] EXCEPT !.zeroSince = since]
          = [charger |-> transactions[x].charger, zeroSince |-> since]
    BY <2>1
  <2> HIDE DEF on
  <2> QED  BY <2>1, <2>2, <2>3
<1>5. Counting(c, new, on, placeholder)
  BY <1>2
<1> HIDE DEF on
<1>6. ActiveRecords(on)
  BY <1>4 DEF ActiveRecords
<1>7. ~torn => NamesItsOwn([tracked EXCEPT ![c] = new], on)
  BY <1>3, <1>4 DEF TrackerIInv, NamesItsOwn
<1> QED  BY <1>3, <1>5, <1>6, <1>7, SavedKeeps

LEMMA TrackerInvariant == TrackerSpec => []TrackerIInv
<1>1. TrackerInit => TrackerIInv
  <2> SUFFICES ASSUME TrackerInit PROVE TrackerIInv
    OBVIOUS
  <2>1. /\ minute = 1 /\ tracked = [c \in TrackedChargers |-> Unseen] /\ torn \in BOOLEAN
        /\ transactions = NoTransactions
    BY DEF TrackerInit, NoneTracked
  <2>2. Unseen \in ChargerRecords /\ Unseen.activeTransaction = NoTransaction
    BY DEF Unseen, ChargerRecords, TrackedStatuses
  <2>3. DOMAIN transactions = {}
    BY <2>1 DEF NoTransactions
  <2> HIDE DEF Unseen
  <2>4. tracked \in [TrackedChargers -> ChargerRecords]
    BY <2>1, <2>2
  <2> QED  BY <2>1, <2>2, <2>3, <2>4 DEF TrackerIInv, NamesItsOwn, ActiveRecords
<1>2. TrackerIInv /\ [TrackerNext]_trackerVars => TrackerIInv'
  <2> SUFFICES ASSUME TrackerIInv, [TrackerNext]_trackerVars PROVE TrackerIInv'
    OBVIOUS
  <2>1. CASE MinutePasses \/ PlaceholderCleared \/ UNCHANGED trackerVars
    <3>1. /\ UNCHANGED <<tracked, transactions, torn>> /\ minute' \in Nat
      BY <2>1 DEF MinutePasses, PlaceholderCleared, trackerVars, TrackerIInv
    <3> QED  BY <3>1 DEF TrackerIInv, NamesItsOwn, ActiveRecords
  <2>2. ASSUME NEW c \in TrackedChargers, EntryLogged(c) PROVE TrackerIInv'
    BY <2>2, SignOfLifeKeeps, TrackedStatusKeeps, ErrorKeeps, StartKeeps, StopKeeps, PowerKeeps
       DEF EntryLogged
  <2> QED  BY <2>1, <2>2 DEF TrackerNext
<1> QED  BY <1>1, <1>2, PTL DEF TrackerSpec

\* A charger spared from a restart because it charges has the transaction it names,
\* for any number of chargers, transactions and connectors.
THEOREM SparedIsChargingHolds == TrackerSpec => []SparedIsCharging
<1>1. TrackerIInv => SparedIsCharging
  BY DEF TrackerIInv, NamesItsOwn, SparedIsCharging
<1> QED  BY <1>1, TrackerInvariant, PTL
=============================================================================
