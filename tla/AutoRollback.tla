---------------------------- MODULE AutoRollback ----------------------------
(***************************************************************************)
(* services/auto-rollback-watchdog.js with lib/auto-rollback-policy.js: a  *)
(* loop that watches a fresh production release and, where the policy and  *)
(* a person allow it, has Vercel go back to the release before.            *)
(*                                                                         *)
(* A tick works on its own copy of the state file from its first line to   *)
(* its last, gives way whenever it awaits something, and writes the whole  *)
(* copy back.  The verdict of the 5xx counts, the candidate's smoke test,  *)
(* the attestation and the kill switch are choices.  The confirmation is   *)
(* written into the file by an ingress that is not in this repository.     *)
(* Left out: the text and the deduplication of blocked alerts.             *)
(***************************************************************************)
EXTENDS Integers

CONSTANTS
  Releases,         \* production SHAs
  NoRelease,        \* null
  ProposalTtl,      \* MAX_APPROVAL_TTL_MS
  Heightened,       \* HEIGHTENED_WINDOW_MS
  Cooldown,         \* ANTI_FLAP_COOLDOWN_MS
  MaxClock,         \* bound: time
  MaxProduction     \* bound: releases that go live by other hands

ASSUME RollbackAssumption ==
  /\ NoRelease \notin Releases
  /\ ProposalTtl \in Nat /\ Heightened \in Nat /\ Cooldown \in Nat
  /\ MaxClock \in Nat /\ MaxProduction \in Nat

VARIABLES
  live,        \* what production runs
  clock,
  phase,       \* ROLLBACK_ROLLOUT_PHASE
  file,        \* deploy-rollback-state.json
  copy,        \* the tick's copy of it
  tick,        \* how far the tick has come, when it began, what it resumed
  calls,       \* rollbacks asked of Vercel since the release is watched
  production   \* releases that went live by other hands

rollbackVars == <<live, clock, phase, file, copy, tick, calls, production>>

-----------------------------------------------------------------------------
NoTime == -1
Times  == 0 .. MaxClock
Shas   == Releases \cup {NoRelease}

\* pendingProposal with what came of its message, and pendingConfirmation.
\* critical: the evaluation it was made from still called for a rollback.
Request == [status : {"none", "pending", "consumed"}, created : Times,
            critical : BOOLEAN, message : {"none", "waiting", "sent"},
            confirmed : BOOLEAN]
NoRequest == [status |-> "none", created |-> 0, critical |-> FALSE,
              message |-> "none", confirmed |-> FALSE]

File == [current : Shas, new : Shas, prev : Shas, start : Times \cup {NoTime},
         acted : Shas, action : Times \cup {NoTime}, reported : Shas,
         request : Request]
NoFile == [current |-> NoRelease, new |-> NoRelease, prev |-> NoRelease,
           start |-> NoTime, acted |-> NoRelease, action |-> NoTime,
           reported |-> NoRelease, request |-> NoRequest]

NoTick == [stage |-> "idle", began |-> 0, seen |-> NoRelease, resumed |-> FALSE]

RollbackInit ==
  /\ live \in Releases /\ clock = 0
  /\ phase \in {"shadow", "approval-required", "catastrophic-auto"}
  /\ file = NoFile /\ copy = NoFile /\ tick = NoTick
  /\ calls = 0 /\ production = 0

-----------------------------------------------------------------------------
At(stage)  == tick.stage = stage
Goto(stage) == tick' = [tick EXCEPT !.stage = stage]
EndTick    == tick' = NoTick
Save(s)    == copy' = s /\ file' = s
World      == <<live, clock, phase, production>>

\* What tick() makes of a release it had not seen.
Watch(s, sha) ==
  [s EXCEPT !.prev = s.current, !.new = sha, !.current = sha, !.start = clock,
            !.acted = NoRelease, !.reported = NoRelease, !.request = NoRequest]

\* tick up to its first await.  The version may not be readable.
TickBegins ==
  /\ At("idle")
  /\ \E sha \in {live, NoRelease} :
       /\ tick' = [NoTick EXCEPT !.stage = "judge", !.began = clock, !.seen = sha]
       /\ IF sha = NoRelease \/ sha = file.current
            THEN copy' = file /\ UNCHANGED <<file, calls>>
          ELSE IF file.current = NoRelease
            THEN Save([file EXCEPT !.current = sha]) /\ UNCHANGED calls
          ELSE Save(Watch(file, sha)) /\ calls' = 0
  /\ UNCHANGED World

InWindow == copy.start # NoTime /\ tick.began - copy.start <= Heightened

\* pendingProposalEvaluation, and pendingProposalNeedsAttention
Resumable ==
  /\ copy.request.status = "pending" /\ copy.request.critical
  /\ tick.began <= copy.request.created + ProposalTtl
NeedsAttention ==
  Resumable /\ (copy.request.confirmed \/ copy.request.message # "sent")

\* evaluate without readiness; an ambiguous signal, or a release that is not
\* the one production was seen to run, is for people to look at.
Judge ==
  /\ At("judge")
  /\ \E signal \in IF InWindow THEN {"observe", "investigate", "recommend"}
                   ELSE {"observe"} :
       LET resumed == signal = "observe" /\ NeedsAttention
       IN  IF signal = "observe" /\ ~resumed THEN EndTick
           ELSE IF signal = "investigate" \/ tick.seen # copy.new THEN Goto("alert")
           ELSE tick' = [tick EXCEPT !.stage = "ready", !.resumed = resumed]
  /\ UNCHANGED <<file, copy, calls, World>>

\* alertBlockedOnce: the file is written back if the alert went out and is new.
BlockedAlert ==
  /\ At("alert")
  /\ file' \in {file, copy} /\ copy' = copy
  /\ EndTick
  /\ UNCHANGED <<calls, World>>

-----------------------------------------------------------------------------
(***************************************************************************)
(* The tick after buildReadiness                                           *)
(***************************************************************************)
Ready == At("ready") /\ UNCHANGED <<calls, World>>

Acted  == copy.acted = copy.new
Cooled(now) == copy.action = NoTime \/ now - copy.action >= Cooldown

\* assessRollback with the guardrails that nobody can override; a resumed
\* proposal is not assessed again.
Barred == ~tick.resumed /\ phase # "shadow" /\ (Acted \/ ~Cooled(tick.began))

\* No verified candidate, no attestation of a reversible release, a guardrail,
\* or a signal that has become ambiguous.
NotReady == Ready /\ Goto("alert") /\ UNCHANGED <<file, copy>>

\* action = direct_rollback_permitted
DirectPermitted ==
  /\ Ready /\ ~tick.resumed /\ ~Barred
  /\ phase = "catastrophic-auto"
  /\ Goto("actuate")
  /\ UNCHANGED <<file, copy>>

ShadowReport ==
  /\ Ready /\ phase = "shadow"
  /\ IF copy.reported = copy.new THEN UNCHANGED <<file, copy>>
     ELSE Save([copy EXCEPT !.reported = copy.new])
  /\ EndTick

\* prepareApprovalProposal: whether the one there is still stands.
Stands ==
  copy.request.status = "pending" /\ copy.request.created + ProposalTtl > tick.began

\* A new proposal, of an evaluation that may by now have cleared.
Prepared(critical) ==
  IF Stands THEN copy
  ELSE [copy EXCEPT !.reported = NoRelease,
          !.request = [NoRequest EXCEPT !.status = "pending", !.created = tick.began,
                                        !.critical = critical]]

\* validateApprovalConfirmation of what the ingress wrote for this proposal
Confirmed(request) ==
  /\ request.status = "pending" /\ request.confirmed
  /\ tick.began <= request.created + ProposalTtl

\* The confirmation is consumed, and the file written, before anything is done.
ConsumeConfirmation ==
  /\ Ready /\ phase # "shadow" /\ ~Barred
  /\ Stands /\ Confirmed(copy.request)
  /\ Save([copy EXCEPT !.request.status = "consumed", !.request.confirmed = FALSE])
  /\ Goto("actuate")

ProposeRollback(critical) ==
  /\ Ready /\ phase # "shadow" /\ ~Barred
  /\ ~(Stands /\ Confirmed(copy.request))
  /\ copy' = Prepared(critical)
  /\ file' = IF Stands THEN file ELSE copy'
  /\ IF copy'.reported = copy'.new THEN EndTick ELSE Goto("deliver")

\* sendApprovalProposal: posted or looked up, the file is written with the result.
DeliverProposal ==
  /\ At("deliver")
  /\ \E message \in {"none", "waiting", "sent"} :
       Save([copy EXCEPT !.request.message = message,
               !.reported = IF message = "sent" THEN copy.new ELSE @])
  /\ EndTick
  /\ UNCHANGED <<calls, World>>

-----------------------------------------------------------------------------
(***************************************************************************)
(* rollbackToTarget                                                        *)
(***************************************************************************)

\* The kill switch, the hard stop, the token, or a guardrail.
ActuateRefused ==
  /\ At("actuate") /\ EndTick
  /\ UNCHANGED <<file, copy, calls, World>>

\* Defect: the attempt is recorded once its outcome is known.
ActuateUnrecorded ==
  /\ At("actuate") /\ ~Acted /\ Cooled(clock)
  /\ copy' = [copy EXCEPT !.acted = copy.new, !.action = clock] /\ file' = file
  /\ Goto("issue")
  /\ UNCHANGED <<calls, World>>

\* The attempt is consumed, and the file written, before Vercel is called.
Actuate ==
  /\ At("actuate") /\ ~Acted /\ Cooled(clock)
  /\ Save([copy EXCEPT !.acted = copy.new, !.action = clock])
  /\ Goto("issue")
  /\ UNCHANGED <<calls, World>>

\* Vercel is asked; an error leaves open whether it will do it.
Issue ==
  /\ At("issue")
  /\ calls' = calls + 1
  /\ live' \in {live, copy.prev}
  /\ \/ Goto("verify") /\ UNCHANGED <<file, copy>>
     \/ EndTick /\ Save(copy)
  /\ UNCHANGED <<clock, phase, production>>

\* Two and a half minutes of polling, and the outcome.
Verify ==
  /\ At("verify") /\ Save(copy) /\ EndTick
  /\ UNCHANGED <<calls, World>>

-----------------------------------------------------------------------------
\* The ingress attaches a confirmation that answers the proposal in time.
Confirm ==
  /\ file.request.status = "pending" /\ ~file.request.confirmed
  /\ file.request.message # "none"
  /\ clock <= file.request.created + ProposalTtl
  /\ file' = [file EXCEPT !.request.confirmed = TRUE]
  /\ UNCHANGED <<copy, tick, calls, World>>

Deploy ==
  /\ production < MaxProduction
  /\ \E sha \in Releases \ {live} : live' = sha
  /\ production' = production + 1
  /\ UNCHANGED <<clock, phase, file, copy, tick, calls>>

ClockTicks ==
  /\ clock < MaxClock /\ clock' = clock + 1
  /\ UNCHANGED <<live, phase, file, copy, tick, calls, production>>

\* The process is started again by pm2.
RollbackRestart ==
  /\ tick' = NoTick /\ copy' = file
  /\ UNCHANGED <<file, calls, World>>

TickStep ==
  \/ TickBegins \/ Judge \/ BlockedAlert \/ NotReady \/ DirectPermitted
  \/ ShadowReport \/ ConsumeConfirmation \/ (\E c \in BOOLEAN : ProposeRollback(c))
  \/ DeliverProposal \/ ActuateRefused \/ Actuate \/ Issue \/ Verify

RollbackStep == TickStep \/ Confirm \/ Deploy \/ ClockTicks

RollbackSpec == RollbackInit /\ [][RollbackStep \/ RollbackRestart]_rollbackVars

-----------------------------------------------------------------------------
RollbackTypeOK ==
  /\ live \in Releases /\ clock \in Times /\ calls \in Nat
  /\ phase \in {"shadow", "approval-required", "catastrophic-auto"}
  /\ file \in File /\ copy \in File
  /\ tick \in [stage : {"idle", "judge", "alert", "ready", "deliver", "actuate",
                        "issue", "verify"},
               began : Times, seen : Shas, resumed : BOOLEAN]
  /\ production \in 0 .. MaxProduction

\* "The attempt is durably consumed before the Vercel call; a crash or ambiguous
\* response is never retried automatically": while a release is watched Vercel
\* is asked at most once, whatever the tick was doing when the process died, and
\* whatever it wrote back over the file.
OneAttemptPerWatch == calls <= 1
=============================================================================
