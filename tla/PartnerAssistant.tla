-------------------------- MODULE PartnerAssistant --------------------------
(***************************************************************************)
(* services/support-copilot/lib/partner-assistant-runtime.js: a message    *)
(* that mentions the bot in a group of a partner is claimed, Hermes is     *)
(* asked, and its answer is sent to the group or proposed for review.      *)
(*                                                                         *)
(* Every acquisition of a job is an attempt of its own, and a lease that   *)
(* has run out lets the next one start while the last is still at work:    *)
(* an attempt is therefore the actor of this module.  It gives way while   *)
(* Hermes, Evolution or the central API answers; settle() asks nobody      *)
(* whether the row is still its own.  Left out: what is asked and          *)
(* answered, and the record of an interaction after it was sent.           *)
(***************************************************************************)
EXTENDS InboundMessages

CONSTANT MaxTries  \* MAX_ATTEMPTS

ASSUME PartnerAssumption == MaxTries \in Nat \ {0}

VARIABLES
  partnerJob,  \* partner_assistant_jobs
  attempt,     \* what each attempt is at
  answers,     \* per message, the attempts whose answer Evolution took
  human        \* a person owns the conversation

partnerVars == <<partnerJob, attempt, answers, human>>

-----------------------------------------------------------------------------
Tries == 1 .. MaxTries
PartnerEnds == {"sent", "review", "failed"}

\* aged: the lease has run out, or the claim is as old; auto: auto_send.
PartnerJob == [status : {"none", "claimed", "retry", "processing"} \cup PartnerEnds,
               tries : 0 .. MaxTries, due : BOOLEAN, aged : BOOLEAN, auto : BOOLEAN]
NoPartnerJob == [status |-> "none", tries |-> 0, due |-> FALSE, aged |-> FALSE,
                 auto |-> FALSE]

PartnerInit ==
  /\ partnerJob = [m \in Messages |-> NoPartnerJob]
  /\ attempt = [m \in Messages |-> [k \in Tries |-> "idle"]]
  /\ answers = [m \in Messages |-> {}]
  /\ human \in BOOLEAN

-----------------------------------------------------------------------------
\* claimPartnerAssistantMessage in a conversation no person owns: INSERT OR
\* IGNORE.  In one that a person owns it writes nothing.
ClaimPartner(m, auto) ==
  /\ ~human
  /\ partnerJob' = IF partnerJob[m].status # "none" THEN partnerJob
                   ELSE [partnerJob EXCEPT ![m] =
                           [NoPartnerJob EXCEPT !.status = "claimed", !.auto = auto]]
  /\ UNCHANGED <<attempt, answers, human>>

\* settle: status and updated_at, whoever wrote the row last.
Settle(m, status) ==
  partnerJob' = [partnerJob EXCEPT ![m].status = status, ![m].due = FALSE,
                                   ![m].aged = FALSE]

\* Attempt k of m goes on to a stage.
Move(m, k, stage) == attempt' = [attempt EXCEPT ![m][k] = stage]

\* Defect: a job whose worker died is never acquired again.
AcquirableFresh(m) ==
  \/ partnerJob[m].status = "claimed"
  \/ partnerJob[m].status = "retry" /\ partnerJob[m].due

Acquirable(m) ==
  LET row == partnerJob[m]
  IN  \/ row.status = "claimed"
      \/ row.status = "retry" /\ row.due
      \/ row.status = "processing" /\ row.aged

\* acquire, for a handler or for the sweep.
AcquirePartner(m) ==
  LET k == partnerJob[m].tries + 1
  IN  /\ Acquirable(m) /\ k \in Tries
      /\ partnerJob' = [partnerJob EXCEPT ![m].tries = k, ![m].due = FALSE,
           ![m].aged = FALSE, ![m].status = IF human THEN "failed" ELSE "processing"]
      /\ IF human THEN UNCHANGED attempt ELSE Move(m, k, "asking")
      /\ UNCHANGED <<answers, human>>

Asked(m, k) == attempt[m][k] = "asking" /\ UNCHANGED <<answers, human>>

\* A person took the conversation over while Hermes answered.
AnswerSuppressed(m, k) ==
  /\ Asked(m, k) /\ human
  /\ Settle(m, "failed") /\ Move(m, k, "idle")

Answered(m, k) ==
  /\ Asked(m, k) /\ ~human
  /\ Move(m, k, IF partnerJob[m].auto THEN "sending" ELSE "proposing")
  /\ UNCHANGED partnerJob

\* Hermes, Evolution (which may have taken the answer) or the central API failed;
\* evidence that does not hold together ends the job at once.
AttemptFails(m, k) ==
  /\ attempt[m][k] \in {"asking", "sending", "proposing"}
  /\ \E status \in {"retry", "failed"} :
       /\ status = "retry" => k < MaxTries
       /\ status = "failed" => attempt[m][k] = "asking" \/ k = MaxTries
       /\ Settle(m, status)
  /\ Move(m, k, "idle")
  /\ answers' \in IF attempt[m][k] = "sending"
                   THEN {answers, [answers EXCEPT ![m] = @ \cup {k}]} ELSE {answers}
  /\ UNCHANGED human

\* The message is recorded before the job is: a crash may come in between.
AnswerTaken(m, k) ==
  /\ attempt[m][k] = "sending"
  /\ answers' = [answers EXCEPT ![m] = @ \cup {k}]
  /\ Move(m, k, "sent")
  /\ UNCHANGED <<partnerJob, human>>

AnswerSettled(m, k) ==
  /\ attempt[m][k] = "sent"
  /\ Settle(m, "sent") /\ Move(m, k, "idle")
  /\ UNCHANGED <<answers, human>>

Proposed(m, k) ==
  /\ attempt[m][k] = "proposing"
  /\ Settle(m, "review") /\ Move(m, k, "idle")
  /\ UNCHANGED <<answers, human>>

-----------------------------------------------------------------------------
\* A retry falls due; a lease runs out.
PartnerClock(m) ==
  /\ \/ /\ partnerJob[m].status = "retry" /\ ~partnerJob[m].due
        /\ partnerJob' = [partnerJob EXCEPT ![m].due = TRUE]
     \/ /\ partnerJob[m].status = "processing" /\ ~partnerJob[m].aged
        /\ partnerJob' = [partnerJob EXCEPT ![m].aged = TRUE]
  /\ UNCHANGED <<attempt, answers, human>>

\* takeover and release
HandOver ==
  /\ human' = ~human
  /\ UNCHANGED <<partnerJob, attempt, answers>>

\* The attempts die; nothing is written at start-up.
PartnerRestart ==
  /\ attempt' = [m \in Messages |-> [k \in Tries |-> "idle"]]
  /\ UNCHANGED <<partnerJob, answers, human>>

-----------------------------------------------------------------------------
AttemptStep(m, k) ==
  \/ AnswerSuppressed(m, k) \/ Answered(m, k) \/ AttemptFails(m, k)
  \/ AnswerTaken(m, k) \/ AnswerSettled(m, k) \/ Proposed(m, k)

PartnerWork(m) == AcquirePartner(m) \/ \E k \in Tries : AttemptStep(m, k)

PartnerStep == (\E m \in Messages : PartnerWork(m) \/ PartnerClock(m)) \/ HandOver

PartnerNext ==
  \/ PartnerStep
  \/ \E m \in Messages, auto \in BOOLEAN : ClaimPartner(m, auto)
  \/ PartnerRestart

PartnerSpec == PartnerInit /\ [][PartnerNext]_partnerVars

-----------------------------------------------------------------------------
PartnerTypeOK ==
  /\ partnerJob \in [Messages -> PartnerJob]
  /\ attempt \in [Messages -> [Tries -> {"idle", "asking", "sending", "sent", "proposing"}]]
  /\ answers \in [Messages -> SUBSET Tries]
  /\ human \in BOOLEAN

\* A job that says "sent" has an answer that Evolution took, even when attempts
\* whose lease ran out settle it late and over each other.
SentMeansAnswered ==
  \A m \in Messages : partnerJob[m].status = "sent" => answers[m] # {}

\* Every claimed message comes to an end, but for a job whose last attempt died
\* with the process or was overwritten by an older one: nothing takes it up.
Orphaned(m) ==
  /\ partnerJob[m].status \in {"processing", "retry"} /\ partnerJob[m].tries = MaxTries
  /\ \A k \in Tries : attempt[m][k] = "idle"
ClaimIsHandled ==
  \A m \in Messages : partnerJob[m].status \in {"claimed", "retry", "processing"} ~>
    (partnerJob[m].status \in PartnerEnds \/ Orphaned(m))
=============================================================================
