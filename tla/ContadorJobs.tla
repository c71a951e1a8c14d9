---------------------------- MODULE ContadorJobs ----------------------------
(***************************************************************************)
(* services/support-copilot/lib/contador-runtime.js, its job queue: a      *)
(* document or a question of the accounting group is queued, handled by    *)
(* the accounting agent and answered on WhatsApp.                          *)
(*                                                                         *)
(* reply_status is the fence of the answer: it is set before the request   *)
(* to Evolution leaves, in a write of its own, and the row's status is     *)
(* written once the request has ended.  A crash may fall between any two   *)
(* of these writes.  Left out: what the agent asks the Next service, the   *)
(* limit of five jobs a pass, the pause of all jobs when a model is down   *)
(* (the job's own next attempt stands for it), and the memory it learns.   *)
(***************************************************************************)
EXTENDS InboundMessages

CONSTANT MaxJobAttempts  \* MAX_ATTEMPTS

ASSUME ContadorAssumption == MaxJobAttempts \in Nat \ {0}

VARIABLES
  contadorJob,   \* contador_jobs, by message
  contadorOn,    \* configured(): the environment of the process
  contadorPass,  \* processPendingJobs
  replies        \* per message, the replies Evolution took or may have taken

contadorVars == <<contadorJob, contadorOn, contadorPass, replies>>

-----------------------------------------------------------------------------
Waiting     == {"pending", "retry", "waiting_model"}
JobEnds     == {"completed", "blocked", "failed", "delivery_unknown"}
JobStatuses == {"none", "processing"} \cup Waiting \cup JobEnds

\* reply: reply_status, "none" for NULL.  extracted: the payload of an image
\* has what the classifier read on it; other kinds need nothing of the sort.
ContadorJob == [status : JobStatuses, attempts : Nat, due : BOOLEAN,
                reply : {"none", "sending", "sent", "unknown"},
                kind : {"image", "other"}, extracted : BOOLEAN]

NoContadorJob == [status |-> "none", attempts |-> 0, due |-> FALSE,
                  reply |-> "none", kind |-> "other", extracted |-> FALSE]

NewJob(kind, extracted) ==
  [NoContadorJob EXCEPT !.status = "pending", !.due = TRUE, !.kind = kind,
                        !.extracted = extracted]

\* at: the current job; answered: the jobs listed with reply_status sent; result:
\* how the current job's handler ended.
NoContadorPass == [stage |-> "idle", todo |-> {}, at |-> {}, answered |-> {},
                   result |-> "none"]

ContadorInit ==
  /\ contadorJob = [m \in Messages |-> NoContadorJob]
  /\ contadorOn \in BOOLEAN
  /\ contadorPass = NoContadorPass
  /\ replies = [m \in Messages |-> 0]

-----------------------------------------------------------------------------
\* enqueueContadorMessage of a message that classifyInbound does not ignore:
\* INSERT OR IGNORE.
Enqueued(m, kind) ==
  IF contadorJob[m].status # "none" THEN contadorJob
  ELSE [contadorJob EXCEPT ![m] = NewJob(kind, kind = "other")]

\* deferredContadorJob: a new job, or what revives a blocked one of an image.
Deferred(m, kind) ==
  LET row == contadorJob[m]
  IN  IF row.status = "none" THEN [contadorJob EXCEPT ![m] = NewJob(kind, TRUE)]
      ELSE IF row.status = "blocked" /\ kind = "image"
        THEN [contadorJob EXCEPT ![m] = [row EXCEPT !.status = "pending",
                !.attempts = 0, !.due = TRUE, !.extracted = TRUE]]
      ELSE contadorJob

Enqueue(m, kind) ==
  /\ contadorOn
  /\ contadorJob' = Enqueued(m, kind)
  /\ UNCHANGED <<contadorOn, contadorPass, replies>>

Defer(m, kind) ==
  /\ contadorJob' = Deferred(m, kind)
  /\ UNCHANGED <<contadorOn, contadorPass, replies>>

-----------------------------------------------------------------------------
(***************************************************************************)
(* processPendingJobs                                                      *)
(***************************************************************************)
BeginContadorPass ==
  /\ contadorOn /\ contadorPass.stage = "idle"
  /\ LET due == {m \in Messages : contadorJob[m].status \in Waiting /\ contadorJob[m].due}
     IN  contadorPass' = [NoContadorPass EXCEPT !.stage = "next", !.todo = due,
           !.answered = {m \in due : contadorJob[m].reply = "sent"}]
  /\ UNCHANGED <<contadorJob, contadorOn, replies>>

EndContadorPass ==
  /\ contadorPass.stage = "next" /\ contadorPass.todo = {}
  /\ contadorPass' = NoContadorPass
  /\ UNCHANGED <<contadorJob, contadorOn, replies>>

\* The pass goes on to a stage, with a result for the job it is at.
Stage(stage, result) ==
  contadorPass' = [contadorPass EXCEPT !.stage = stage, !.result = result]

AtJob(m, stage) == contadorPass.at = {m} /\ contadorPass.stage = stage
Handled(m) == AtJob(m, "handle")

\* A job that was answered before is not handled again.
ClaimJob(m) ==
  /\ contadorPass.stage = "next" /\ m \in contadorPass.todo
  /\ contadorJob[m].status \in Waiting
  /\ contadorJob' = [contadorJob EXCEPT ![m].status = "processing",
                                        ![m].attempts = @ + 1]
  /\ contadorPass' = [contadorPass EXCEPT !.todo = @ \ {m}, !.at = {m},
       !.stage = IF m \in contadorPass.answered THEN "settle" ELSE "handle",
       !.result = IF m \in contadorPass.answered THEN "done" ELSE "none"]
  /\ UNCHANGED <<contadorOn, replies>>

\* contador.handle ends with no reply: silent, blocked, or an error of the
\* agent, of the media or of the Next service, which may forbid a retry.
HandleEnds(m) ==
  /\ Handled(m)
  /\ IF contadorJob[m].extracted
       THEN \E result \in {"done", "blocked", "error", "fatal", "model"} :
              Stage("settle", result)
       ELSE Stage("settle", "blocked")
  /\ UNCHANGED <<contadorJob, contadorOn, replies>>

\* Defect: only a reply that is known to have been sent bars another.
FenceLoose(m) ==
  /\ Handled(m) /\ contadorJob[m].extracted
  /\ contadorJob[m].reply # "sent"
  /\ contadorJob' = [contadorJob EXCEPT ![m].reply = "sending"]
  /\ replies' = [replies EXCEPT ![m] = @ + 1]
  /\ Stage("send", "none")
  /\ UNCHANGED <<contadorOn>>

\* sendReply up to the request.
Fence(m) ==
  /\ Handled(m) /\ contadorJob[m].extracted
  /\ contadorJob[m].reply = "none"
  /\ contadorJob' = [contadorJob EXCEPT ![m].reply = "sending"]
  /\ replies' = [replies EXCEPT ![m] = @ + 1]
  /\ Stage("send", "none")
  /\ UNCHANGED <<contadorOn>>

\* An earlier attempt sent a reply and could not record what became of it.
FenceHeld(m) ==
  /\ Handled(m)
  /\ contadorJob[m].reply \in {"sending", "unknown"}
  /\ Stage("settle", "unknown")
  /\ UNCHANGED <<contadorJob, contadorOn, replies>>

Sending(m) == AtJob(m, "send")

\* recordOutbound; a question may still end as blocked (a correction the agent
\* could not use), or in an error.
ReplyTaken(m) ==
  /\ Sending(m)
  /\ contadorJob' = [contadorJob EXCEPT ![m].reply = "sent"]
  /\ \E result \in {"done", "blocked", "error"} :
       /\ contadorJob[m].kind = "image" => result = "done"
       /\ Stage("settle", result)
  /\ UNCHANGED <<contadorOn, replies>>

\* The transaction of recordOutbound fails: the fence stays where it is.
ReplyUnrecorded(m) ==
  /\ Sending(m)
  /\ Stage("settle", "error")
  /\ UNCHANGED <<contadorJob, contadorOn, replies>>

\* 4xx: WhatsApp did not take it.
ReplyRefused(m) ==
  /\ Sending(m)
  /\ contadorJob' = [contadorJob EXCEPT ![m].reply = "none"]
  /\ replies' = [replies EXCEPT ![m] = @ - 1]
  /\ Stage("settle", "error")
  /\ UNCHANGED <<contadorOn>>

\* No answer, or 5xx.
ReplyUnclear(m) ==
  /\ Sending(m)
  /\ contadorJob' = [contadorJob EXCEPT ![m].reply = "unknown"]
  /\ Stage("settle", "unknown")
  /\ UNCHANGED <<contadorOn, replies>>

\* The row after its handler has ended with result.
SettledJob(row, result) ==
  CASE result = "model"   -> [row EXCEPT !.status = "waiting_model",
                                         !.attempts = @ - 1, !.due = FALSE]
    [] result = "done"    -> [row EXCEPT !.status = "completed"]
    [] result = "blocked" -> [row EXCEPT !.status = "blocked"]
    [] result = "unknown" -> [row EXCEPT !.status = "delivery_unknown"]
    [] result = "error" /\ row.attempts < MaxJobAttempts ->
         [row EXCEPT !.status = "retry", !.due = FALSE]
    [] OTHER -> [row EXCEPT !.status = "failed"]

\* Without a model the pass gives up its other jobs too.
SettleJob(m) ==
  /\ AtJob(m, "settle")
  /\ contadorJob' = [contadorJob EXCEPT ![m] = SettledJob(@, contadorPass.result)]
  /\ contadorPass' = IF contadorPass.result = "model" THEN NoContadorPass
       ELSE [contadorPass EXCEPT !.stage = "next", !.at = {}, !.result = "none"]
  /\ UNCHANGED <<contadorOn, replies>>

-----------------------------------------------------------------------------
JobFallsDue(m) ==
  /\ contadorJob[m].status \in Waiting /\ ~contadorJob[m].due
  /\ contadorJob' = [contadorJob EXCEPT ![m].due = TRUE]
  /\ UNCHANGED <<contadorOn, contadorPass, replies>>

\* Defect: a job that was answered before the crash is not taken up again.
RecoveredUnanswered(row) ==
  IF row.status # "processing" THEN row
  ELSE IF row.reply = "sending"
    THEN [row EXCEPT !.status = "delivery_unknown", !.reply = "unknown"]
  ELSE IF row.reply = "none" THEN [row EXCEPT !.status = "retry", !.due = TRUE]
  ELSE row

\* recoverInterruptedContadorWork, of a job
RecoveredJob(row) ==
  IF row.status # "processing" THEN row
  ELSE IF row.reply = "sending"
    THEN [row EXCEPT !.status = "delivery_unknown", !.reply = "unknown"]
  ELSE IF row.reply \in {"none", "sent"}
    THEN [row EXCEPT !.status = "retry", !.due = TRUE]
  ELSE row

ContadorRestart ==
  /\ contadorOn' \in BOOLEAN
  /\ contadorJob' = IF contadorOn'
       THEN [m \in Messages |-> RecoveredJob(contadorJob[m])] ELSE contadorJob
  /\ contadorPass' = NoContadorPass
  /\ UNCHANGED replies

-----------------------------------------------------------------------------
ContadorWork ==
  \/ BeginContadorPass \/ EndContadorPass
  \/ \E m \in Messages :
       \/ ClaimJob(m) \/ HandleEnds(m) \/ Fence(m) \/ FenceHeld(m)
       \/ ReplyTaken(m) \/ ReplyUnrecorded(m) \/ ReplyRefused(m) \/ ReplyUnclear(m)
       \/ SettleJob(m)

ContadorStep ==
  \/ ContadorWork
  \/ \E m \in Messages : JobFallsDue(m)

ContadorNext ==
  \/ ContadorStep
  \/ \E m \in Messages, kind \in {"image", "other"} : Enqueue(m, kind) \/ Defer(m, kind)
  \/ ContadorRestart

ContadorSpec == ContadorInit /\ [][ContadorNext]_contadorVars

-----------------------------------------------------------------------------
ContadorTypeOK ==
  /\ contadorJob \in [Messages -> ContadorJob]
  /\ contadorOn \in BOOLEAN
  /\ contadorPass \in [stage : {"idle", "next", "handle", "send", "settle"},
                       todo : SUBSET Messages, at : SUBSET Messages,
                       answered : SUBSET Messages,
                       result : {"none", "done", "blocked", "error", "fatal",
                                 "model", "unknown"}]
  /\ replies \in [Messages -> Nat]

\* The group gets at most one answer to a message: a reply that was taken, or
\* may have been, bars every later one, across retries, failed writes and
\* restarts (CONTADOR.md: "instead of risking a duplicate confirmation").
AnsweredOnce == \A m \in Messages : replies[m] <= 1

\* Every job ends, unless the queue waits for a model that is down, or the job is
\* one whose process died between the two writes after an unclear reply, which
\* nothing takes up.
Stranded(row) == row.status = "processing" /\ row.reply = "unknown"
JobIsHandled ==
  \A m \in Messages : contadorJob[m].status \in {"pending", "retry", "processing"} ~>
    \/ contadorJob[m].status \in JobEnds
    \/ \E n \in Messages : contadorJob[n].status = "waiting_model"
    \/ Stranded(contadorJob[m])
    \/ ~contadorOn
=============================================================================
