---------------------------- MODULE AlertDelivery ----------------------------
(***************************************************************************)
(* How services/alert-engine.js gets a saved alert into the WhatsApp       *)
(* group.  A tick first retries the unsent rows of the alerts table, then  *)
(* runs the detectors, then saves and posts what they found, one alert at  *)
(* a time.  A POST to the support API is accepted long before Evolution    *)
(* delivers the message, so an accepted POST is confirmed by polling, and  *)
(* a row whose message is still unconfirmed is only replaced once that     *)
(* message has failed.                                                     *)
(*                                                                         *)
(* Ticks are started by setInterval, whatever the previous one is doing:   *)
(* Ticks is the set of slots, one slot means ticks that never overlap.     *)
(* What the detectors look for, message texts and the two second pauses    *)
(* are left out.  The support API and Evolution are external: a message    *)
(* is pending until it is sent or has failed, and both are final.          *)
(***************************************************************************)
EXTENDS Naturals, Sequences

CONSTANTS
  Alerts,       \* alerts the detectors may find
  Ticks,        \* slots for ticks in flight
  NoAlert,      \* not an alert
  RetryLimit,   \* UNSENT_RETRY_SEND_LIMIT: POSTs of one retry pass
  RetryWindow,  \* UNSENT_RETRY_WINDOW_MS
  MaxAlertAge,  \* MAX_ALERT_AGE_MS
  MaxTime,      \* bound on the clock
  MaxMsgs,      \* bound on the messages of the support API
  MaxFaults,    \* bound on failed calls and updates, lost answers and failed
                \* deliveries
  MaxCrashes    \* bound on restarts of the engine

ASSUME DeliveryAssumption ==
  /\ NoAlert \notin Alerts
  /\ {RetryLimit, RetryWindow, MaxAlertAge, MaxTime, MaxMsgs, MaxFaults,
      MaxCrashes} \subseteq Nat
  /\ RetryLimit > 0

VARIABLES
  clock,
  table,    \* alerts.db, by alert
  msgs,     \* messages of the support API; a message's id is its index
  tick,     \* the state of each tick in flight
  detected, \* alerts some tick has detected
  faults, crashes,
  lost,     \* history: accepted POSTs whose id the engine did not record
  raced     \* history: alerts two ticks in flight had in hand at once

vars == <<clock, table, msgs, tick, detected, faults, crashes, lost, raced>>

-----------------------------------------------------------------------------
MsgId  == 1 .. MaxMsgs
NoMsg  == 0
Status == {"pending", "sent", "failed"}

\* wa = NoMsg is a NULL wa_message_id.
Row == [saved : BOOLEAN, created : 0 .. MaxTime, sent : BOOLEAN,
        wa : MsgId \cup {NoMsg}]

\* rows:  the unsent rows the retry pass read, still to be handled
\* wa:    the message ids it read with them
\* seen:  what the one status request said of those messages
\* posts: the POSTs the retry pass made
\* todo:  detected alerts still to be saved and dispatched
\* cur, msg: the alert being posted and the id its POST returned
\* back:  where the tick goes on after the POST
Idle == [pc |-> "idle", rows |-> {}, wa |-> [a \in Alerts |-> NoMsg],
         seen |-> [a \in Alerts |-> "unknown"], posts |-> 0, todo |-> {},
         cur |-> NoAlert, msg |-> NoMsg, back |-> "idle"]

Init ==
  /\ clock = 0
  /\ table = [a \in Alerts |-> [saved |-> FALSE, created |-> 0,
                                sent |-> FALSE, wa |-> NoMsg]]
  /\ msgs = <<>>
  /\ tick = [t \in Ticks |-> Idle]
  /\ detected = {}
  /\ faults = 0 /\ crashes = 0 /\ lost = 0
  /\ raced = {}

\* A fault of the environment is drawn from the budget.
Fault == faults < MaxFaults /\ faults' = faults + 1

Goto(t, new) == tick' = [tick EXCEPT ![t] = new]

-----------------------------------------------------------------------------
(***************************************************************************)
(* The retry pass                                                          *)
(***************************************************************************)

Unsent == {a \in Alerts : /\ table[a].saved
                          /\ ~table[a].sent
                          /\ clock <= table[a].created + RetryWindow}

\* The alerts a tick has read or found and not done with.
InHand(t) == tick[t].rows \cup tick[t].todo \cup ({tick[t].cur} \ {NoAlert})

\* retryUnsentAlerts reads the unsent rows of the window once, also those
\* another tick in flight has in hand.
BeginTick(t) ==
  /\ tick[t].pc = "idle"
  /\ Goto(t, [Idle EXCEPT !.pc = IF Unsent = {} THEN "detect" ELSE "fetch",
                          !.rows = Unsent,
                          !.wa = [a \in Alerts |-> table[a].wa]])
  /\ raced' = raced \cup (Unsent \cap UNION {InHand(u) : u \in Ticks \ {t}})
  /\ UNCHANGED <<clock, table, msgs, detected, faults, crashes, lost>>

\* fetchWhatsappDeliveryStatuses: one request for all ids.  An id it cannot
\* see, or any failure of the request, leaves the status unknown.
StatusOf(m) == IF m = NoMsg THEN "unknown" ELSE msgs[m].status

FetchStatuses(t) ==
  /\ tick[t].pc = "fetch"
  /\ \/ /\ Goto(t, [tick[t] EXCEPT
              !.pc = "retry",
              !.seen = [a \in Alerts |->
                          IF a \in tick[t].rows THEN StatusOf(tick[t].wa[a])
                          ELSE "unknown"]])
        /\ UNCHANGED faults
     \/ /\ \E a \in tick[t].rows : tick[t].wa[a] # NoMsg
        /\ Fault
        /\ Goto(t, [tick[t] EXCEPT !.pc = "retry"])
  /\ UNCHANGED <<clock, table, msgs, detected, crashes, lost, raced>>

\* ORDER BY created_at ASC
NextRow(t, a) ==
  /\ tick[t].pc = "retry"
  /\ a \in tick[t].rows
  /\ \A b \in tick[t].rows : table[a].created <= table[b].created

\* Defect: everything but a confirmed delivery counts as a failure.
MayResendUnlessSent(t, a) == tick[t].seen[a] # "sent"

\* Defect: a failed message is never replaced.
MayResendUnposted(t, a) == tick[t].wa[a] = NoMsg

\* A row without an id was never accepted; one with an id needs a failure.
MayResend(t, a) ==
  tick[t].wa[a] = NoMsg \/ tick[t].seen[a] = "failed"

LateConfirm(t, a) ==
  /\ NextRow(t, a)
  /\ tick[t].wa[a] # NoMsg
  /\ tick[t].seen[a] = "sent"
  /\ \/ table' = [table EXCEPT ![a].sent = TRUE] /\ UNCHANGED faults
     \/ UNCHANGED table /\ Fault
  /\ Goto(t, [tick[t] EXCEPT !.rows = @ \ {a}])
  /\ UNCHANGED <<clock, msgs, detected, crashes, lost, raced>>

\* Still unconfirmed, or the pass has used up its POSTs.
SkipRow(t, a) ==
  /\ NextRow(t, a)
  /\ tick[t].seen[a] # "sent"
  /\ ~MayResend(t, a) \/ tick[t].posts >= RetryLimit
  /\ Goto(t, [tick[t] EXCEPT !.rows = @ \ {a}])
  /\ UNCHANGED <<clock, table, msgs, detected, faults, crashes, lost, raced>>

Resend(t, a) ==
  /\ NextRow(t, a)
  /\ MayResend(t, a)
  /\ tick[t].posts < RetryLimit
  /\ Goto(t, [tick[t] EXCEPT !.pc = "post", !.back = "retry", !.cur = a,
                             !.rows = @ \ {a}, !.posts = @ + 1])
  /\ UNCHANGED <<clock, table, msgs, detected, faults, crashes, lost, raced>>

-----------------------------------------------------------------------------
(***************************************************************************)
(* Detection and first dispatch                                            *)
(***************************************************************************)

\* The detectors run to completion; what they find is in memory only.
Detect(t) ==
  /\ \/ tick[t].pc = "detect"
     \/ tick[t].pc = "retry" /\ tick[t].rows = {}
  /\ \E new \in SUBSET (Alerts \ detected) :
       /\ detected' = detected \cup new
       /\ table' = [a \in Alerts |-> IF a \in new
                                     THEN [table[a] EXCEPT !.created = clock]
                                     ELSE table[a]]
       /\ Goto(t, IF new = {} THEN Idle
                  ELSE [Idle EXCEPT !.pc = "dispatch", !.todo = new])
  /\ UNCHANGED <<clock, msgs, faults, crashes, lost, raced>>

\* The freshness guard is about the event, which may be any time older than
\* its detection.
DropStale(t, a) ==
  /\ tick[t].pc = "dispatch"
  /\ a \in tick[t].todo
  /\ Goto(t, [tick[t] EXCEPT !.todo = @ \ {a}])
  /\ UNCHANGED <<clock, table, msgs, detected, faults, crashes, lost, raced>>

\* A fresh alert: saveAlert, then dispatchAlert.
SaveAndPost(t, a) ==
  /\ tick[t].pc = "dispatch"
  /\ a \in tick[t].todo
  /\ clock <= table[a].created + MaxAlertAge
  /\ \/ /\ table' = [table EXCEPT ![a].saved = TRUE]
        /\ Goto(t, [tick[t] EXCEPT !.pc = "post", !.back = "dispatch",
                                   !.cur = a, !.todo = @ \ {a}])
        /\ UNCHANGED faults
     \/ /\ Fault
        /\ Goto(t, [tick[t] EXCEPT !.todo = @ \ {a}])
        /\ UNCHANGED table
  /\ UNCHANGED <<clock, msgs, detected, crashes, lost, raced>>

EndTick(t) ==
  /\ tick[t].pc = "dispatch"
  /\ tick[t].todo = {}
  /\ Goto(t, Idle)
  /\ UNCHANGED <<clock, table, msgs, detected, faults, crashes, lost, raced>>

-----------------------------------------------------------------------------
(***************************************************************************)
(* sendWhatsappAlert, used by both paths                                   *)
(***************************************************************************)

\* tick[t] after the POST is over.
Done(t) == [tick[t] EXCEPT !.pc = tick[t].back, !.cur = NoAlert, !.msg = NoMsg]

\* The POST is refused, or its answer never arrives: no id either way.
PostFails(t) ==
  /\ tick[t].pc = "post"
  /\ Fault
  /\ \/ UNCHANGED <<msgs, lost>>
     \/ /\ Len(msgs) < MaxMsgs
        /\ msgs' = Append(msgs, [alert |-> tick[t].cur, status |-> "pending"])
        /\ lost' = lost + 1
  /\ Goto(t, Done(t))
  /\ UNCHANGED <<clock, table, detected, crashes, raced>>

PostAccepted(t) ==
  /\ tick[t].pc = "post"
  /\ Len(msgs) < MaxMsgs
  /\ msgs' = Append(msgs, [alert |-> tick[t].cur, status |-> "pending"])
  /\ Goto(t, [tick[t] EXCEPT !.pc = "confirm", !.msg = Len(msgs) + 1])
  /\ UNCHANGED <<clock, table, detected, faults, crashes, lost, raced>>

\* Defect: an accepted POST counts as a delivery.
ConfirmedWhenAccepted(t) == TRUE

\* What the last poll of confirmWhatsappDelivery must have read for "sent".
Confirmed(t) == msgs[tick[t].msg].status = "sent"

\* The polls end; the id is recorded and a confirmed row is marked sent.
\* A poll may miss a message that is sent already, and either update of the
\* row may fail: a row left unmarked is checked again, an id not recorded is
\* lost.
Confirm(t) ==
  /\ tick[t].pc = "confirm"
  /\ \E recorded, marked \in BOOLEAN :
       /\ marked => Confirmed(t)
       /\ IF recorded /\ marked = Confirmed(t) THEN UNCHANGED faults ELSE Fault
       /\ lost' = IF recorded THEN lost ELSE lost + 1
       /\ table' = [table EXCEPT
            ![tick[t].cur].wa = IF recorded THEN tick[t].msg ELSE @,
            ![tick[t].cur].sent = @ \/ marked]
  /\ Goto(t, Done(t))
  /\ UNCHANGED <<clock, msgs, detected, crashes, raced>>

-----------------------------------------------------------------------------
(***************************************************************************)
(* The environment                                                         *)
(***************************************************************************)

\* Evolution resolves a message of the support API.
Deliver(m) ==
  /\ m \in DOMAIN msgs
  /\ msgs[m].status = "pending"
  /\ \/ msgs' = [msgs EXCEPT ![m].status = "sent"] /\ UNCHANGED faults
     \/ msgs' = [msgs EXCEPT ![m].status = "failed"] /\ Fault
  /\ UNCHANGED <<clock, table, tick, detected, crashes, lost, raced>>

Elapse ==
  /\ clock < MaxTime
  /\ clock' = clock + 1
  /\ UNCHANGED <<table, msgs, tick, detected, faults, crashes, lost, raced>>

\* PM2 restarts the engine: every tick in flight is gone, an accepted POST
\* between its answer and the record of its id is forgotten.
Crash ==
  /\ crashes < MaxCrashes
  /\ crashes' = crashes + 1
  /\ tick' = [t \in Ticks |-> Idle]
  /\ UNCHANGED <<clock, table, msgs, detected, faults, lost, raced>>

TickStep(t) ==
  \/ BeginTick(t) \/ FetchStatuses(t) \/ Detect(t) \/ EndTick(t)
  \/ PostFails(t) \/ PostAccepted(t) \/ Confirm(t)
  \/ \E a \in Alerts : \/ LateConfirm(t, a) \/ SkipRow(t, a) \/ Resend(t, a)
                       \/ DropStale(t, a) \/ SaveAndPost(t, a)

Next ==
  \/ \E t \in Ticks : TickStep(t)
  \/ \E m \in MsgId : Deliver(m)
  \/ Elapse
  \/ Crash

Spec == Init /\ [][Next]_vars

\* The event loop runs every tick to its end and setInterval starts the
\* next one; Evolution resolves every message it was given.
Fairness ==
  /\ \A t \in Ticks : WF_vars(TickStep(t))
  /\ \A m \in MsgId : WF_vars(Deliver(m))

FairSpec == Spec /\ Fairness

-----------------------------------------------------------------------------
(***************************************************************************)
(* Properties                                                              *)
(***************************************************************************)

TickState ==
  [pc : {"idle", "fetch", "retry", "detect", "dispatch", "post", "confirm"},
   rows : SUBSET Alerts,
   wa : [Alerts -> MsgId \cup {NoMsg}],
   seen : [Alerts -> Status \cup {"unknown"}],
   posts : 0 .. RetryLimit,
   todo : SUBSET Alerts,
   cur : Alerts \cup {NoAlert},
   msg : MsgId \cup {NoMsg},
   back : {"idle", "retry", "dispatch"}]

TypeOK ==
  /\ clock \in 0 .. MaxTime
  /\ table \in [Alerts -> Row]
  /\ msgs \in Seq([alert : Alerts, status : Status])
  /\ Len(msgs) <= MaxMsgs
  /\ tick \in [Ticks -> TickState]
  /\ detected \subseteq Alerts
  /\ faults \in 0 .. MaxFaults
  /\ crashes \in 0 .. MaxCrashes
  /\ lost \in 0 .. MaxFaults
  /\ raced \subseteq Alerts

\* A row is marked sent only when the group really received a message of
\* this very alert, over retries, late confirmations, overlapping ticks and
\* crashes.
SentMeansDelivered ==
  \A a \in Alerts :
    table[a].sent =>
      \E m \in DOMAIN msgs : msgs[m].alert = a /\ msgs[m].status = "sent"

\* Nobody reads the same alert twice: unless the answer to a POST was lost, the
\* engine was restarted or two ticks had the alert in hand at once, at most one
\* message of it is delivered, and none is still pending beside it.
NoVisibleDuplicate ==
  lost = 0 /\ crashes = 0 =>
    \A m, n \in DOMAIN msgs :
      /\ msgs[m].alert = msgs[n].alert /\ m < n
      /\ msgs[m].alert \notin raced
      => msgs[m].status = "failed"

\* A POST adds a message of the alert the tick has in hand.
Posts(t) ==
  tick[t].pc = "post" /\ tick'[t] # tick[t] /\ Len(msgs') > Len(msgs)

FailedOnRecord(a) == table[a].wa # NoMsg => msgs[table[a].wa].status = "failed"

\* Once a POST has a wa_message_id on record, only an explicit failure of that
\* message may trigger a replacement POST.
ReplacedOnlyAfterFailure ==
  [][\A t \in Ticks : Posts(t) => FailedOnRecord(tick[t].cur)]_vars

\* However ticks overlap and the engine restarts, it is broken in one way only:
\* another tick has given the row a new id since this one read it.
ReplacedUnlessOvertaken ==
  [][\A t \in Ticks : Posts(t) /\ table[tick[t].cur].wa = tick[t].wa[tick[t].cur]
                      => FailedOnRecord(tick[t].cur)]_vars

\* A saved alert is not forgotten: once the faults are over it is confirmed
\* as sent, unless its retry window ends first.
SavedIsSentOrExpires ==
  \A a \in Alerts :
    table[a].saved ~> \/ table[a].sent
                      \/ clock > table[a].created + RetryWindow
=============================================================================
