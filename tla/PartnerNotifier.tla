--------------------------- MODULE PartnerNotifier ---------------------------
(***************************************************************************)
(* The notices of a charger fault to the partner who owns the charger:     *)
(* services/partner-fault-notifier.js.                                     *)
(*                                                                         *)
(* The alert engine calls notifyPartnerFault for each charger fault it has *)
(* saved and does not wait for it.  A notice is checked against the        *)
(* debounce of its charger and scenario, then, in live mode, the group of  *)
(* the partner is looked up, then the message is posted, and only a POST   *)
(* known to be accepted is entered into the debounce.  Neither call has a  *)
(* time-out.  Messages and the classification into scenarios are left      *)
(* out: a case is a charger and a scenario.  The support API is external.  *)
(***************************************************************************)
EXTENDS Naturals, FiniteSets

CONSTANTS
  Cases,          \* charger and scenario
  Unconfigured,   \* those whose charger has no entry in partner-alert-stations.json
  Calls,          \* calls of notifyPartnerFault that may run at a time
  NoCase,
  NoticeWindow,   \* PARTNER_DEBOUNCE_MS
  MaxHours,       \* bound on the clock
  MaxMishaps      \* bound on failed calls and writes and on restarts

ASSUME NotifierAssumption ==
  /\ Unconfigured \subseteq Cases /\ NoCase \notin Cases
  /\ {NoticeWindow, MaxHours, MaxMishaps} \subseteq Nat

VARIABLES
  hour,
  liveMode,   \* PARTNER_ALERT_MODE = live
  call,       \* Calls -> the notice under way
  lastNotice, \* _debounce
  noticeFile, \* partner_alert_debounce.json
  told,       \* the messages the support API accepted
  mishaps

notifierVars == <<hour, liveMode, call, lastNotice, noticeFile, told, mishaps>>

-----------------------------------------------------------------------------
NoCall == [case |-> NoCase, asked |-> 0, at |-> "idle"]
NeverTold == [c \in {} |-> 0]

NotifierInit ==
  /\ hour = 0 /\ liveMode \in BOOLEAN
  /\ call = [p \in Calls |-> NoCall]
  /\ lastNotice = NeverTold /\ noticeFile = NeverTold
  /\ told = {} /\ mishaps = 0

Mishap == mishaps < MaxMishaps /\ mishaps' = mishaps + 1

HourPasses ==
  /\ hour < MaxHours /\ hour' = hour + 1
  /\ UNCHANGED <<liveMode, call, lastNotice, noticeFile, told, mishaps>>

\* Defect: the debounce looks at the charger's last notice one hour too short.
NoticeDueEarly(c) == c \in DOMAIN lastNotice => hour + 1 >= lastNotice[c] + NoticeWindow

\* ~isDebounced
NoticeDue(c) == c \in DOMAIN lastNotice => hour >= lastNotice[c] + NoticeWindow

\* notifyPartnerFault up to its first await.
Notify(p, c) ==
  /\ call[p] = NoCall
  /\ c \notin Unconfigured /\ NoticeDue(c)
  /\ call' = [call EXCEPT ![p] = [case |-> c, asked |-> hour,
                                  at |-> IF liveMode THEN "resolve" ELSE "post"]]
  /\ UNCHANGED <<hour, liveMode, lastNotice, noticeFile, told, mishaps>>

CallEnds(p) == call' = [call EXCEPT ![p] = NoCall]

\* The partner's group, if one is linked and enabled.
GroupFound(p) ==
  /\ call[p].at = "resolve"
  /\ call' = [call EXCEPT ![p].at = "post"]
  /\ UNCHANGED <<hour, liveMode, lastNotice, noticeFile, told, mishaps>>

NoGroup(p) ==
  /\ call[p].at = "resolve" /\ CallEnds(p)
  /\ UNCHANGED <<hour, liveMode, lastNotice, noticeFile, told, mishaps>>

Accepted(p, known) ==
  told' = told \union {[case |-> call[p].case, asked |-> call[p].asked, at |-> hour,
                        known |-> known]}

\* The POST is accepted, and the debounce saved; a failed write goes unnoticed.
PartnerTold(p) ==
  /\ call[p].at = "post" /\ CallEnds(p)
  /\ lastNotice' = [c \in DOMAIN lastNotice \union {call[p].case} |->
                      IF c = call[p].case THEN hour ELSE lastNotice[c]]
  /\ \/ noticeFile' = lastNotice' /\ UNCHANGED mishaps /\ Accepted(p, TRUE)
     \/ Mishap /\ UNCHANGED noticeFile /\ Accepted(p, FALSE)
  /\ UNCHANGED <<hour, liveMode>>

\* The POST is refused, or accepted with its answer lost.
TellingFails(p) ==
  /\ call[p].at = "post" /\ CallEnds(p) /\ Mishap
  /\ UNCHANGED told \/ Accepted(p, FALSE)
  /\ UNCHANGED <<hour, liveMode, lastNotice, noticeFile>>

\* The alert engine restarts: loadDebounce.
NotifierRestart ==
  /\ Mishap
  /\ call' = [p \in Calls |-> NoCall]
  /\ lastNotice' = noticeFile
  /\ UNCHANGED <<hour, liveMode, noticeFile, told>>

NotifierNext ==
  \/ \E p \in Calls : \/ \E c \in Cases : Notify(p, c)
                      \/ GroupFound(p) \/ NoGroup(p) \/ PartnerTold(p) \/ TellingFails(p)
  \/ HourPasses \/ NotifierRestart

NotifierSpec == NotifierInit /\ [][NotifierNext]_notifierVars

-----------------------------------------------------------------------------
NotifierTypeOK ==
  /\ hour \in 0..MaxHours /\ liveMode \in BOOLEAN /\ mishaps \in 0..MaxMishaps
  /\ \A p \in Calls : /\ call[p].case \in Cases \union {NoCase} /\ call[p].asked <= hour
                      /\ call[p].at \in {"idle", "resolve", "post"}
  /\ \A c \in DOMAIN lastNotice : lastNotice[c] <= hour
  /\ DOMAIN noticeFile \subseteq Cases

\* A partner is not told again of the same fault within two hours, over
\* restarts of the engine, once an earlier notice is known to have been sent.
\* A notice that was let through before the earlier one was sent is not held
\* back: the debounce is not looked at again.
ToldOncePerWindow ==
  \A a, b \in told :
    a.known /\ a.case = b.case /\ a.at < b.asked => a.at + NoticeWindow <= b.asked
=============================================================================
