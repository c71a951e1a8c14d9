--------------------------- MODULE ContadorNotices ---------------------------
(***************************************************************************)
(* The accountant's daily notice beside its monthly closings:              *)
(* processHeartbeat and monthlySummaryOwnsHeartbeat of                     *)
(* services/support-copilot/lib/contador-runtime.js, heartbeat in          *)
(* lib/contador.js.                                                        *)
(*                                                                         *)
(* One timer starts both every 15 minutes.  A notice is written in the     *)
(* configured hour of a day, once, unless the closings own the day.  Days  *)
(* are numbered through the months; the hours that matter are the one of   *)
(* the notices, which on the monthly day is also the closing's, and what   *)
(* comes before and after it.  Rows of contador_daily_runs of earlier days *)
(* are never read again, and only the row of the day is kept.              *)
(***************************************************************************)
EXTENDS ContadorClosings

CONSTANTS
  DaysInMonth,  \* bound: the days of a month
  MonthlyDay,   \* CONTADOR_MONTHLY_DAY
  MaxDay        \* bound: the days followed

ASSUME NoticesAssumption ==
  /\ DaysInMonth \in Nat \ {0} /\ MonthlyDay \in 1..DaysInMonth
  /\ MaxDay \in Nat \ {0} /\ MaxDay <= DaysInMonth * MaxMonth

VARIABLES
  day, hour9,   \* the day, and where its CONTADOR_HEARTBEAT_HOUR lies
  notice,       \* the row of the day in contador_daily_runs
  noticing,     \* the day whose notice is being written, 0 when none
  touched,      \* the row of this month's closing was updated today
  fenced,       \* the day of the last fence of a closing
  read          \* what the group was sent of this day (history)

noticeVars == <<closingVars, day, hour9, notice, noticing, touched, fenced, read>>

-----------------------------------------------------------------------------
Hours == {"ahead", "now", "over"}
NoticeStatuses == {"none", "processing", "sent", "silent", "failed"}
NoNotice == [status |-> "none", attempts |-> 0]

ThisMonth == (day - 1) \div DaysInMonth + 1
DayOfMonth == ((day - 1) % DaysInMonth) + 1

\* monthlyScheduleReached
Reached == DayOfMonth > MonthlyDay \/ (DayOfMonth = MonthlyDay /\ hour9 # "ahead")

NoticesInit ==
  /\ ClosingInit
  /\ day = 1 /\ hour9 = "ahead"
  /\ notice = NoNotice /\ noticing = 0
  /\ touched = FALSE /\ fenced = 0 /\ read = {}

-----------------------------------------------------------------------------
\* Defect: only a closing that can be claimed now holds the notice back.
OwnsIfDue == DueRuns # {}

\* monthlySummaryOwnsHeartbeat
OwnsHeartbeat ==
  \/ DueRuns # {}
  \/ /\ Reached
     /\ LET row == closing[ThisMonth]
        IN  \/ row.status \in {"none", "processing"}
            \/ row.status = "failed" /\ row.attempts < MaxAttempts
            \/ row.status # "failed" /\ touched

\* processHeartbeat up to the first await: at most MAX_ATTEMPTS claims a day.
BeginNotice ==
  /\ noticing = 0 /\ hour9 = "now" /\ ~OwnsHeartbeat
  /\ \/ notice.status = "none"
     \/ notice.status = "failed" /\ notice.attempts < MaxAttempts
  /\ notice' = [status |-> "processing", attempts |-> notice.attempts + 1]
  /\ noticing' = day
  /\ UNCHANGED <<closingVars, day, hour9, touched, fenced, read>>

NoticeEnds(status) ==
  /\ noticing # 0 /\ noticing' = 0
  /\ notice' = IF noticing = day THEN [notice EXCEPT !.status = status] ELSE notice
  /\ UNCHANGED <<closingVars, day, hour9, touched, fenced>>

PostedToday(what) == read' = read \union {what}

\* Bills, drafts or pendencies there are, and the agent replied.
NoticeSent == NoticeEnds("sent") /\ (IF noticing = day THEN PostedToday("notice") ELSE UNCHANGED read)
NoticeSilent == NoticeEnds("silent") /\ UNCHANGED read

\* An error of a tool, of the agent or of the send, which may have been taken.
NoticeFails ==
  /\ NoticeEnds("failed")
  /\ UNCHANGED read \/ (noticing = day /\ PostedToday("notice"))

-----------------------------------------------------------------------------
(* The closings, and what the notices see of them.                         *)

Touches == touched' = (touched \/ closing'[ThisMonth] # closing[ThisMonth])

ClosingMoves ==
  /\ \/ ClosingPass \/ (\E m \in Months : ClaimRun(m)) \/ NothingToSay
     \/ SummarySent \/ SummaryFails
  /\ Touches /\ UNCHANGED <<day, hour9, notice, noticing, fenced, read>>

ClosingFenced ==
  /\ FenceSummary /\ fenced' = day
  /\ Touches /\ UNCHANGED <<day, hour9, notice, noticing, read>>

ClosingReaches ==
  /\ SummaryReaches
  /\ IF doing = ThisMonth /\ fenced = day THEN PostedToday("closing") ELSE UNCHANGED read
  /\ UNCHANGED <<day, hour9, notice, noticing, touched, fenced>>

ClosingRetryDue == RetryDue /\ UNCHANGED <<day, hour9, notice, noticing, touched, fenced, read>>

\* The hour comes, with it the schedule on the monthly day; the hour is over.
HourStrikes ==
  /\ hour9 = "ahead" /\ hour9' = "now"
  /\ IF DayOfMonth = MonthlyDay
     THEN ScheduleReached
     ELSE UNCHANGED closingVars
  /\ UNCHANGED <<day, notice, noticing, touched, fenced, read>>

HourEnds ==
  /\ hour9 = "now" /\ hour9' = "over"
  /\ UNCHANGED <<closingVars, day, notice, noticing, touched, fenced, read>>

\* A send does not last from one day into the next: Node gives an unanswered
\* request up after minutes.
DayEnds ==
  /\ hour9 = "over" /\ day < MaxDay
  /\ doing = 0 \/ step = "analysis"
  /\ day' = day + 1 /\ hour9' = "ahead"
  /\ notice' = NoNotice /\ touched' = FALSE /\ read' = {}
  /\ UNCHANGED <<closingVars, noticing, fenced>>

\* recoverInterruptedContadorWork
NoticesRestart ==
  /\ ClosingRestart /\ Touches
  /\ notice' = IF notice.status = "processing" THEN [notice EXCEPT !.status = "failed"]
                                                ELSE notice
  /\ noticing' = 0
  /\ UNCHANGED <<day, hour9, fenced, read>>

NoticesStep ==
  \/ ClosingMoves \/ ClosingFenced \/ ClosingReaches
  \/ BeginNotice \/ NoticeSent \/ NoticeSilent \/ NoticeFails

NoticesClock == ClosingRetryDue \/ HourStrikes \/ HourEnds \/ DayEnds

NoticesSpec == NoticesInit /\ [][NoticesStep \/ NoticesClock \/ NoticesRestart]_noticeVars

-----------------------------------------------------------------------------
NoticesTypeOK ==
  /\ ClosingTypeOK
  /\ day \in 1..MaxDay /\ hour9 \in Hours
  /\ notice \in [status : NoticeStatuses, attempts : 0..MaxAttempts]
  /\ noticing \in 0..day /\ touched \in BOOLEAN /\ fenced \in 0..day
  /\ read \subseteq {"notice", "closing"}

\* docs/CONTADOR.md:268 "it replaces that day's ordinary heartbeat so the
\* group receives at most one proactive summary": on the day this month's
\* closing is sent there is no daily notice, whichever comes first and however
\* often either is retried.
NoticeYields == read # {"notice", "closing"}
=============================================================================
