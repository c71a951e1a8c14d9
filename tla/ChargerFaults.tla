---------------------------- MODULE ChargerFaults ----------------------------
(***************************************************************************)
(* The charger-fault path of services/alert-engine.js for one charger:     *)
(* StatusNotification rows land in ocpp.db, a detection tick turns the     *)
(* newest fault of each error code into an alert, and two gates decide     *)
(* whether the team is paged again:                                        *)
(*                                                                         *)
(*   - a cable-theft fault pages once per incident, with a burst, and then *)
(*     stays silent until the connector reports an operational status      *)
(*     (shouldAlertCableTheft, cleanupCableTheftState);                    *)
(*   - any other fault pages with an escalating backoff                    *)
(*     (shouldSendChargerFaultAlert, cleanupChargerFaultBackoff).          *)
(*                                                                         *)
(* Both gates keep their memory in a JSON file that is replaced atomically *)
(* and read back at start.  The theft gate rebuilds its memory from        *)
(* ocpp.db when the file is unreadable.                                    *)
(*                                                                         *)
(* Time is discrete and every row and every tick has a timestamp of its    *)
(* own.  The LIMITs of the queries, the text of the alerts and e-stop rows *)
(* (skipped by the detector) are left out.                                 *)
(***************************************************************************)
EXTENDS Naturals, FiniteSets, Sequences

CONSTANTS
  Connectors,     \* connector ids of the rows of the charger
  NoConnector,    \* the null id of a row whose message names no connector
  Errors,         \* OCPP error codes
  Ticks,          \* slots for detection ticks in flight: setInterval overlaps
  QueryWindow,    \* QUERY_WINDOW: how far back a tick looks for faults
  MaxAlertAge,    \* MAX_ALERT_AGE_MS: older alerts are dropped unsent
  RebuildWindow,  \* CABLE_THEFT_RECONSTRUCT_WINDOW_MS
  RebuildMinAge,  \* CABLE_THEFT_RECONSTRUCT_MIN_AGE_MS
  IncidentGcAge,  \* 30 days in cleanupCableTheftState
  BackoffGcAge,   \* 7 days in cleanupChargerFaultBackoff
  Tiers,          \* CHARGER_FAULT_BACKOFF_TIERS: <<[after, window], ...>>
  MaxTime,        \* bound on the clock
  MaxRows,        \* bound on the rows the charger reports
  MaxCrashes,     \* bound on process deaths
  MaxFileFaults   \* bound on failed writes of the state files and damages
                  \* to the incident file, together

Bounds == {QueryWindow, MaxAlertAge, RebuildWindow, RebuildMinAge,
           IncidentGcAge, BackoffGcAge, MaxTime, MaxRows, MaxCrashes,
           MaxFileFaults}

ASSUME BoundsAssumption == Bounds \subseteq Nat

\* The last tier's window is the longest silence the backoff promises.
ASSUME TiersAssumption ==
  /\ Tiers \in Seq([after : Nat, window : Nat \ {0}])
  /\ Tiers # <<>>

\* A tick looks back over some time, and the longest silence of the backoff (a
\* day) is shorter than its memory (a week).
ASSUME WindowsAssumption ==
  /\ QueryWindow > 0
  /\ \A i \in DOMAIN Tiers : Tiers[i].window <= BackoffGcAge

VARIABLES
  clock,        \* Date.now()
  rows,         \* ocpp_events of the charger
  up,           \* the engine process is alive
  incidents,    \* this.cableTheftState
  incidentFile, \* history/cable_theft_incidents.json
  backoff,      \* this.chargerFaultBackoff
  backoffFile,  \* history/charger_fault_backoff.json
  queue,        \* alerts each tick in flight has still to dispatch
  busy,         \* ticks between their detection and their cleanup
  crashes, saveFails, corruptions,
  alerts,       \* history: theft alerts the detector ever produced
  bursts,       \* history: theft alerts whose burst was started
  rebuilds,     \* history: times of the rebuilds from ocpp.db
  notified      \* history: [err, at, window] of backoff alerts produced

files   == <<incidentFile, backoffFile>>
history == <<alerts, bursts, rebuilds, notified>>
env     == <<rows, crashes, corruptions>>
vars    == <<clock, rows, up, incidents, incidentFile, backoff, backoffFile,
             queue, busy, crashes, saveFails, corruptions, alerts, bursts,
             rebuilds, notified>>

-----------------------------------------------------------------------------
(***************************************************************************)
(* Values                                                                  *)
(***************************************************************************)
Time == 0 .. MaxTime + 1

\* op: an operational status; theft: a fault with the theft signature;
\* fault: any other non-operational status reported as a fault.
Row == [ts : Time, conn : Connectors, kind : {"op", "theft", "fault"},
        err : Errors]

\* alertedAt = 0 stands for "no record under this key".
Incident == [alertedAt : Time, lastSeenAt : Time]
NoIncident == [alertedAt |-> 0, lastSeenAt |-> 0]
IncidentMap == [Connectors -> Incident]
NoIncidents == [c \in Connectors |-> NoIncident]

\* lastSent = 0 stands for "no record under this key".
Backoff == [lastSent : Time, streak : Nat, lastWindow : Nat]
NoBackoff == [lastSent |-> 0, streak |-> 0, lastWindow |-> 0]
BackoffMap == [Errors -> Backoff]
NoBackoffs == [e \in Errors |-> NoBackoff]

\* ts is the event's timestamp, at the time of the detection.
Alert == [ts : Time, conn : Connectors, err : Errors, theft : BOOLEAN,
          at : Time]

Init ==
  /\ clock = 1
  /\ rows = {}
  /\ up = TRUE
  /\ incidents = NoIncidents
  /\ incidentFile = [readable |-> TRUE, state |-> NoIncidents]
  /\ backoff = NoBackoffs
  /\ backoffFile = NoBackoffs
  /\ queue = [t \in Ticks |-> {}]
  /\ busy = {}
  /\ crashes = 0 /\ saveFails = 0 /\ corruptions = 0
  /\ alerts = {} /\ bursts = {} /\ rebuilds = {} /\ notified = {}

-----------------------------------------------------------------------------
(***************************************************************************)
(* Queries on ocpp.db                                                      *)
(***************************************************************************)

\* A null connector id on either side counts as a match.
SameConnector(c, d) == c = d \/ c = NoConnector \/ d = NoConnector

RecoveredSince(c, since) ==
  \E r \in rows : r.ts > since /\ r.kind = "op" /\ SameConnector(c, r.conn)

\* The rows detectChargerFaults keeps: the newest of each error code.
Candidates ==
  LET recent == {r \in rows : r.kind # "op" /\ r.ts + QueryWindow > clock}
  IN  {r \in recent : \A s \in recent : s.err = r.err => s.ts <= r.ts}

\* The newest status under the key of connector c in the rebuild window.
LatestStatus(c) ==
  {r \in rows : /\ r.conn = c
                /\ r.ts + RebuildWindow > clock
                /\ \A s \in rows : s.conn = c => s.ts <= r.ts}

\* Theft rows of c with no operational status of c after them.
Streak(c) ==
  {r \in rows : /\ r.kind = "theft"
                /\ SameConnector(c, r.conn)
                /\ ~RecoveredSince(c, r.ts)}

\* Defect: the first boot after a damaged file starts from an empty state.
reconstructNothing == NoIncidents

\* findCableTheftStreakStart: the oldest theft row of the streak, or the
\* status row itself when a row without a connector ended the streak.
findCableTheftStreakStart(c, latest) ==
  LET starts == IF Streak(c) = {} THEN {latest.ts} ELSE {r.ts : r \in Streak(c)}
  IN  CHOOSE s \in starts : \A other \in starts : s <= other

\* The connectors whose newest status is a theft old enough to be adopted.
reconstructOpenCableTheftIncidents ==
  [c \in Connectors |->
     LET open == {findCableTheftStreakStart(c, r) :
                    r \in {l \in LatestStatus(c) : l.kind = "theft"}}
         old  == {s \in open : clock >= s + RebuildMinAge}
     IN  IF old = {} THEN NoIncident
         ELSE [alertedAt |-> CHOOSE s \in old : TRUE, lastSeenAt |-> clock]]

-----------------------------------------------------------------------------
(***************************************************************************)
(* The gates                                                               *)
(***************************************************************************)

\* shouldAlertCableTheft: no record, or recovered since the record.
FreshIncident(c) ==
  incidents[c].alertedAt # 0 => RecoveredSince(c, incidents[c].alertedAt)

\* Defect: one fault code opens the incident of every connector.
TheftCandidatesOfCharger(c) == {r \in Candidates : r.kind = "theft"}

TheftCandidates(c) == {r \in Candidates : r.kind = "theft" /\ r.conn = c}

\* The gate is consulted newest row first: only the newest theft row of a
\* connector can open an incident, the next one finds the record just made.
TheftAlerts ==
  {r \in Candidates : /\ r.kind = "theft"
                      /\ FreshIncident(r.conn)
                      /\ \A s \in TheftCandidates(r.conn) : s.ts <= r.ts}

AfterTheftGate ==
  [c \in Connectors |->
     IF TheftCandidates(c) = {} THEN incidents[c]
     ELSE IF FreshIncident(c) THEN [alertedAt |-> clock, lastSeenAt |-> clock]
     ELSE [incidents[c] EXCEPT !.lastSeenAt = clock]]

windowForStreak(streak) ==
  LET reached == {i \in DOMAIN Tiers : i = 1 \/ streak >= Tiers[i].after}
  IN  Tiers[CHOOSE i \in reached : \A j \in reached : j <= i].window

\* The streak a new alert continues: 0 after a gap of over twice the window.
StreakBefore(b) ==
  IF b.lastSent # 0 /\ clock > b.lastSent + 2 * b.lastWindow
  THEN 0 ELSE b.streak

\* shouldSendChargerFaultAlert
BackoffElapsed(b) == b.lastSent # 0 => clock >= b.lastSent + b.lastWindow

FaultAlerts ==
  {r \in Candidates : r.kind = "fault" /\ BackoffElapsed(backoff[r.err])}

AfterBackoffGate ==
  [e \in Errors |->
     IF \E r \in FaultAlerts : r.err = e
     THEN LET s == StreakBefore(backoff[e])
          IN  [lastSent |-> clock, streak |-> s + 1,
               lastWindow |-> windowForStreak(s)]
     ELSE backoff[e]]

\* Defect: a record expires by age alone.
cleanupByAgeOnly(map) ==
  [c \in Connectors |->
     IF clock > map[c].lastSeenAt + IncidentGcAge
     THEN NoIncident ELSE map[c]]

cleanupCableTheftState(map) ==
  [c \in Connectors |->
     IF /\ map[c].alertedAt # 0
        /\ clock > map[c].lastSeenAt + IncidentGcAge
        /\ RecoveredSince(c, map[c].alertedAt)
     THEN NoIncident ELSE map[c]]

\* Defect: entries expire after the first tier's window already.
cleanupBackoffEarly(map) ==
  [e \in Errors |->
     IF map[e].lastSent # 0 /\ clock > map[e].lastSent + Tiers[1].window
     THEN NoBackoff ELSE map[e]]

cleanupChargerFaultBackoff(map) ==
  [e \in Errors |->
     IF map[e].lastSent # 0 /\ clock > map[e].lastSent + BackoffGcAge
     THEN NoBackoff ELSE map[e]]

-----------------------------------------------------------------------------
(***************************************************************************)
(* The state files                                                         *)
(***************************************************************************)

\* writeJsonAtomic: a file holds the new state, or a failed write leaves the
\* old one and the engine goes on in memory.
Persist(wroteIncidents, wroteBackoff) ==
  \E fails \in SUBSET {"incidents", "backoff"} :
    /\ "incidents" \in fails => wroteIncidents
    /\ "backoff" \in fails => wroteBackoff
    /\ saveFails' = saveFails + Cardinality(fails)
    /\ saveFails' + corruptions <= MaxFileFaults
    /\ incidentFile' = IF wroteIncidents /\ "incidents" \notin fails
                       THEN [readable |-> TRUE, state |-> incidents']
                       ELSE incidentFile
    /\ backoffFile' = IF wroteBackoff /\ "backoff" \notin fails
                      THEN backoff' ELSE backoffFile

Advance == clock <= MaxTime /\ clock' = clock + 1

-----------------------------------------------------------------------------
(***************************************************************************)
(* The environment                                                         *)
(***************************************************************************)

\* The collector stores a StatusNotification of the charger.
Report(c, k, e) ==
  /\ Advance
  /\ Cardinality(rows) < MaxRows
  /\ rows' = rows \cup {[ts |-> clock, conn |-> c, kind |-> k, err |-> e]}
  /\ UNCHANGED <<up, incidents, files, backoff, queue, busy, crashes,
                 saveFails, corruptions, history>>

Elapse ==
  /\ Advance
  /\ UNCHANGED <<up, incidents, files, backoff, queue, busy, saveFails, env,
                 history>>

\* A full disk or an operator damages the incident file.
CorruptFile ==
  /\ saveFails + corruptions < MaxFileFaults
  /\ incidentFile.readable
  /\ corruptions' = corruptions + 1
  /\ incidentFile' = [incidentFile EXCEPT !.readable = FALSE]
  /\ UNCHANGED <<clock, rows, up, incidents, backoff, backoffFile, queue,
                 busy, crashes, saveFails, history>>

\* The process dies: what only memory held is gone, undispatched alerts too.
Crash ==
  /\ up
  /\ crashes < MaxCrashes
  /\ crashes' = crashes + 1
  /\ up' = FALSE
  /\ incidents' = NoIncidents
  /\ backoff' = NoBackoffs
  /\ queue' = [t \in Ticks |-> {}]
  /\ busy' = {}
  /\ UNCHANGED <<clock, rows, files, saveFails, corruptions, history>>

-----------------------------------------------------------------------------
(***************************************************************************)
(* The engine                                                              *)
(***************************************************************************)

\* The constructor: loadChargerFaultBackoff and loadCableTheftState, which
\* rebuilds and saves the incidents when the file cannot be parsed.
Start ==
  /\ ~up
  /\ up' = TRUE
  /\ backoff' = backoffFile
  /\ IF incidentFile.readable
     THEN /\ incidents' = incidentFile.state
          /\ UNCHANGED <<files, saveFails, rebuilds>>
     ELSE /\ incidents' = reconstructOpenCableTheftIncidents
          /\ Persist(TRUE, FALSE)
          /\ rebuilds' = rebuilds \cup {clock}
  /\ UNCHANGED <<clock, queue, busy, env, alerts, bursts, notified>>

AlertOf(r) == [ts |-> r.ts, conn |-> r.conn, err |-> r.err,
               theft |-> r.kind = "theft", at |-> clock]

\* A tick runs detectChargerFaults without yielding.  With nothing to send
\* it goes straight on to the cleanup.
Detect(t) ==
  /\ up
  /\ t \notin busy
  /\ Advance
  /\ queue' = [queue EXCEPT ![t] = {AlertOf(r) : r \in TheftAlerts
                                                       \cup FaultAlerts}]
  /\ LET quiet == TheftAlerts \cup FaultAlerts = {}
     IN  /\ busy' = IF quiet THEN busy ELSE busy \cup {t}
         /\ incidents' = IF quiet THEN cleanupCableTheftState(AfterTheftGate)
                         ELSE AfterTheftGate
         /\ backoff' = IF quiet THEN cleanupChargerFaultBackoff(backoff)
                       ELSE AfterBackoffGate
  /\ Persist(\/ \E r \in Candidates : r.kind = "theft"
             \/ incidents' # incidents,
             backoff' # backoff)
  /\ alerts' = alerts \cup {AlertOf(r) : r \in TheftAlerts}
  /\ notified' = notified \cup
       {[err |-> r.err, at |-> clock, window |-> backoff'[r.err].lastWindow]
          : r \in FaultAlerts}
  /\ UNCHANGED <<up, env, bursts, rebuilds>>

\* The dispatch loop takes the next alert, newest first.  A stale one is
\* dropped, and so is one the alerts table refuses; a theft one bursts.
Dispatch(t, a) ==
  /\ a \in queue[t]
  /\ \A b \in queue[t] : b.ts <= a.ts
  /\ queue' = [queue EXCEPT ![t] = @ \ {a}]
  /\ \/ /\ clock <= a.ts + MaxAlertAge
        /\ bursts' = IF a.theft THEN bursts \cup {a} ELSE bursts
     \/ UNCHANGED bursts
  /\ UNCHANGED <<clock, up, incidents, files, backoff, busy, saveFails, env,
                 alerts, rebuilds, notified>>

\* The loop is over: the tick's cleanup calls.
Cleanup(t) ==
  /\ t \in busy
  /\ queue[t] = {}
  /\ busy' = busy \ {t}
  /\ incidents' = cleanupCableTheftState(incidents)
  /\ backoff' = cleanupChargerFaultBackoff(backoff)
  /\ Persist(incidents' # incidents, backoff' # backoff)
  /\ UNCHANGED <<clock, up, queue, env, history>>

Next ==
  \/ \E c \in Connectors, k \in {"op", "theft", "fault"}, e \in Errors :
       Report(c, k, e)
  \/ Elapse
  \/ CorruptFile
  \/ Crash
  \/ Start
  \/ \E t \in Ticks : Detect(t) \/ Cleanup(t)
  \/ \E t \in Ticks : \E a \in queue[t] : Dispatch(t, a)

Spec == Init /\ [][Next]_vars

-----------------------------------------------------------------------------
(***************************************************************************)
(* Properties                                                              *)
(***************************************************************************)

TypeOK ==
  /\ clock \in Time
  /\ rows \subseteq Row
  /\ up \in BOOLEAN
  /\ incidents \in IncidentMap
  /\ incidentFile \in [readable : BOOLEAN, state : IncidentMap]
  /\ backoff \in BackoffMap
  /\ backoffFile \in BackoffMap
  /\ queue \in [Ticks -> SUBSET Alert]
  /\ busy \subseteq Ticks
  /\ crashes \in Nat /\ saveFails \in Nat /\ corruptions \in Nat
  /\ alerts \subseteq Alert
  /\ bursts \subseteq Alert
  /\ rebuilds \subseteq Time
  /\ notified \subseteq [err : Errors, at : Time, window : Nat]

OpBetween(c, from, to) ==
  \E r \in rows : /\ r.kind = "op"
                  /\ r.conn = c \/ NoConnector \in {c, r.conn}
                  /\ from < r.ts /\ r.ts < to

\* One burst per incident: two bursts for the same connector always have an
\* operational status of that connector between their detections, over
\* overlapping ticks, garbage collection, crashes and restarts, as long as
\* every write of the state file succeeded and nobody damaged it.
NoReburstWhileOpen ==
  saveFails = 0 /\ corruptions = 0 =>
    \A a, b \in bursts :
      a.conn = b.conn /\ a # b =>
        OpBetween(a.conn, a.at, b.at) \/ OpBetween(a.conn, b.at, a.at)

\* What ocpp.db showed of connector c at time t was an incident old enough,
\* and reported recently enough, to be adopted as already paged.
ClearlyOpenAt(c, t) ==
  LET past  == {r \in rows : r.ts < t /\ SameConnector(c, r.conn)}
      since == {r \in past : \A s \in past : s.kind = "op" => s.ts < r.ts}
      own   == {r \in past : r.conn = c}
  IN  /\ \E r \in own : /\ r.kind = "theft" /\ r.ts + RebuildWindow > t
                        /\ \A s \in own : s.ts <= r.ts
      /\ \E r \in since : r.kind = "theft" /\ t >= r.ts + RebuildMinAge

\* A damaged state file re-pages nobody about a theft that was clearly in
\* progress: a second burst without a recovery needs a rebuild in between at
\* which the incident was young, out of the window or not the last status.
RebuildKeepsSilence ==
  saveFails = 0 =>
    \A a, b \in bursts :
      a.conn = b.conn /\ a.at < b.at /\ ~OpBetween(a.conn, a.at, b.at) =>
        \E t \in rebuilds :
          a.at < t /\ t <= b.at /\ ~ClearlyOpenAt(a.conn, t)

\* A connector is silenced only by a theft it reported itself: every record
\* goes back to a theft row, at its detection or, rebuilt, at its start.
SilenceHasCause ==
  \A c \in Connectors :
    incidents[c].alertedAt # 0 =>
      \E r \in rows : /\ r.kind = "theft" /\ SameConnector(c, r.conn)
                      /\ r.ts <= incidents[c].alertedAt
                      /\ incidents[c].alertedAt < r.ts + QueryWindow

\* The backoff is honoured over restarts and over its own garbage
\* collection: two alerts for one error code are at least the first one's
\* window apart, as long as every write of the state file succeeded.
BackoffHonoured ==
  saveFails = 0 =>
    \A m, n \in notified :
      m.err = n.err /\ m.at < n.at => n.at >= m.at + m.window

\* A later theft on the same connector, after a recovery, is a fresh incident
\* and bursts again: when all alerts so far were about rows older than an
\* operational status and the newest row is a theft after it, a tick that
\* sees the theft produces an alert for it.
TheftAfterRecoveryIsFresh ==
  [][\A t \in Ticks : Detect(t) =>
       \A r \in Candidates :
         /\ r.kind = "theft"
         /\ \E o \in rows : /\ o.kind = "op" /\ o.conn = r.conn
                            /\ o.ts < r.ts
                            /\ \A a \in alerts : a.conn = r.conn =>
                                                   a.ts < o.ts
         => \E a \in alerts' : a.conn = r.conn /\ a.ts = r.ts]_vars
=============================================================================
