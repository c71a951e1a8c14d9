------------------------- MODULE ChargerFaultsProofs -------------------------
(***************************************************************************)
(* Proofs about ChargerFaults, for any number of connectors, error codes   *)
(* and overlapping ticks, and any windows in the order of the code.        *)
(***************************************************************************)
EXTENDS ChargerFaults, FiniteSetTheorems, SequenceTheorems,
        WellFoundedInduction, TLAPS

-----------------------------------------------------------------------------
(***************************************************************************)
(* Numbers                                                                 *)
(***************************************************************************)
LEMMA Least ==
  ASSUME NEW S, S \subseteq Nat, S # {}
  PROVE  \E x \in S : \A y \in S : x <= y
<1> DEFINE below == OpToRel(<, Nat)
<1>1. PICK x \in S : \A y \in S : ~ (<<y, x>> \in below)
  <2> HIDE DEF below
  <2> QED
    BY NatLessThanWellFounded, WFMin DEF below
<1>2. \A y \in S : ~(y < x)
  BY <1>1 DEF OpToRel
<1> QED
  BY <1>2

LEMMA Greatest ==
  ASSUME NEW n \in Nat, NEW S, S \subseteq 0 .. n, S # {}
  PROVE  \E x \in S : \A y \in S : y <= x
<1>1. PICK d \in {n - x : x \in S} : \A e \in {n - x : x \in S} : d <= e
  <2>1. \A x \in S : n - x \in Nat
    OBVIOUS
  <2>2. {n - x : x \in S} \subseteq Nat /\ {n - x : x \in S} # {}
    BY <2>1
  <2> QED
    BY <2>2, Least
<1>2. PICK x \in S : d = n - x
  OBVIOUS
<1>3. \A y \in S : n - x <= n - y
  BY <1>1, <1>2
<1> QED
  BY <1>3

LEMMA TiersFacts ==
  /\ Len(Tiers) \in Nat \ {0} /\ DOMAIN Tiers = 1 .. Len(Tiers)
  /\ \A i \in DOMAIN Tiers : /\ Tiers[i].window \in Nat \ {0}
                             /\ Tiers[i].window <= BackoffGcAge
<1>1. Len(Tiers) \in Nat /\ DOMAIN Tiers = 1 .. Len(Tiers) /\ Len(Tiers) # 0
  BY TiersAssumption, EmptySeq
<1>2. \A i \in DOMAIN Tiers : Tiers[i] \in [after : Nat, window : Nat \ {0}]
  <2> DEFINE Tier == [after : Nat, window : Nat \ {0}]
  <2>1. Tiers \in Seq(Tier)
    BY TiersAssumption
  <2> HIDE DEF Tier
  <2>2. \A i \in 1 .. Len(Tiers) : Tiers[i] \in Tier
    BY <2>1
  <2> QED
    BY <1>1, <2>2 DEF Tier
<1> QED
  BY <1>1, <1>2, WindowsAssumption

\* windowForStreak returns the window of some tier.
LEMMA WindowOfATier ==
  ASSUME NEW streak \in Nat
  PROVE  /\ windowForStreak(streak) \in Nat
         /\ windowForStreak(streak) <= BackoffGcAge
<1> DEFINE reached == {i \in DOMAIN Tiers : i = 1 \/ streak >= Tiers[i].after}
<1>1. PICK i \in reached : \A j \in reached : j <= i
  <2>1. reached \subseteq 0 .. Len(Tiers) /\ 1 \in reached
    BY TiersFacts
  <2> HIDE DEF reached
  <2> QED
    BY <2>1, Greatest, TiersFacts
<1>2. (CHOOSE k \in reached : \A j \in reached : j <= k) \in reached
  <2> HIDE DEF reached
  <2> QED
    BY <1>1
<1>3. (CHOOSE k \in reached : \A j \in reached : j <= k) \in DOMAIN Tiers
  BY <1>2
<1> QED
  BY <1>3, TiersFacts DEF windowForStreak

-----------------------------------------------------------------------------
(***************************************************************************)
(* What is remembered, as a function of the rows                           *)
(***************************************************************************)
\* RecoveredSince, of a set of rows
Recovered(R, c, since) ==
  \E r \in R : r.ts > since /\ r.kind = "op" /\ SameConnector(c, r.conn)

\* The gate is shut for a connector whose incident was opened at time at.
Shut(R, c, at) == at # 0 /\ ~Recovered(R, c, at)

\* ClearlyOpenAt, of a set of rows
OpenAt(R, c, t) ==
  LET past  == {r \in R : r.ts < t /\ SameConnector(c, r.conn)}
      since == {r \in past : \A s \in past : s.kind = "op" => s.ts < r.ts}
      own   == {r \in past : r.conn = c}
  IN  /\ \E r \in own : /\ r.kind = "theft" /\ r.ts + RebuildWindow > t
                        /\ \A s \in own : s.ts <= r.ts
      /\ \E r \in since : r.kind = "theft" /\ t >= r.ts + RebuildMinAge

\* Each alert of A is behind a recovery, or remembered, or was forgotten in a
\* rebuild that could not see it.
Remembers(R, A, B, map) ==
  \A a \in A :
    \/ Recovered(R, a.conn, a.at)
    \/ Shut(R, a.conn, map[a.conn].alertedAt)
    \/ \E t \in B : a.at < t /\ ~OpenAt(R, a.conn, t)

\* Two alerts of a connector have a recovery between them, or such a rebuild.
Apart(R, A, B) ==
  \A a, b \in A :
    a.conn = b.conn /\ a.at < b.at =>
      \/ \E r \in R : /\ r.kind = "op" /\ SameConnector(a.conn, r.conn)
                      /\ a.at < r.ts /\ r.ts < b.at
      \/ \E t \in B : a.at < t /\ t <= b.at /\ ~OpenAt(R, a.conn, t)

\* A theft row stands behind every record.
Caused(R, map) ==
  \A c \in Connectors :
    map[c].alertedAt # 0 =>
      \E r \in R : /\ r.kind = "theft" /\ SameConnector(c, r.conn)
                   /\ r.ts <= map[c].alertedAt
                   /\ map[c].alertedAt < r.ts + QueryWindow

\* At time now, each notice of N is past its window or the backoff remembers it.
Covers(now, N, map) ==
  \A n \in N :
    \/ now >= n.at + n.window
    \/ /\ map[n.err].lastSent # 0
       /\ n.at + n.window <= map[n.err].lastSent + map[n.err].lastWindow

Short(map) == \A e \in Errors : map[e].lastWindow <= BackoffGcAge

\* Rows, alerts, rebuilds and notices are of the past, one at a time.
Dated ==
  /\ clock # 0
  /\ \A r \in rows : 0 < r.ts /\ r.ts < clock
  /\ \A r, s \in rows : r.ts = s.ts => r = s
  /\ \A a \in alerts : a.at < clock
  /\ \A a, b \in alerts : a.conn = b.conn /\ a.at = b.at => a = b
  /\ \A t \in rebuilds : t <= clock
  /\ \A n \in notified : n.at < clock

\* Ticks run only in a live engine, and bursts are alerts of the detector.
Sourced ==
  /\ busy # {} => up
  /\ \A t \in Ticks : \A a \in queue[t] : a.theft => a \in alerts
  /\ bursts \subseteq alerts

Sound == Caused(rows, incidents) /\ Caused(rows, incidentFile.state)

\* As long as every write succeeded, the files are what the engine knows.
Kept ==
  saveFails = 0 =>
    /\ up => /\ Remembers(rows, alerts, rebuilds, incidents)
             /\ incidentFile.readable => incidentFile.state = incidents
    /\ incidentFile.readable =>
         Remembers(rows, alerts, rebuilds, incidentFile.state)
    /\ Apart(rows, alerts, rebuilds)

Undamaged == corruptions = 0 => incidentFile.readable /\ rebuilds = {}

Backed ==
  /\ Short(backoff) /\ Short(backoffFile)
  /\ saveFails = 0 =>
       /\ up => backoffFile = backoff
       /\ Covers(clock, notified, backoffFile)
       /\ \A m, n \in notified :
            m.err = n.err /\ m.at < n.at => n.at >= m.at + m.window

IInv == TypeOK /\ Dated /\ Sourced /\ Sound /\ Kept /\ Undamaged /\ Backed

-----------------------------------------------------------------------------
(***************************************************************************)
(* What new rows, alerts and records do to it                              *)
(***************************************************************************)
\* A row stored now is later than everything that is remembered.
LEMMA RowsGrow ==
  ASSUME NEW R, NEW now \in Nat, NEW row, row.ts = now,
         NEW A, \A a \in A : a.at \in Nat /\ a.at < now,
         NEW B, \A t \in B : t \in Nat /\ t <= now
  PROVE  /\ \A map : Remembers(R, A, B, map) => Remembers(R \cup {row}, A, B, map)
         /\ Apart(R, A, B) => Apart(R \cup {row}, A, B)
<1>1. \A c, t : t \in B => OpenAt(R \cup {row}, c, t) = OpenAt(R, c, t)
  <2> SUFFICES ASSUME NEW c, NEW t \in B
               PROVE  OpenAt(R \cup {row}, c, t) = OpenAt(R, c, t)
    OBVIOUS
  <2>1. ~(row.ts < t)
    OBVIOUS
  <2>2. {r \in R \cup {row} : r.ts < t /\ SameConnector(c, r.conn)}
          = {r \in R : r.ts < t /\ SameConnector(c, r.conn)}
    BY <2>1
  <2> QED
    BY <2>2 DEF OpenAt
<1>2. \A a \in A : Recovered(R, a.conn, a.at) => Recovered(R \cup {row}, a.conn, a.at)
  BY DEF Recovered
<1>3. ASSUME NEW a \in A, NEW at, Shut(R, a.conn, at)
      PROVE  Shut(R \cup {row}, a.conn, at) \/ Recovered(R \cup {row}, a.conn, a.at)
  BY <1>3 DEF Shut, Recovered
<1>4. ASSUME NEW map, Remembers(R, A, B, map)
      PROVE  Remembers(R \cup {row}, A, B, map)
  BY <1>1, <1>2, <1>3, <1>4 DEF Remembers
<1>5. Apart(R, A, B) => Apart(R \cup {row}, A, B)
  BY <1>1 DEF Apart
<1> QED
  BY <1>4, <1>5

LEMMA CausedGrows ==
  ASSUME NEW R, NEW S, R \subseteq S
  PROVE  \A map : Caused(R, map) => Caused(S, map)
BY DEF Caused

\* cleanupCableTheftState forgets what a recovery has ended, and only that.
LEMMA CleanupForgets ==
  ASSUME NEW map \in IncidentMap
  PROVE  /\ cleanupCableTheftState(map) \in IncidentMap
         /\ \A c \in Connectors :
              \/ cleanupCableTheftState(map)[c] = map[c]
              \/ /\ cleanupCableTheftState(map)[c].alertedAt = 0
                 /\ ~Shut(rows, c, map[c].alertedAt)
<1>1. NoIncident \in Incident /\ NoIncident.alertedAt = 0
  BY BoundsAssumption DEF NoIncident, Incident, Time, Bounds
<1> QED
  BY <1>1 DEF cleanupCableTheftState, IncidentMap, Shut, Recovered, RecoveredSince

LEMMA CleanupKeeps ==
  ASSUME NEW map \in IncidentMap
  PROVE  /\ Caused(rows, map) => Caused(rows, cleanupCableTheftState(map))
         /\ \A A, B : (\A a \in A : a.conn \in Connectors) /\ Remembers(rows, A, B, map)
                        => Remembers(rows, A, B, cleanupCableTheftState(map))
<1> DEFINE new == cleanupCableTheftState(map)
<1>1. \A c \in Connectors : \/ new[c] = map[c]
                            \/ new[c].alertedAt = 0 /\ ~Shut(rows, c, map[c].alertedAt)
  BY CleanupForgets
<1> HIDE DEF new
<1>2. Caused(rows, map) => Caused(rows, new)
  BY <1>1 DEF Caused
<1>3. ASSUME NEW A, NEW B, \A a \in A : a.conn \in Connectors, Remembers(rows, A, B, map)
      PROVE  Remembers(rows, A, B, new)
  BY <1>1, <1>3 DEF Remembers
<1> QED
  BY <1>2, <1>3 DEF new

\* cleanupChargerFaultBackoff forgets what is past its window.
LEMMA CleanupUncovers ==
  ASSUME NEW map \in BackoffMap, Short(map), clock \in Nat,
         NEW N, \A n \in N : n.err \in Errors /\ n.at \in Nat /\ n.window \in Nat
  PROVE  /\ cleanupChargerFaultBackoff(map) \in BackoffMap
         /\ Short(cleanupChargerFaultBackoff(map))
         /\ Covers(clock, N, map) => Covers(clock, N, cleanupChargerFaultBackoff(map))
<1> DEFINE new == cleanupChargerFaultBackoff(map)
<1>1. NoBackoff \in Backoff /\ NoBackoff.lastWindow = 0 /\ BackoffGcAge \in Nat
  BY BoundsAssumption DEF NoBackoff, Backoff, Time, Bounds
<1>2. \A e \in Errors : map[e] \in Backoff
  BY DEF BackoffMap
<1>3. new \in BackoffMap
  BY <1>1 DEF cleanupChargerFaultBackoff, BackoffMap
<1>4. \A e \in Errors : \/ new[e] = map[e]
                        \/ /\ new[e] = NoBackoff
                           /\ clock > map[e].lastSent + map[e].lastWindow
  <2> SUFFICES ASSUME NEW e \in Errors
               PROVE  \/ new[e] = map[e]
                      \/ /\ new[e] = NoBackoff
                         /\ clock > map[e].lastSent + map[e].lastWindow
    OBVIOUS
  <2>1. map[e].lastWindow <= BackoffGcAge /\ map[e].lastWindow \in Nat /\ map[e].lastSent \in Nat
    BY <1>2 DEF Short, Backoff, Time
  <2> QED
    BY <1>1, <2>1 DEF cleanupChargerFaultBackoff
<1> HIDE DEF new
<1>5. Short(new)
  BY <1>1, <1>4 DEF Short
<1>6. ASSUME Covers(clock, N, map) PROVE Covers(clock, N, new)
  <2> SUFFICES ASSUME NEW n \in N, ~(clock >= n.at + n.window)
               PROVE  /\ new[n.err].lastSent # 0
                      /\ n.at + n.window <= new[n.err].lastSent + new[n.err].lastWindow
    BY DEF Covers
  <2>1. /\ map[n.err].lastSent # 0
        /\ n.at + n.window <= map[n.err].lastSent + map[n.err].lastWindow
    BY <1>6 DEF Covers
  <2>2. map[n.err].lastWindow \in Nat /\ map[n.err].lastSent \in Nat
    BY <1>2 DEF Backoff, Time
  <2> QED
    BY <1>4, <2>1, <2>2
<1> QED
  BY <1>3, <1>5, <1>6 DEF new

-----------------------------------------------------------------------------
(***************************************************************************)
(* The gates                                                               *)
(***************************************************************************)
LEMMA CandidatesSeen ==
  ASSUME TypeOK, NEW r \in Candidates
  PROVE  r \in rows /\ r \in Row /\ r.ts + QueryWindow > clock
BY DEF Candidates, TypeOK

\* The record a tick makes is dated now, and only behind an open gate.
LEMMA TheftGate ==
  ASSUME TypeOK, Dated
  PROVE  /\ AfterTheftGate \in IncidentMap
         /\ \A c \in Connectors :
              \/ AfterTheftGate[c].alertedAt = incidents[c].alertedAt
              \/ /\ AfterTheftGate[c].alertedAt = clock
                 /\ TheftCandidates(c) # {}
                 /\ ~Shut(rows, c, incidents[c].alertedAt)
         /\ \A r \in TheftAlerts :
              /\ r \in Row
              /\ AfterTheftGate[r.conn].alertedAt = clock
              /\ ~Shut(rows, r.conn, incidents[r.conn].alertedAt)
         /\ \A r, s \in TheftAlerts : r.conn = s.conn => r = s
<1>1. incidents \in IncidentMap /\ clock \in Time
  BY DEF TypeOK
<1>2. \A c \in Connectors : FreshIncident(c) = ~Shut(rows, c, incidents[c].alertedAt)
  BY DEF FreshIncident, Shut, Recovered, RecoveredSince
<1>3. AfterTheftGate \in IncidentMap
  BY <1>1 DEF AfterTheftGate, IncidentMap, Incident
<1>4. \A c \in Connectors :
        \/ AfterTheftGate[c].alertedAt = incidents[c].alertedAt
        \/ /\ AfterTheftGate[c].alertedAt = clock
           /\ TheftCandidates(c) # {}
           /\ ~Shut(rows, c, incidents[c].alertedAt)
  BY <1>1, <1>2 DEF AfterTheftGate, IncidentMap, Incident
<1>5. ASSUME NEW r \in TheftAlerts
      PROVE  /\ r \in Row /\ r \in rows
             /\ r \in TheftCandidates(r.conn)
             /\ \A s \in TheftCandidates(r.conn) : s.ts <= r.ts
             /\ FreshIncident(r.conn)
  BY CandidatesSeen DEF TheftAlerts, TheftCandidates
<1>6. ASSUME NEW r \in TheftAlerts
      PROVE  AfterTheftGate[r.conn].alertedAt = clock
  <2>1. r.conn \in Connectors
    BY <1>5 DEF Row
  <2> QED
    BY <1>5, <2>1 DEF AfterTheftGate
<1>7. ASSUME NEW r \in TheftAlerts, NEW s \in TheftAlerts, r.conn = s.conn
      PROVE  r = s
  <2>1. r.ts <= s.ts /\ s.ts <= r.ts
    BY <1>5, <1>7
  <2>2. r.ts \in Nat /\ s.ts \in Nat
    BY <1>5 DEF Row, Time
  <2> QED
    BY <1>5, <2>1, <2>2 DEF Dated
<1>8. \A r \in TheftAlerts : ~Shut(rows, r.conn, incidents[r.conn].alertedAt)
  BY <1>2, <1>5 DEF Row
<1> QED
  BY <1>3, <1>4, <1>5, <1>6, <1>7, <1>8

LEMMA TheftGateCaused ==
  ASSUME TypeOK, Dated, Caused(rows, incidents)
  PROVE  Caused(rows, AfterTheftGate)
<1> SUFFICES ASSUME NEW c \in Connectors, AfterTheftGate[c].alertedAt # 0
             PROVE  \E r \in rows :
                      /\ r.kind = "theft" /\ SameConnector(c, r.conn)
                      /\ r.ts <= AfterTheftGate[c].alertedAt
                      /\ AfterTheftGate[c].alertedAt < r.ts + QueryWindow
  BY DEF Caused
<1>1. CASE AfterTheftGate[c].alertedAt = incidents[c].alertedAt
  BY <1>1 DEF Caused
<1>2. CASE AfterTheftGate[c].alertedAt = clock /\ TheftCandidates(c) # {}
  <2>1. PICK r \in Candidates : r.kind = "theft" /\ r.conn = c
    BY <1>2 DEF TheftCandidates
  <2>2. r \in rows /\ r.ts + QueryWindow > clock /\ r.ts \in Nat /\ r.ts < clock
    BY CandidatesSeen DEF Row, Time, Dated
  <2>3. clock \in Nat /\ QueryWindow \in Nat
    BY BoundsAssumption DEF TypeOK, Time, Bounds
  <2> QED
    BY <1>2, <2>1, <2>2, <2>3 DEF SameConnector
<1> QED
  BY <1>1, <1>2, TheftGate

\* The alerts a tick produces are remembered, and far from earlier ones.
LEMMA TheftGateRemembers ==
  ASSUME TypeOK, Dated, NEW new, new = {AlertOf(r) : r \in TheftAlerts}
  PROVE  /\ Remembers(rows, alerts, rebuilds, incidents)
              => /\ Remembers(rows, alerts \cup new, rebuilds, AfterTheftGate)
                 /\ Apart(rows, alerts, rebuilds)
                      => Apart(rows, alerts \cup new, rebuilds)
         /\ \A a \in new : a \in Alert /\ a.at = clock
         /\ \A a, b \in new : a.conn = b.conn => a = b
<1>0. /\ clock \in Nat /\ clock # 0
      /\ \A r \in rows : r.ts \in Nat /\ r.ts < clock
      /\ \A a \in alerts : a.conn \in Connectors /\ a.at \in Nat /\ a.at < clock
      /\ \A t \in rebuilds : t <= clock
  BY DEF TypeOK, Dated, Time, Alert, Row
<1>1. ASSUME NEW a \in new
      PROVE  /\ a \in Alert /\ a.at = clock
             /\ AfterTheftGate[a.conn].alertedAt = clock
             /\ ~Shut(rows, a.conn, incidents[a.conn].alertedAt)
  <2>1. PICK r \in TheftAlerts : a = AlertOf(r)
    OBVIOUS
  <2>2. r \in Row /\ a.conn = r.conn
    BY <2>1, TheftGate DEF AlertOf
  <2>3. a \in Alert /\ a.at = clock
    BY <2>1, <2>2 DEF AlertOf, Alert, Row, TypeOK
  <2> QED
    BY <2>2, <2>3, TheftGate
<1>2. ASSUME NEW a \in new, NEW b \in new, a.conn = b.conn
      PROVE  a = b
  <2>1. PICK r \in TheftAlerts, s \in TheftAlerts : a = AlertOf(r) /\ b = AlertOf(s)
    OBVIOUS
  <2>2. r.conn = s.conn
    BY <1>2, <2>1 DEF AlertOf
  <2> QED
    BY <2>1, <2>2, TheftGate
<1>3. \A c : Shut(rows, c, clock)
  BY <1>0 DEF Shut, Recovered
<1>4. ASSUME Remembers(rows, alerts, rebuilds, incidents)
      PROVE  Remembers(rows, alerts \cup new, rebuilds, AfterTheftGate)
  <2>1. \A c \in Connectors : \/ AfterTheftGate[c].alertedAt = incidents[c].alertedAt
                              \/ AfterTheftGate[c].alertedAt = clock
    BY TheftGate
  <2>2. \A a \in alerts \cup new :
          \/ Recovered(rows, a.conn, a.at)
          \/ Shut(rows, a.conn, AfterTheftGate[a.conn].alertedAt)
          \/ \E t \in rebuilds : a.at < t /\ ~OpenAt(rows, a.conn, t)
    BY <1>0, <1>1, <1>3, <1>4, <2>1 DEF Remembers
  <2> QED
    BY <2>2 DEF Remembers
<1>5. ASSUME Remembers(rows, alerts, rebuilds, incidents),
             Apart(rows, alerts, rebuilds),
             NEW a \in alerts \cup new, NEW b \in alerts \cup new,
             a.conn = b.conn, a.at < b.at
      PROVE  \/ \E r \in rows : /\ r.kind = "op" /\ SameConnector(a.conn, r.conn)
                                /\ a.at < r.ts /\ r.ts < b.at
             \/ \E t \in rebuilds : /\ a.at < t /\ t <= b.at
                                    /\ ~OpenAt(rows, a.conn, t)
  <2>1. CASE b \in alerts
    <3>1. a \in alerts
      BY <1>0, <1>1, <1>5, <2>1
    <3> QED
      BY <1>5, <2>1, <3>1 DEF Apart
  <2>2. CASE b \in new
    <3>1. b.at = clock /\ ~Shut(rows, a.conn, incidents[a.conn].alertedAt)
      BY <1>1, <1>5, <2>2
    <3>2. a \in alerts
      BY <1>0, <1>1, <1>5, <3>1
    <3>3. \/ Recovered(rows, a.conn, a.at)
          \/ \E t \in rebuilds : a.at < t /\ ~OpenAt(rows, a.conn, t)
      BY <1>5, <3>1, <3>2 DEF Remembers
    <3> QED
      BY <1>0, <3>1, <3>3 DEF Recovered
  <2> QED
    BY <2>1, <2>2
<1>6. Remembers(rows, alerts, rebuilds, incidents) /\ Apart(rows, alerts, rebuilds)
        => Apart(rows, alerts \cup new, rebuilds)
  BY <1>5 DEF Apart
<1> QED
  BY <1>1, <1>2, <1>4, <1>6

\* A notice is given past the window of the last one, and remembered.
LEMMA BackoffGate ==
  ASSUME TypeOK, Dated, Short(backoff),
         NEW new, new = {[err |-> r.err, at |-> clock,
                          window |-> AfterBackoffGate[r.err].lastWindow]
                           : r \in FaultAlerts}
  PROVE  /\ AfterBackoffGate \in BackoffMap /\ Short(AfterBackoffGate)
         /\ \A n \in new : /\ n \in [err : Errors, at : Time, window : Nat]
                           /\ n.at = clock
         /\ Covers(clock, notified, backoff)
              => /\ Covers(clock, notified \cup new, AfterBackoffGate)
                 /\ \A m \in notified, n \in new :
                      m.err = n.err => n.at >= m.at + m.window
<1>0. /\ clock \in Nat /\ clock \in Time /\ clock # 0 /\ BackoffGcAge \in Nat
      /\ \A e \in Errors : backoff[e] \in Backoff
      /\ \A n \in notified : n.err \in Errors /\ n.at \in Nat /\ n.window \in Nat
  BY BoundsAssumption DEF TypeOK, Dated, Time, BackoffMap, Bounds
<1>1. \A e \in Errors : StreakBefore(backoff[e]) \in Nat
  BY <1>0 DEF StreakBefore, Backoff
<1>2. ASSUME NEW e \in Errors
      PROVE  /\ AfterBackoffGate[e] \in Backoff
             /\ AfterBackoffGate[e].lastWindow <= BackoffGcAge
             /\ \/ AfterBackoffGate[e] = backoff[e] /\ ~\E r \in FaultAlerts : r.err = e
                \/ AfterBackoffGate[e].lastSent = clock /\ BackoffElapsed(backoff[e])
  <2>1. CASE \E r \in FaultAlerts : r.err = e
    <3> DEFINE streak == StreakBefore(backoff[e])
    <3>1. AfterBackoffGate[e] = [lastSent |-> clock, streak |-> streak + 1,
                                 lastWindow |-> windowForStreak(streak)]
      BY <2>1 DEF AfterBackoffGate
    <3>2. streak \in Nat
      BY <1>1
    <3> HIDE DEF streak
    <3>3. windowForStreak(streak) \in Nat /\ windowForStreak(streak) <= BackoffGcAge
      BY <3>2, WindowOfATier
    <3>4. BackoffElapsed(backoff[e])
      BY <2>1 DEF FaultAlerts
    <3> QED
      BY <1>0, <3>1, <3>2, <3>3, <3>4 DEF Backoff
  <2>2. CASE ~\E r \in FaultAlerts : r.err = e
    BY <1>0, <2>2 DEF AfterBackoffGate, Short
  <2> QED
    BY <2>1, <2>2
<1>3. AfterBackoffGate \in BackoffMap /\ Short(AfterBackoffGate)
  <2>1. AfterBackoffGate = [e \in Errors |-> AfterBackoffGate[e]]
    BY DEF AfterBackoffGate
  <2> QED
    BY <1>2, <2>1 DEF BackoffMap, Short
<1>4. ASSUME NEW n \in new
      PROVE  /\ n \in [err : Errors, at : Time, window : Nat] /\ n.at = clock
             /\ AfterBackoffGate[n.err].lastSent = clock
             /\ n.window = AfterBackoffGate[n.err].lastWindow
             /\ BackoffElapsed(backoff[n.err])
  <2>1. PICK r \in FaultAlerts : n = [err |-> r.err, at |-> clock,
                                      window |-> AfterBackoffGate[r.err].lastWindow]
    OBVIOUS
  <2>2. r.err \in Errors /\ BackoffElapsed(backoff[r.err])
    BY CandidatesSeen DEF FaultAlerts, Row
  <2>3. AfterBackoffGate[r.err] \in Backoff /\ AfterBackoffGate[r.err].lastSent = clock
    <3>1. \E q \in FaultAlerts : q.err = r.err
      OBVIOUS
    <3> QED
      BY <1>2, <2>2, <3>1
  <2> QED
    BY <1>0, <2>1, <2>2, <2>3 DEF Backoff
<1>5. ASSUME Covers(clock, notified, backoff), NEW m \in notified,
             BackoffElapsed(backoff[m.err])
      PROVE  clock >= m.at + m.window
  <2>1. /\ backoff[m.err].lastSent \in Nat /\ backoff[m.err].lastWindow \in Nat
        /\ m.at \in Nat /\ m.window \in Nat
    BY <1>0 DEF Backoff, Time
  <2>2. \/ clock >= m.at + m.window
        \/ /\ backoff[m.err].lastSent # 0
           /\ m.at + m.window <= backoff[m.err].lastSent + backoff[m.err].lastWindow
    BY <1>5 DEF Covers
  <2> QED
    BY <1>0, <1>5, <2>1, <2>2 DEF BackoffElapsed
<1>6. ASSUME Covers(clock, notified, backoff)
      PROVE  Covers(clock, notified \cup new, AfterBackoffGate)
  <2> SUFFICES ASSUME NEW n \in notified \cup new
               PROVE  \/ clock >= n.at + n.window
                      \/ /\ AfterBackoffGate[n.err].lastSent # 0
                         /\ n.at + n.window <= AfterBackoffGate[n.err].lastSent
                                                 + AfterBackoffGate[n.err].lastWindow
    BY DEF Covers
  <2>1. CASE n \in new
    BY <1>0, <1>4, <2>1
  <2>2. CASE n \in notified
    BY <1>0, <1>2, <1>5, <1>6, <2>2 DEF Covers
  <2> QED
    BY <2>1, <2>2
<1>7. ASSUME Covers(clock, notified, backoff), NEW m \in notified, NEW n \in new,
             m.err = n.err
      PROVE  n.at >= m.at + m.window
  BY <1>4, <1>5, <1>7
<1> QED
  BY <1>3, <1>4, <1>6, <1>7

\* A notice that is covered stays so as time passes.
LEMMA CoversLater ==
  ASSUME NEW now \in Nat, NEW N, \A n \in N : n.at \in Nat /\ n.window \in Nat,
         NEW map, Covers(now, N, map)
  PROVE  Covers(now + 1, N, map)
BY DEF Covers

-----------------------------------------------------------------------------
(***************************************************************************)
(* The rebuild from ocpp.db                                                *)
(***************************************************************************)
\* findCableTheftStreakStart is the first theft row of the streak.
LEMMA StreakStart ==
  ASSUME TypeOK, NEW c \in Connectors, NEW latest \in LatestStatus(c),
         latest.kind = "theft"
  PROVE  LET s == findCableTheftStreakStart(c, latest) IN
         /\ \E r \in rows : /\ r.kind = "theft" /\ SameConnector(c, r.conn)
                            /\ r.ts = s
         /\ \A r \in Streak(c) : s <= r.ts
         /\ Streak(c) # {} => ~Recovered(rows, c, s)
<1> DEFINE starts == IF Streak(c) = {} THEN {latest.ts}
                     ELSE {r.ts : r \in Streak(c)}
           s == CHOOSE x \in starts : \A other \in starts : x <= other
<1>1. findCableTheftStreakStart(c, latest) = s
  BY DEF findCableTheftStreakStart
<1>2. latest \in rows /\ latest.conn = c /\ Streak(c) \subseteq rows
  BY DEF LatestStatus, Streak
<1>3. starts \subseteq Nat /\ starts # {}
  BY <1>2 DEF TypeOK, Row, Time
<1>4. s \in starts /\ \A other \in starts : s <= other
  <2> HIDE DEF starts
  <2> QED
    BY <1>3, Least
<1>5. CASE Streak(c) = {}
  BY <1>1, <1>2, <1>4, <1>5 DEF SameConnector
<1>6. CASE Streak(c) # {}
  <2>1. PICK r \in Streak(c) : s = r.ts
    BY <1>4, <1>6
  <2>2. /\ r \in rows /\ r.kind = "theft" /\ SameConnector(c, r.conn)
        /\ ~RecoveredSince(c, s)
    BY <2>1 DEF Streak
  <2>3. \A q \in Streak(c) : s <= q.ts
    BY <1>4, <1>6
  <2> HIDE DEF s
  <2> QED
    BY <1>1, <2>1, <2>2, <2>3 DEF Recovered, RecoveredSince
<1> QED
  BY <1>5, <1>6

\* What is adopted is the start of a theft streak; a theft that is clearly
\* open is adopted, and its gate shut.
LEMMA Rebuilt ==
  ASSUME TypeOK, Dated
  PROVE  /\ reconstructOpenCableTheftIncidents \in IncidentMap
         /\ Caused(rows, reconstructOpenCableTheftIncidents)
         /\ \A c \in Connectors : OpenAt(rows, c, clock) =>
              Shut(rows, c, reconstructOpenCableTheftIncidents[c].alertedAt)
<1> DEFINE new == reconstructOpenCableTheftIncidents
           open(c) == {findCableTheftStreakStart(c, r) :
                         r \in {l \in LatestStatus(c) : l.kind = "theft"}}
           old(c) == {s \in open(c) : clock >= s + RebuildMinAge}
<1>0. /\ clock \in Time /\ clock \in Nat /\ QueryWindow \in Nat \ {0}
      /\ RebuildMinAge \in Nat /\ rows \subseteq Row
      /\ NoIncident \in Incident /\ NoIncident.alertedAt = 0
  BY BoundsAssumption, WindowsAssumption
  DEF TypeOK, Time, Bounds, NoIncident, Incident
<1>1. \A c \in Connectors :
        new[c] = IF old(c) = {} THEN NoIncident
                 ELSE [alertedAt |-> CHOOSE s \in old(c) : TRUE, lastSeenAt |-> clock]
  BY DEF reconstructOpenCableTheftIncidents
<1>2. new = [c \in Connectors |-> new[c]]
  BY DEF reconstructOpenCableTheftIncidents
<1>3. ASSUME NEW c \in Connectors, NEW s \in open(c)
      PROVE  /\ s \in Time
             /\ \E r \in rows : /\ r.kind = "theft" /\ SameConnector(c, r.conn)
                                /\ r.ts = s
             /\ \A r \in Streak(c) : s <= r.ts
             /\ Streak(c) # {} => ~Recovered(rows, c, s)
  <2>1. PICK r \in LatestStatus(c) : r.kind = "theft" /\ s = findCableTheftStreakStart(c, r)
    OBVIOUS
  <2>2. /\ \E q \in rows : /\ q.kind = "theft" /\ SameConnector(c, q.conn)
                           /\ q.ts = s
        /\ \A q \in Streak(c) : s <= q.ts
        /\ Streak(c) # {} => ~Recovered(rows, c, s)
    BY <2>1, StreakStart
  <2> QED
    BY <1>0, <2>2 DEF Row
<1>4. ASSUME NEW c \in Connectors
      PROVE  \/ old(c) = {} /\ new[c] = NoIncident
             \/ \E s \in old(c) : new[c] = [alertedAt |-> s, lastSeenAt |-> clock]
  <2>1. old(c) # {} => (CHOOSE s \in old(c) : TRUE) \in old(c)
    <3> HIDE DEF old
    <3> QED
      OBVIOUS
  <2> HIDE DEF old
  <2> QED
    BY <1>1, <2>1
<1>5. \A c \in Connectors : \A s :
        s \in old(c) <=> s \in open(c) /\ clock >= s + RebuildMinAge
  OBVIOUS
<1> HIDE DEF new, open, old
<1>6. \A c \in Connectors : new[c] \in Incident
  <2> SUFFICES ASSUME NEW c \in Connectors PROVE new[c] \in Incident
    OBVIOUS
  <2>1. CASE new[c] = NoIncident
    BY <1>0, <2>1
  <2>2. ASSUME NEW s \in old(c), new[c] = [alertedAt |-> s, lastSeenAt |-> clock]
        PROVE  new[c] \in Incident
    BY <1>0, <1>3, <1>5, <2>2 DEF Incident
  <2> QED
    BY <1>4, <2>1, <2>2
<1>7. ASSUME NEW c \in Connectors
      PROVE  \/ old(c) = {} /\ new[c].alertedAt = 0
             \/ \E s \in open(c) : new[c].alertedAt = s
  <2>1. CASE old(c) = {} /\ new[c] = NoIncident
    BY <1>0, <2>1
  <2>2. ASSUME NEW s \in old(c), new[c] = [alertedAt |-> s, lastSeenAt |-> clock]
        PROVE  \E x \in open(c) : new[c].alertedAt = x
    <3>1. s \in open(c)
      BY <1>5
    <3>2. new[c].alertedAt = s
      BY <2>2
    <3> QED
      BY <3>1, <3>2
  <2> QED
    BY <1>4, <2>1, <2>2
<1>8. Caused(rows, new)
  <2> SUFFICES ASSUME NEW c \in Connectors, new[c].alertedAt # 0
               PROVE  \E r \in rows : /\ r.kind = "theft" /\ SameConnector(c, r.conn)
                                      /\ r.ts <= new[c].alertedAt
                                      /\ new[c].alertedAt < r.ts + QueryWindow
    BY DEF Caused
  <2>1. PICK s \in open(c) : new[c].alertedAt = s
    BY <1>7
  <2>2. PICK r \in rows : /\ r.kind = "theft" /\ SameConnector(c, r.conn)
                          /\ r.ts = s
    BY <1>3, <2>1
  <2>3. s \in Nat
    BY <1>3 DEF Time
  <2> QED
    BY <1>0, <2>1, <2>2, <2>3
<1>9. ASSUME NEW c \in Connectors, OpenAt(rows, c, clock)
      PROVE  Shut(rows, c, new[c].alertedAt)
  <2> DEFINE past == {r \in rows : r.ts < clock /\ SameConnector(c, r.conn)}
  <2>1. PICK r \in past : /\ r.conn = c /\ r.kind = "theft"
                          /\ r.ts + RebuildWindow > clock
                          /\ \A s \in past : s.conn = c => s.ts <= r.ts
    BY <1>9 DEF OpenAt
  <2>2. PICK q \in past : /\ q.kind = "theft" /\ clock >= q.ts + RebuildMinAge
                          /\ \A s \in past : s.kind = "op" => s.ts < q.ts
    BY <1>9 DEF OpenAt
  <2>3. \A s \in rows : SameConnector(c, s.conn) => s \in past
    BY DEF Dated
  <2>4. r \in LatestStatus(c)
    BY <2>1, <2>3 DEF LatestStatus, SameConnector
  <2>5. q \in Streak(c)
    <3>1. ~RecoveredSince(c, q.ts)
      <4> SUFFICES ASSUME NEW s \in rows, s.ts > q.ts, s.kind = "op",
                          SameConnector(c, s.conn)
                   PROVE  FALSE
        BY DEF RecoveredSince
      <4>1. s.ts < q.ts /\ s.ts \in Nat /\ q.ts \in Nat
        BY <1>0, <2>2, <2>3 DEF Row, Time
      <4> QED
        BY <4>1
    <3> QED
      BY <2>2, <3>1 DEF Streak
  <2> HIDE DEF past
  <2> DEFINE start == findCableTheftStreakStart(c, r)
  <2>6. \A s \in open(c) : s <= q.ts /\ ~Recovered(rows, c, s) /\ s \in Nat /\ s # 0
    <3> SUFFICES ASSUME NEW s \in open(c)
                 PROVE  s <= q.ts /\ ~Recovered(rows, c, s) /\ s \in Nat /\ s # 0
      OBVIOUS
    <3>1. s <= q.ts /\ ~Recovered(rows, c, s)
      BY <1>3, <2>5
    <3>2. PICK x \in rows : x.ts = s
      BY <1>3
    <3>3. x.ts \in Nat /\ 0 < x.ts
      BY <1>0 DEF Row, Time, Dated
    <3> QED
      BY <3>1, <3>2, <3>3
  <2>7. start \in open(c)
    BY <2>1, <2>4 DEF open
  <2>8. q.ts \in Nat
    BY <1>0, <2>2 DEF Row, Time, past
  <2>9. start \in old(c)
    BY <1>0, <1>5, <2>2, <2>6, <2>7, <2>8
  <2> HIDE DEF start
  <2>10. PICK s \in open(c) : new[c].alertedAt = s
    BY <1>7, <2>9
  <2> QED
    BY <2>6, <2>10 DEF Shut
<1> QED
  BY <1>2, <1>6, <1>8, <1>9 DEF IncidentMap, new

-----------------------------------------------------------------------------
(***************************************************************************)
(* The state files                                                         *)
(***************************************************************************)
LEMMA Persisted ==
  ASSUME saveFails \in Nat, NEW wroteIncidents, NEW wroteBackoff,
         Persist(wroteIncidents, wroteBackoff)
  PROVE  /\ saveFails' \in Nat
         /\ incidentFile' \in {incidentFile, [readable |-> TRUE, state |-> incidents']}
         /\ backoffFile' \in {backoffFile, backoff'}
         /\ saveFails' = 0 =>
              /\ saveFails = 0
              /\ IF wroteIncidents
                 THEN incidentFile' = [readable |-> TRUE, state |-> incidents']
                 ELSE incidentFile' = incidentFile
              /\ IF wroteBackoff THEN backoffFile' = backoff'
                 ELSE backoffFile' = backoffFile
<1>1. PICK fails \in SUBSET {"incidents", "backoff"} :
        /\ saveFails' = saveFails + Cardinality(fails)
        /\ incidentFile' = IF wroteIncidents /\ "incidents" \notin fails
                           THEN [readable |-> TRUE, state |-> incidents']
                           ELSE incidentFile
        /\ backoffFile' = IF wroteBackoff /\ "backoff" \notin fails
                          THEN backoff' ELSE backoffFile
  BY DEF Persist
<1>2. IsFiniteSet(fails) /\ Cardinality(fails) \in Nat
  <2>1. IsFiniteSet({"incidents", "backoff"})
    <3>1. IsFiniteSet({"incidents"})
      BY FS_Singleton
    <3>2. {"incidents", "backoff"} = {"incidents"} \cup {"backoff"}
      OBVIOUS
    <3> QED
      BY <3>1, <3>2, FS_AddElement
  <2> QED
    BY <2>1, FS_Subset, FS_CardinalityType
<1>3. Cardinality(fails) = 0 => fails = {}
  BY <1>2, FS_EmptySet
<1> QED
  BY <1>1, <1>2, <1>3

\* The incident file, whatever the records are.
LEMMA FileSort ==
  ASSUME NEW S
  PROVE  /\ \A m \in S : [readable |-> TRUE, state |-> m]
                           \in [readable : BOOLEAN, state : S]
         /\ \A f \in [readable : BOOLEAN, state : S] :
              /\ [f EXCEPT !.readable = FALSE] \in [readable : BOOLEAN, state : S]
              /\ [f EXCEPT !.readable = FALSE].readable = FALSE
              /\ [f EXCEPT !.readable = FALSE].state = f.state
<1>1. \A m \in S : [readable |-> TRUE, state |-> m]
                     \in [readable : BOOLEAN, state : S]
  OBVIOUS
<1>2. ASSUME NEW f \in [readable : BOOLEAN, state : S]
      PROVE  /\ [f EXCEPT !.readable = FALSE] \in [readable : BOOLEAN, state : S]
             /\ [f EXCEPT !.readable = FALSE].readable = FALSE
             /\ [f EXCEPT !.readable = FALSE].state = f.state
  OBVIOUS
<1> QED
  BY <1>1, <1>2

-----------------------------------------------------------------------------
(***************************************************************************)
(* The invariant is inductive                                              *)
(***************************************************************************)
LEMMA InitInv == Init => IInv
<1> SUFFICES ASSUME Init PROVE IInv
  OBVIOUS
<1>1. /\ NoIncidents \in IncidentMap /\ NoBackoffs \in BackoffMap
      /\ Short(NoBackoffs) /\ 0 \in Nat /\ BackoffGcAge \in Nat /\ 1 \in Time
  BY BoundsAssumption
  DEF NoIncidents, NoIncident, IncidentMap, Incident, NoBackoffs, NoBackoff,
      BackoffMap, Backoff, Short, Time, Bounds
<1>2. TypeOK
  BY <1>1 DEF Init, TypeOK
<1>3. Dated /\ Sourced /\ Undamaged
  BY DEF Init, Dated, Sourced, Undamaged
<1>4. Sound
  BY DEF Init, Sound, Caused, NoIncidents, NoIncident
<1>5. Kept
  BY DEF Init, Kept, Remembers, Apart
<1>6. Backed
  BY <1>1 DEF Init, Backed, Covers
<1> QED
  BY <1>2, <1>3, <1>4, <1>5, <1>6 DEF IInv

\* Numbers and sorts of what the invariant speaks of.
LEMMA Sorts ==
  ASSUME TypeOK
  PROVE  /\ clock \in Nat /\ saveFails \in Nat /\ corruptions \in Nat
         /\ \A r \in rows : r.ts \in Nat
         /\ \A a \in alerts : a.conn \in Connectors /\ a.at \in Nat
         /\ \A t \in rebuilds : t \in Nat
         /\ \A n \in notified : /\ n.err \in Errors /\ n.at \in Nat
                                /\ n.window \in Nat
         /\ clock <= MaxTime => clock + 1 \in Time
<1>1. MaxTime \in Nat
  BY BoundsAssumption DEF Bounds
<1> QED
  BY <1>1 DEF TypeOK, Time, Row, Alert

\* As time passes nothing else changes its meaning.
LEMMA BackedLater ==
  ASSUME TypeOK, Backed, UNCHANGED <<backoff, backoffFile, saveFails, up, notified>>,
         clock' \in {clock, clock + 1}
  PROVE  Backed'
<1>1. Covers(clock, notified, backoffFile) => Covers(clock', notified, backoffFile)
  BY CoversLater, Sorts
<1> QED
  BY <1>1 DEF Backed

LEMMA ReportInv ==
  ASSUME IInv, NEW c \in Connectors, NEW k \in {"op", "theft", "fault"},
         NEW e \in Errors, Report(c, k, e)
  PROVE  IInv'
<1> DEFINE row == [ts |-> clock, conn |-> c, kind |-> k, err |-> e]
<1>1. /\ rows' = rows \cup {row} /\ clock' = clock + 1 /\ clock <= MaxTime
      /\ row \in Row /\ row.ts = clock
      /\ UNCHANGED <<up, incidents, incidentFile, backoff, backoffFile, queue,
                     busy, crashes, saveFails, corruptions, alerts, bursts,
                     rebuilds, notified>>
  BY DEF Report, Advance, files, history, Row, IInv, TypeOK
<1> HIDE DEF row
<1>2. TypeOK'
  BY <1>1, Sorts DEF IInv, TypeOK
<1>3. Dated'
  BY <1>1, Sorts DEF IInv, Dated
<1>4. Sourced' /\ Undamaged'
  BY <1>1 DEF IInv, Sourced, Undamaged
<1>5. Sound'
  BY <1>1, CausedGrows DEF IInv, Sound
<1>6. Kept'
  <2>1. /\ \A map : Remembers(rows, alerts, rebuilds, map)
                      => Remembers(rows \cup {row}, alerts, rebuilds, map)
        /\ Apart(rows, alerts, rebuilds) => Apart(rows \cup {row}, alerts, rebuilds)
    BY <1>1, RowsGrow, Sorts DEF IInv, Dated
  <2> QED
    BY <1>1, <2>1 DEF IInv, Kept
<1>7. Backed'
  BY <1>1, BackedLater DEF IInv
<1> QED
  BY <1>2, <1>3, <1>4, <1>5, <1>6, <1>7 DEF IInv

\* The process starts from the files, or from ocpp.db.
LEMMA StartInv ==
  ASSUME IInv, Start
  PROVE  IInv'
<1>1. /\ ~up /\ up' = TRUE /\ backoff' = backoffFile
      /\ UNCHANGED <<clock, rows, queue, busy, crashes, corruptions, alerts,
                     bursts, notified>>
  BY DEF Start, env
<1>2. CASE incidentFile.readable
  <2>1. /\ incidents' = incidentFile.state
        /\ UNCHANGED <<incidentFile, backoffFile, saveFails, rebuilds>>
    BY <1>2 DEF Start, files
  <2>2. TypeOK' /\ Dated' /\ Sourced' /\ Undamaged' /\ Sound'
    BY <1>1, <2>1 DEF IInv, TypeOK, Dated, Sourced, Undamaged, Sound
  <2>3. Kept' /\ Backed'
    BY <1>1, <1>2, <2>1 DEF IInv, Kept, Backed
  <2> QED
    BY <2>2, <2>3 DEF IInv
<1>3. CASE ~incidentFile.readable
  <2> DEFINE new == reconstructOpenCableTheftIncidents
  <2>1. incidents' = new /\ Persist(TRUE, FALSE) /\ rebuilds' = rebuilds \cup {clock}
    BY <1>3 DEF Start
  <2>2. /\ new \in IncidentMap /\ Caused(rows, new)
        /\ \A c \in Connectors : OpenAt(rows, c, clock)
             => Shut(rows, c, new[c].alertedAt)
    BY Rebuilt DEF IInv
  <2> HIDE DEF new
  <2>3. /\ saveFails' \in Nat
        /\ incidentFile' \in {incidentFile, [readable |-> TRUE, state |-> new]}
        /\ backoffFile' = backoffFile
        /\ saveFails' = 0 => /\ saveFails = 0
                             /\ incidentFile' = [readable |-> TRUE, state |-> new]
    BY <1>1, <2>1, Persisted, Sorts DEF IInv
  <2>4. TypeOK'
    <3>1. incidentFile' \in [readable : BOOLEAN, state : IncidentMap]
      BY <2>2, <2>3, FileSort DEF IInv, TypeOK
    <3> QED
      BY <1>1, <2>1, <2>2, <2>3, <3>1 DEF IInv, TypeOK
  <2>5. Dated' /\ Sourced' /\ Undamaged'
    BY <1>1, <1>3, <2>1, <2>3, Sorts DEF IInv, Dated, Sourced, Undamaged
  <2>6. Sound'
    BY <1>1, <2>1, <2>2, <2>3 DEF IInv, Sound
  <2>7. Kept'
    <3>1. Remembers(rows, alerts, rebuilds', new)
      BY <2>1, <2>2, Sorts DEF Remembers, IInv, Dated
    <3>2. Apart(rows, alerts, rebuilds) => Apart(rows, alerts, rebuilds')
      BY <2>1 DEF Apart
    <3> QED
      BY <1>1, <2>1, <2>3, <3>1, <3>2 DEF IInv, Kept
  <2>8. Backed'
    BY <1>1, <2>3 DEF IInv, Backed
  <2> QED
    BY <2>4, <2>5, <2>6, <2>7, <2>8 DEF IInv
<1> QED
  BY <1>2, <1>3

LEMMA CleanupInv ==
  ASSUME IInv, NEW t \in Ticks, Cleanup(t)
  PROVE  IInv'
<1> DEFINE map  == cleanupCableTheftState(incidents)
           back == cleanupChargerFaultBackoff(backoff)
<1>1. /\ t \in busy /\ busy' = busy \ {t} /\ incidents' = map /\ backoff' = back
      /\ Persist(incidents' # incidents, backoff' # backoff)
      /\ UNCHANGED <<clock, up, queue, rows, crashes, corruptions, alerts,
                     bursts, rebuilds, notified>>
  BY DEF Cleanup, env, history
<1>2. /\ map \in IncidentMap
      /\ Caused(rows, incidents) => Caused(rows, map)
      /\ Remembers(rows, alerts, rebuilds, incidents)
           => Remembers(rows, alerts, rebuilds, map)
  BY CleanupForgets, CleanupKeeps, Sorts DEF IInv, TypeOK
<1>3. /\ back \in BackoffMap /\ Short(back)
      /\ Covers(clock, notified, backoff) => Covers(clock, notified, back)
  BY CleanupUncovers, Sorts DEF IInv, TypeOK, Backed
<1>4. /\ saveFails' \in Nat
      /\ incidentFile' \in {incidentFile, [readable |-> TRUE, state |-> incidents']}
      /\ backoffFile' \in {backoffFile, backoff'}
      /\ saveFails' = 0 =>
           /\ saveFails = 0
           /\ IF incidents' # incidents
              THEN incidentFile' = [readable |-> TRUE, state |-> incidents']
              ELSE incidentFile' = incidentFile
           /\ IF backoff' # backoff THEN backoffFile' = backoff'
              ELSE backoffFile' = backoffFile
  BY <1>1, Persisted, Sorts DEF IInv
<1> HIDE DEF map, back
<1>5. TypeOK'
  <2>1. incidentFile' \in [readable : BOOLEAN, state : IncidentMap]
    BY <1>1, <1>2, <1>4, FileSort DEF IInv, TypeOK
  <2>2. backoffFile' \in BackoffMap
    BY <1>1, <1>3, <1>4 DEF IInv, TypeOK
  <2> QED
    BY <1>1, <1>2, <1>3, <1>4, <2>1, <2>2 DEF IInv, TypeOK
<1>6. Dated' /\ Sourced' /\ Undamaged'
  BY <1>1, <1>4 DEF IInv, Dated, Sourced, Undamaged
<1>7. Sound'
  BY <1>1, <1>2, <1>4 DEF IInv, Sound
<1>8. Kept'
  <2>1. up
    BY <1>1 DEF IInv, Sourced
  <2> QED
    BY <1>1, <1>2, <1>4, <2>1 DEF IInv, Kept
<1>9. Backed'
  <2>1. up
    BY <1>1 DEF IInv, Sourced
  <2> QED
    BY <1>1, <1>3, <1>4, <2>1 DEF IInv, Backed
<1> QED
  BY <1>5, <1>6, <1>7, <1>8, <1>9 DEF IInv

\* What a tick's detection leaves in memory and in the history.
LEMMA Detected ==
  ASSUME IInv, NEW t \in Ticks, Detect(t),
         NEW new, new = {AlertOf(r) : r \in TheftAlerts},
         NEW notices, notices = {[err |-> r.err, at |-> clock,
                                  window |-> AfterBackoffGate[r.err].lastWindow]
                                   : r \in FaultAlerts}
  PROVE  /\ up /\ up' /\ clock' = clock + 1 /\ clock <= MaxTime
         /\ UNCHANGED <<rows, crashes, corruptions, bursts, rebuilds>>
         /\ alerts' = alerts \cup new /\ notified' = notified \cup notices
         /\ incidents' \in {AfterTheftGate, cleanupCableTheftState(AfterTheftGate)}
         /\ \/ backoff' = AfterBackoffGate
            \/ notices = {} /\ backoff' = cleanupChargerFaultBackoff(backoff)
         /\ queue' \in [Ticks -> SUBSET Alert] /\ busy' \subseteq Ticks
         /\ \A q \in Ticks : \A a \in queue'[q] : a.theft => a \in alerts'
         /\ saveFails' \in Nat
         /\ incidentFile' \in {incidentFile, [readable |-> TRUE, state |-> incidents']}
         /\ backoffFile' \in {backoffFile, backoff'}
         /\ saveFails' = 0 =>
              /\ saveFails = 0
              /\ \/ incidentFile' = [readable |-> TRUE, state |-> incidents']
                 \/ incidents' = incidents /\ incidentFile' = incidentFile
              /\ \/ backoffFile' = backoff'
                 \/ backoff' = backoff /\ backoffFile' = backoffFile
<1>1. /\ up /\ up' = up /\ clock' = clock + 1 /\ clock <= MaxTime
      /\ UNCHANGED <<rows, crashes, corruptions, bursts, rebuilds>>
      /\ alerts' = alerts \cup new
      /\ notified' = notified \cup
           {[err |-> r.err, at |-> clock, window |-> backoff'[r.err].lastWindow]
              : r \in FaultAlerts}
      /\ queue' = [queue EXCEPT ![t] = {AlertOf(r) : r \in TheftAlerts \cup FaultAlerts}]
      /\ TypeOK
  BY DEF Detect, Advance, env, IInv
<1>2. notified' = notified \cup notices
  <2>1. CASE FaultAlerts = {}
    BY <1>1, <2>1
  <2>2. CASE FaultAlerts # {}
    <3>1. backoff' = AfterBackoffGate
      BY <2>2 DEF Detect
    <3> QED
      BY <1>1, <3>1
  <2> QED
    BY <2>1, <2>2
<1>3. /\ incidents' \in {AfterTheftGate, cleanupCableTheftState(AfterTheftGate)}
      /\ \/ backoff' = AfterBackoffGate
         \/ notices = {} /\ backoff' = cleanupChargerFaultBackoff(backoff)
      /\ busy' \subseteq Ticks
  <2>1. CASE TheftAlerts \cup FaultAlerts = {}
    <3>1. /\ incidents' = cleanupCableTheftState(AfterTheftGate)
          /\ backoff' = cleanupChargerFaultBackoff(backoff) /\ busy' = busy
      BY <2>1 DEF Detect
    <3>2. notices = {}
      BY <2>1
    <3> QED
      BY <1>1, <3>1, <3>2 DEF TypeOK
  <2>2. CASE TheftAlerts \cup FaultAlerts # {}
    <3>1. /\ incidents' = AfterTheftGate /\ backoff' = AfterBackoffGate
          /\ busy' = busy \cup {t}
      BY <2>2 DEF Detect
    <3> QED
      BY <1>1, <3>1 DEF TypeOK
  <2> QED
    BY <2>1, <2>2
<1>4. ASSUME NEW r \in TheftAlerts \cup FaultAlerts
      PROVE  /\ AlertOf(r) \in Alert
             /\ AlertOf(r).theft => AlertOf(r) \in new
  <2>1. r \in Candidates /\ r \in Row
    BY <1>1, CandidatesSeen DEF TheftAlerts, FaultAlerts
  <2>2. AlertOf(r) \in Alert
    BY <1>1, <2>1 DEF AlertOf, Alert, Row, TypeOK
  <2>3. AlertOf(r).theft => r \in TheftAlerts
    BY DEF AlertOf, FaultAlerts
  <2> QED
    BY <2>2, <2>3
<1>5. /\ queue' \in [Ticks -> SUBSET Alert]
      /\ \A q \in Ticks : \A a \in queue'[q] : a.theft => a \in alerts'
  <2> DEFINE found == {AlertOf(r) : r \in TheftAlerts \cup FaultAlerts}
  <2>1. \A a \in found : a \in Alert /\ (a.theft => a \in new)
    BY <1>4
  <2>2. queue' = [queue EXCEPT ![t] = found]
    BY <1>1
  <2> HIDE DEF found
  <2>3. queue' \in [Ticks -> SUBSET Alert]
    BY <1>1, <2>1, <2>2 DEF TypeOK
  <2>4. \A q \in Ticks : queue'[q] = IF q = t THEN found ELSE queue[q]
    BY <1>1, <2>2 DEF TypeOK
  <2> QED
    BY <1>1, <2>1, <2>3, <2>4 DEF IInv, Sourced
<1>6. Persist(\/ \E r \in Candidates : r.kind = "theft"
              \/ incidents' # incidents,
              backoff' # backoff)
  BY DEF Detect
<1>7. /\ saveFails' \in Nat
      /\ incidentFile' \in {incidentFile, [readable |-> TRUE, state |-> incidents']}
      /\ backoffFile' \in {backoffFile, backoff'}
      /\ saveFails' = 0 =>
           /\ saveFails = 0
           /\ \/ incidentFile' = [readable |-> TRUE, state |-> incidents']
              \/ incidents' = incidents /\ incidentFile' = incidentFile
           /\ \/ backoffFile' = backoff'
              \/ backoff' = backoff /\ backoffFile' = backoffFile
  BY <1>1, <1>6, Persisted, Sorts
<1> QED
  BY <1>1, <1>2, <1>3, <1>5, <1>7

LEMMA DetectInv ==
  ASSUME IInv, NEW t \in Ticks, Detect(t)
  PROVE  IInv'
<1> DEFINE new     == {AlertOf(r) : r \in TheftAlerts}
           notices == {[err |-> r.err, at |-> clock,
                        window |-> AfterBackoffGate[r.err].lastWindow]
                         : r \in FaultAlerts}
<1>0. TypeOK /\ Dated /\ Short(backoff) /\ Caused(rows, incidents)
  BY DEF IInv, Backed, Sound
<1>1. /\ up /\ up' /\ clock' = clock + 1 /\ clock <= MaxTime
      /\ UNCHANGED <<rows, crashes, corruptions, bursts, rebuilds>>
      /\ alerts' = alerts \cup new /\ notified' = notified \cup notices
      /\ incidents' \in {AfterTheftGate, cleanupCableTheftState(AfterTheftGate)}
      /\ \/ backoff' = AfterBackoffGate
         \/ notices = {} /\ backoff' = cleanupChargerFaultBackoff(backoff)
      /\ queue' \in [Ticks -> SUBSET Alert] /\ busy' \subseteq Ticks
      /\ \A q \in Ticks : \A a \in queue'[q] : a.theft => a \in alerts'
      /\ saveFails' \in Nat
      /\ incidentFile' \in {incidentFile, [readable |-> TRUE, state |-> incidents']}
      /\ backoffFile' \in {backoffFile, backoff'}
      /\ saveFails' = 0 =>
           /\ saveFails = 0
           /\ \/ incidentFile' = [readable |-> TRUE, state |-> incidents']
              \/ incidents' = incidents /\ incidentFile' = incidentFile
           /\ \/ backoffFile' = backoff'
              \/ backoff' = backoff /\ backoffFile' = backoffFile
  BY Detected
<1>2. /\ Remembers(rows, alerts, rebuilds, incidents)
           => /\ Remembers(rows, alerts \cup new, rebuilds, AfterTheftGate)
              /\ Apart(rows, alerts, rebuilds)
                   => Apart(rows, alerts \cup new, rebuilds)
      /\ \A a \in new : a \in Alert /\ a.at = clock
      /\ \A a, b \in new : a.conn = b.conn => a = b
  BY <1>0, TheftGateRemembers
<1>3. /\ AfterBackoffGate \in BackoffMap /\ Short(AfterBackoffGate)
      /\ \A n \in notices : /\ n \in [err : Errors, at : Time, window : Nat]
                            /\ n.at = clock
      /\ Covers(clock, notified, backoff)
           => /\ Covers(clock, notified \cup notices, AfterBackoffGate)
              /\ \A m \in notified, n \in notices :
                   m.err = n.err => n.at >= m.at + m.window
  BY <1>0, BackoffGate
<1> HIDE DEF new, notices
<1>4. /\ incidents' \in IncidentMap /\ Caused(rows, incidents')
      /\ Remembers(rows, alerts \cup new, rebuilds, AfterTheftGate)
           => Remembers(rows, alerts \cup new, rebuilds, incidents')
  <2>1. AfterTheftGate \in IncidentMap /\ Caused(rows, AfterTheftGate)
    BY <1>0, TheftGate, TheftGateCaused
  <2>2. \A a \in alerts \cup new : a.conn \in Connectors
    BY <1>0, <1>2, Sorts DEF Alert
  <2> QED
    BY <1>1, <2>1, <2>2, CleanupForgets, CleanupKeeps
<1>5. /\ backoff' \in BackoffMap /\ Short(backoff')
      /\ Covers(clock, notified, backoff) => Covers(clock', notified', backoff')
  <2>1. CASE backoff' = AfterBackoffGate
    <3>1. \A n \in notified' : n.at \in Nat /\ n.window \in Nat
      BY <1>0, <1>1, <1>3, Sorts DEF Time
    <3>2. Covers(clock, notified', backoff') => Covers(clock + 1, notified', backoff')
      BY <1>0, <3>1, CoversLater, Sorts
    <3> QED
      BY <1>1, <1>3, <2>1, <3>2
  <2>2. CASE notices = {} /\ backoff' = cleanupChargerFaultBackoff(backoff)
    <3>1. /\ backoff' \in BackoffMap /\ Short(backoff')
          /\ Covers(clock, notified, backoff) => Covers(clock, notified, backoff')
      BY <1>0, <2>2, CleanupUncovers, Sorts DEF TypeOK
    <3>2. notified' = notified
      BY <1>1, <2>2
    <3>3. Covers(clock, notified, backoff') => Covers(clock + 1, notified, backoff')
      BY <1>0, CoversLater, Sorts
    <3> QED
      BY <1>1, <3>1, <3>2, <3>3
  <2> QED
    BY <1>1, <2>1, <2>2
<1>6. TypeOK'
  <2>1. incidentFile' \in [readable : BOOLEAN, state : IncidentMap]
    BY <1>0, <1>1, <1>4, FileSort DEF TypeOK
  <2>2. backoffFile' \in BackoffMap
    BY <1>0, <1>1, <1>5 DEF TypeOK
  <2>3. clock' \in Time
    BY <1>0, <1>1, Sorts
  <2>4. alerts' \subseteq Alert /\ notified' \subseteq [err : Errors, at : Time, window : Nat]
    BY <1>0, <1>1, <1>2, <1>3 DEF TypeOK
  <2> QED
    BY <1>0, <1>1, <1>4, <1>5, <2>1, <2>2, <2>3, <2>4 DEF TypeOK
<1>7. Dated'
  <2>1. \A a \in alerts' : a \in alerts \/ (a \in new /\ a.at = clock)
    BY <1>1, <1>2
  <2>2. \A a, b \in alerts' : a.conn = b.conn /\ a.at = b.at => a = b
    BY <1>0, <1>2, <2>1, Sorts DEF Dated
  <2>3. /\ \A a \in alerts' : a.at < clock + 1
        /\ \A n \in notified' : n.at < clock + 1
    BY <1>0, <1>1, <1>3, <2>1, Sorts DEF Dated
  <2> QED
    BY <1>0, <1>1, <2>2, <2>3, Sorts DEF Dated
<1>8. Sourced' /\ Undamaged'
  BY <1>1 DEF IInv, Sourced, Undamaged
<1>9. Sound'
  BY <1>1, <1>4 DEF IInv, Sound
<1>10. Kept'
  BY <1>1, <1>2, <1>4 DEF IInv, Kept
<1>11. Backed'
  <2>1. Short(backoffFile')
    BY <1>1, <1>5 DEF IInv, Backed
  <2>2. ASSUME saveFails' = 0
        PROVE  /\ backoffFile' = backoff' /\ Covers(clock', notified', backoffFile')
               /\ \A m, n \in notified' :
                    m.err = n.err /\ m.at < n.at => n.at >= m.at + m.window
    <3>1. /\ Covers(clock, notified, backoff) /\ backoffFile' = backoff'
          /\ \A m, n \in notified :
               m.err = n.err /\ m.at < n.at => n.at >= m.at + m.window
      BY <1>1, <2>2 DEF IInv, Backed
    <3>2. \A m \in notices : \A n \in notified' : ~(m.at < n.at)
      BY <1>0, <1>1, <1>3, Sorts DEF Dated
    <3> QED
      BY <1>1, <1>3, <1>5, <3>1, <3>2
  <2> QED
    BY <1>5, <2>1, <2>2 DEF Backed
<1> QED
  BY <1>6, <1>7, <1>8, <1>9, <1>10, <1>11 DEF IInv

LEMMA StepInv == IInv /\ [Next]_vars => IInv'
<1> SUFFICES ASSUME IInv, [Next]_vars PROVE IInv'
  OBVIOUS
<1>1. CASE UNCHANGED vars
  BY <1>1 DEF vars, IInv, TypeOK, Dated, Sourced, Sound, Kept, Undamaged, Backed
<1>2. ASSUME NEW c \in Connectors, NEW k \in {"op", "theft", "fault"},
             NEW e \in Errors, Report(c, k, e)
      PROVE  IInv'
  BY <1>2, ReportInv
<1>3. CASE Elapse
  <2>1. /\ clock' = clock + 1 /\ clock <= MaxTime
        /\ UNCHANGED <<rows, up, incidents, incidentFile, backoff, backoffFile,
                       queue, busy, crashes, saveFails, corruptions, alerts,
                       bursts, rebuilds, notified>>
    BY <1>3 DEF Elapse, Advance, files, env, history
  <2>2. TypeOK' /\ Dated'
    BY <2>1, Sorts DEF IInv, TypeOK, Dated
  <2>3. Sourced' /\ Sound' /\ Kept' /\ Undamaged'
    BY <2>1 DEF IInv, Sourced, Sound, Kept, Undamaged
  <2>4. Backed'
    BY <2>1, BackedLater DEF IInv
  <2> QED
    BY <2>2, <2>3, <2>4 DEF IInv
<1>4. CASE CorruptFile
  <2>1. /\ corruptions' = corruptions + 1
        /\ incidentFile' = [incidentFile EXCEPT !.readable = FALSE]
        /\ UNCHANGED <<clock, rows, up, incidents, backoff, backoffFile, queue,
                       busy, crashes, saveFails, alerts, bursts, rebuilds, notified>>
    BY <1>4 DEF CorruptFile, history
  <2>2. /\ incidentFile' \in [readable : BOOLEAN, state : IncidentMap]
        /\ ~incidentFile'.readable /\ incidentFile'.state = incidentFile.state
        /\ corruptions' \in Nat /\ corruptions' # 0
    BY <2>1, FileSort DEF IInv, TypeOK
  <2>3. TypeOK' /\ Dated'
    BY <2>1, <2>2 DEF IInv, TypeOK, Dated
  <2>4. Sourced' /\ Sound' /\ Kept' /\ Undamaged' /\ Backed'
    BY <2>1, <2>2 DEF IInv, Sourced, Sound, Kept, Undamaged, Backed
  <2> QED
    BY <2>3, <2>4 DEF IInv
<1>5. CASE Crash
  <2>1. /\ crashes' = crashes + 1 /\ ~up' /\ up' \in BOOLEAN
        /\ incidents' = NoIncidents /\ backoff' = NoBackoffs
        /\ queue' = [t \in Ticks |-> {}] /\ busy' = {}
        /\ UNCHANGED <<clock, rows, incidentFile, backoffFile, saveFails,
                       corruptions, alerts, bursts, rebuilds, notified>>
    BY <1>5 DEF Crash, files, history
  <2>2. /\ NoIncidents \in IncidentMap /\ NoBackoffs \in BackoffMap
        /\ Short(NoBackoffs) /\ Caused(rows, NoIncidents)
    BY BoundsAssumption
    DEF NoIncidents, NoIncident, IncidentMap, Incident, NoBackoffs, NoBackoff,
        BackoffMap, Backoff, Short, Time, Bounds, Caused
  <2>3. TypeOK' /\ Dated'
    BY <2>1, <2>2 DEF IInv, TypeOK, Dated
  <2>4. Sourced' /\ Sound' /\ Kept' /\ Undamaged' /\ Backed'
    BY <2>1, <2>2 DEF IInv, Sourced, Sound, Kept, Undamaged, Backed
  <2> QED
    BY <2>3, <2>4 DEF IInv
<1>6. CASE Start
  BY <1>6, StartInv
<1>7. ASSUME NEW t \in Ticks, Detect(t) \/ Cleanup(t)
      PROVE  IInv'
  BY <1>7, DetectInv, CleanupInv
<1>8. ASSUME NEW t \in Ticks, NEW a \in queue[t], Dispatch(t, a)
      PROVE  IInv'
  <2>1. /\ queue' = [queue EXCEPT ![t] = @ \ {a}]
        /\ bursts' = bursts \/ (a.theft /\ bursts' = bursts \cup {a})
        /\ UNCHANGED <<clock, rows, up, incidents, incidentFile, backoff,
                       backoffFile, busy, crashes, saveFails, corruptions,
                       alerts, rebuilds, notified>>
    BY <1>8 DEF Dispatch, files, env
  <2>2. /\ queue' \in [Ticks -> SUBSET Alert]
        /\ \A q \in Ticks : queue'[q] \subseteq queue[q]
        /\ bursts' \subseteq alerts
    BY <2>1 DEF IInv, TypeOK, Sourced
  <2>3. TypeOK' /\ Dated' /\ Sourced'
    BY <2>1, <2>2 DEF IInv, TypeOK, Dated, Sourced
  <2>4. Sound' /\ Kept' /\ Undamaged' /\ Backed'
    BY <2>1 DEF IInv, Sound, Kept, Undamaged, Backed
  <2> QED
    BY <2>3, <2>4 DEF IInv
<1> QED
  BY <1>1, <1>2, <1>3, <1>4, <1>5, <1>6, <1>7, <1>8 DEF Next

LEMMA Inductive == Spec => []IInv
BY InitInv, StepInv, PTL DEF Spec

-----------------------------------------------------------------------------
(***************************************************************************)
(* What the invariant gives                                                *)
(***************************************************************************)
\* Two bursts of a connector: a recovery between them, or a rebuild that did
\* not see the theft.
LEMMA BurstsApart ==
  ASSUME IInv, saveFails = 0, NEW a \in bursts, NEW b \in bursts,
         a.conn = b.conn, a.at < b.at
  PROVE  \/ OpBetween(a.conn, a.at, b.at)
         \/ \E t \in rebuilds : a.at < t /\ t <= b.at /\ ~ClearlyOpenAt(a.conn, t)
<1>1. a \in alerts /\ b \in alerts /\ Apart(rows, alerts, rebuilds)
  BY DEF IInv, Sourced, Kept
<1>2. \/ \E r \in rows : /\ r.kind = "op" /\ SameConnector(a.conn, r.conn)
                         /\ a.at < r.ts /\ r.ts < b.at
      \/ \E t \in rebuilds : a.at < t /\ t <= b.at /\ ~OpenAt(rows, a.conn, t)
  BY <1>1 DEF Apart
<1> QED
  BY <1>2 DEF OpBetween, SameConnector, OpenAt, ClearlyOpenAt

\* The state of the charger path is well formed, whatever its windows.
THEOREM TypeCorrect == Spec => []TypeOK
BY Inductive, PTL DEF IInv

\* One burst per incident (cable_theft_incidents.json): over overlapping
\* ticks, garbage collection, crashes and restarts no connector bursts twice
\* without an operational status in between, as long as the file is whole.
THEOREM NoReburstHolds == Spec => []NoReburstWhileOpen
<1>1. IInv => NoReburstWhileOpen
  <2> SUFFICES ASSUME IInv, saveFails = 0, corruptions = 0,
                      NEW a \in bursts, NEW b \in bursts, a.conn = b.conn, a # b
               PROVE  OpBetween(a.conn, a.at, b.at) \/ OpBetween(a.conn, b.at, a.at)
    BY DEF NoReburstWhileOpen
  <2>1. rebuilds = {}
    BY DEF IInv, Undamaged
  <2>2. a \in alerts /\ b \in alerts /\ a.at # b.at
    BY DEF IInv, Sourced, Dated
  <2>3. a.at < b.at \/ b.at < a.at
    BY <2>2, Sorts DEF IInv
  <2>4. /\ a.at < b.at => OpBetween(a.conn, a.at, b.at)
        /\ b.at < a.at => OpBetween(b.conn, b.at, a.at)
    BY <2>1, BurstsApart
  <2> QED
    BY <2>3, <2>4
<1> QED
  BY <1>1, Inductive, PTL

\* A damaged state file re-pages nobody about a theft that ocpp.db still shows
\* (reconstructOpenCableTheftIncidents), however often it is damaged.
THEOREM RebuildKeepsSilenceHolds == Spec => []RebuildKeepsSilence
<1>1. IInv => RebuildKeepsSilence
  BY BurstsApart DEF RebuildKeepsSilence
<1> QED
  BY <1>1, Inductive, PTL

\* A connector is silenced only by a theft row it reported, in the memory of
\* the engine as in its file, rebuilt or not.
THEOREM SilenceHasCauseHolds == Spec => []SilenceHasCause
<1>1. IInv => SilenceHasCause
  BY DEF IInv, Sound, Caused, SilenceHasCause
<1> QED
  BY <1>1, Inductive, PTL

\* shouldSendChargerFaultAlert keeps to the window it announced, over restarts
\* and over cleanupChargerFaultBackoff.
THEOREM BackoffHonouredHolds == Spec => []BackoffHonoured
<1>1. IInv => BackoffHonoured
  BY DEF IInv, Backed, BackoffHonoured
<1> QED
  BY <1>1, Inductive, PTL
=============================================================================
