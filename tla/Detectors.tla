------------------------------ MODULE Detectors ------------------------------
(***************************************************************************)
(* What the alert engine says once an hour: the detectors of               *)
(* services/alert-engine.js over the logs of the backend and the freshness *)
(* of the log databases (services/pricing-log-alerts.js for the two about  *)
(* prices), the debounce cache they share, and what becomes of the alerts  *)
(* they return.  The charger-fault detector has its own gates and is in    *)
(* ChargerFaults; how a saved alert is delivered is in AlertDelivery.      *)
(*                                                                         *)
(* All detectors of a tick run between two awaits and are one step.  Their *)
(* alerts are then saved one by one, with a delivery in between that takes *)
(* as long as it takes, while further ticks start.  A subject is what one  *)
(* key of the cache stands for: a detector and a route, station, kind,     *)
(* source, log row or detector.  Rows are what the queries tell apart;     *)
(* parsing, redaction, messages, routes that share a key (one route here)  *)
(* and the LIMITs of the queries are left out.                             *)
(***************************************************************************)
EXTENDS Naturals, Sequences, FiniteSets

CONSTANTS
  Sources,          \* log databases whose freshness is watched: "ocpp", "vercel"
  Routes,           \* backend routes
  LogRoutes,        \* those whose errors are reported from the third on
  Stations,         \* station ids in [ADMISSION-TARIFF-FALLBACK] lines
  PricingKinds,     \* kinds of [MARKET-PRICING-ALERT]
  Chargers,
  QueryWindow,      \* QUERY_WINDOW
  CorrelationWindow,\* CORRELATION_WINDOW
  DebounceWindow,   \* DEBOUNCE_WINDOW
  ForgetAfter,      \* the 24 hours of cleanupDebounceCache
  AlertAge,         \* MAX_ALERT_AGE_MS
  StallAfter,       \* INGEST_STALL_OCPP_MS, INGEST_STALL_VERCEL_MS
  LogErrors,        \* the three errors of getVercel5xxAlertPolicy
  SlowInAll,        \* the five slow requests of detectHighLatency
  SlowOnRoute,      \* and the three on one route
  MaxRows,          \* bound on the rows written
  MaxNow,           \* bound on the clock
  MaxWatched,       \* bound on the detectors that have something to report
  MaxFailures       \* bound on failed reads and writes and restarts

ASSUME DetectorsAssumption ==
  /\ Sources \subseteq {"ocpp", "vercel"} /\ LogRoutes \subseteq Routes
  /\ {QueryWindow, CorrelationWindow, DebounceWindow, ForgetAfter, AlertAge, StallAfter,
      LogErrors, SlowInAll, SlowOnRoute, MaxRows, MaxNow, MaxWatched,
      MaxFailures} \subseteq Nat
  /\ DebounceWindow <= ForgetAfter

VARIABLES
  now,
  watched,   \* the detectors with something to report in this behaviour
  rows,      \* rows of vercel_logs and ocpp_events, in the order they were written
  debounceCache, \* subjects and when they were last let through
  cacheFile, \* alert_engine_debounce.json
  raised,    \* the alerts of all detectors and what became of them
  failures,
  unwritten  \* history: a save of the cache has failed

detectorVars == <<now, watched, rows, debounceCache, cacheFile, raised, failures, unwritten>>

-----------------------------------------------------------------------------
Names == {"detectIngestStalls", "detectVercel5xxErrors", "detectVercelTimeouts",
          "detectHighLatency", "detectAdmissionTariffFallback",
          "detectMarketPricingAlerts", "detectOcppVercelCorrelation"}

\* about: a route, station, kind or charger.  "action" is a failed charge
\* action that names a charger, "fault" an error event of a charger.
RowKinds ==
  [kind : {"error", "timeout", "slow"}, about : Routes]
    \union [kind : {"fallback"}, about : Stations]
    \union [kind : {"pricing"}, about : PricingKinds]
    \union [kind : {"action", "fault"}, about : Chargers]

Ocpp(row) == row.kind = "fault"

\* The detector that reads rows of a kind.
ReaderOf(k) ==
  CASE k = "error" -> "detectVercel5xxErrors"
    [] k = "timeout" -> "detectVercelTimeouts"
    [] k = "slow" -> "detectHighLatency"
    [] k = "fallback" -> "detectAdmissionTariffFallback"
    [] k = "pricing" -> "detectMarketPricingAlerts"
    [] k \in {"action", "fault"} -> "detectOcppVercelCorrelation"
NoEntries == [s \in {} |-> 0]

DetectorInit ==
  /\ now = 0 /\ rows = <<>>
  /\ watched \in {W \in SUBSET Names : Cardinality(W) = MaxWatched}
  /\ debounceCache = NoEntries /\ cacheFile = NoEntries
  /\ raised = {} /\ failures = 0 /\ unwritten = FALSE

Fails == failures < MaxFailures /\ failures' = failures + 1

\* The collector and the drain write a row.
LogWritten(r) ==
  /\ Len(rows) < MaxRows
  /\ \/ ReaderOf(r.kind) \in watched
     \/ "detectIngestStalls" \in watched /\ r.kind \in {"timeout", "fault"}
  /\ rows' = Append(rows, [kind |-> r.kind, about |-> r.about, at |-> now])
  /\ UNCHANGED <<now, watched, debounceCache, cacheFile, raised, failures, unwritten>>

TimePasses ==
  /\ now < MaxNow /\ now' = now + 1
  /\ UNCHANGED <<watched, rows, debounceCache, cacheFile, raised, failures, unwritten>>

-----------------------------------------------------------------------------
(* The detectors. Found(name) is what each has to report: subjects of one  *)
(* alert, and when the newest row of the alert was written.                *)

Recent == {i \in DOMAIN rows : rows[i].at + QueryWindow > now}
Of(kind, about) == {i \in Recent : rows[i].kind = kind /\ rows[i].about = about}
Newest(I) == CHOOSE t \in {rows[i].at : i \in I} : \A i \in I : rows[i].at <= t

Found1(type, key, event) == [subjects |-> {<<type, key>>}, event |-> event]

Ages(source) == {rows[i].at : i \in {j \in DOMAIN rows : Ocpp(rows[j]) <=> source = "ocpp"}}
Stalled(source) == \A t \in Ages(source) : t + StallAfter < now

\* A log whose freshness cannot be read counts as one without rows.
IngestStalls(unread) ==
  {Found1("ingest_stall", s, now) : s \in {s \in Sources : s \in unread \/ Stalled(s)}}

\* The policy is asked before the cache.
Reportable(route) ==
  Cardinality(Of("error", route)) >= IF route \in LogRoutes THEN LogErrors ELSE 1

Vercel5xxErrors == {Found1("vercel_5xx", r, Newest(Of("error", r))) :
                      r \in {r \in Routes : Reportable(r)}}

VercelTimeouts == {Found1("vercel_timeout", r, Newest(Of("timeout", r))) :
                     r \in {r \in Routes : Of("timeout", r) # {}}}

SlowRoutes ==
  IF Cardinality({i \in Recent : rows[i].kind = "slow"}) < SlowInAll THEN {}
  ELSE {r \in Routes : Cardinality(Of("slow", r)) >= SlowOnRoute}

HighLatency == {Found1("vercel_latency", r, Newest(Of("slow", r))) : r \in SlowRoutes}

\* Each station has its own key, and one alert covers all that are let through.
FallbackStations == {s \in Stations : Of("fallback", s) # {}}

MarketPricing == {Found1("market_pricing_alert", k, Newest(Of("pricing", k))) :
                    k \in {k \in PricingKinds : Of("pricing", k) # {}}}

\* A fault and a failed charge action of the same charger around it.
Near(a, b) == a <= b + CorrelationWindow /\ b <= a + CorrelationWindow
Correlated ==
  {i \in Recent : /\ rows[i].kind = "fault"
                  /\ \E j \in DOMAIN rows :
                       /\ rows[j].kind = "action" /\ rows[j].about = rows[i].about
                       /\ Near(rows[i].at, rows[j].at)}
\* The key is the charger and the event's time: two events of one instant share it.
Correlations == {Found1("correlation", <<rows[i].about, rows[i].at>>, rows[i].at) :
                   i \in Correlated}

-----------------------------------------------------------------------------
(* The cache, and the alerts that pass it.                                 *)

Debounced(s) == s \in DOMAIN debounceCache /\ now < debounceCache[s] + DebounceWindow

Passed(found) == {f \in found : \A s \in f.subjects : ~Debounced(s)}

Fallbacks ==
  LET new == {s \in FallbackStations : ~Debounced(<<"fallback", s>>)}
  IN  IF new = {} THEN {}
      ELSE {[subjects |-> {<<"fallback", s>> : s \in new},
             event |-> Newest({i \in Recent : rows[i].kind = "fallback"})]}

LetThroughBy(name, unread) ==
  CASE name = "detectIngestStalls" -> Passed(IngestStalls(unread))
    [] name = "detectVercel5xxErrors" -> Passed(Vercel5xxErrors)
    [] name = "detectVercelTimeouts" -> Passed(VercelTimeouts)
    [] name = "detectHighLatency" -> Passed(HighLatency)
    [] name = "detectAdmissionTariffFallback" -> Fallbacks
    [] name = "detectMarketPricingAlerts" -> Passed(MarketPricing)
    [] name = "detectOcppVercelCorrelation" -> Passed(Correlations)

Reported(name, unread) == IF name \in watched THEN LetThroughBy(name, unread) ELSE {}

SubjectsOf(found) == UNION {f.subjects : f \in found}

\* Defect: the cache is asked before the slow requests of a route are counted.
QueriedUncounted(found) ==
  SubjectsOf(found) \union {<<"vercel_latency", r>> : r \in {r \in Routes :
                              Of("slow", r) # {} /\ ~Debounced(<<"vercel_latency", r>>)}}

\* The subjects the cache is asked for and lets through: every threshold and
\* policy comes first.
Queried(found) == SubjectsOf(found)

Alerts(found, fate) == {[subjects |-> f.subjects, at |-> now, event |-> f.event,
                         fate |-> fate] : f \in found}

\* shouldSendAlert saves the cache each time it lets a subject through.
CacheSaved(cache) == debounceCache' = cache /\ cacheFile' = cache /\ UNCHANGED unwritten

Remember(cache) ==
  \/ CacheSaved(cache) /\ UNCHANGED failures
  \/ /\ cache # debounceCache /\ debounceCache' = cache
     /\ Fails /\ unwritten' = TRUE /\ UNCHANGED cacheFile

LetThrough(subjects) ==
  [s \in subjects \union DOMAIN debounceCache |->
     IF s \in subjects THEN now ELSE debounceCache[s]]

\* runDetection: the detectors, one after the other, without an await.
RunDetectors(unread) ==
  LET found == UNION {Reported(n, unread) : n \in watched}
  IN  /\ Queried(found) # {}
      /\ \/ unread = {} /\ Remember(LetThrough(Queried(found)))
         \/ /\ unread # {} /\ "detectIngestStalls" \in watched
            /\ Fails /\ CacheSaved(LetThrough(Queried(found)))
      /\ raised' = raised \union Alerts(found, "queued")
      /\ UNCHANGED <<now, watched, rows>>

\* The error alert of a detector that threw, if it was not reported lately.
ErrorOf(name) == Passed({Found1("engine_detector_error", name, now)})

\* Those that go on after asking the cache: to read the evidence, to write the text.
AskBeforeTheEnd ==
  {"detectOcppVercelCorrelation", "detectAdmissionTariffFallback", "detectMarketPricingAlerts"}

\* One of them throws: what it has let through by then is silenced all the same.
DetectorThrows(name, gone) ==
  LET others == (UNION {Reported(n, {}) : n \in watched \ {name}}) \union ErrorOf(name)
  IN  /\ name # "detectIngestStalls" /\ Fails
      /\ gone \subseteq IF name \in AskBeforeTheEnd THEN Reported(name, {}) ELSE {}
      /\ CacheSaved(LetThrough(SubjectsOf(others \union gone)))
      /\ raised' = raised \union Alerts(others, "queued") \union Alerts(gone, "lost")
      /\ UNCHANGED <<now, watched, rows>>

-----------------------------------------------------------------------------
(* The alerts of a tick, one at a time.                                    *)

Becomes(a, fate) == raised' = (raised \ {a}) \union {[a EXCEPT !.fate = fate]}

\* saveAlert; a failed INSERT is logged and the alert is given up.
SaveFound(a) ==
  /\ a.fate = "queued" /\ now <= a.event + AlertAge
  /\ \/ Becomes(a, "saved") /\ UNCHANGED failures
     \/ Fails /\ Becomes(a, "lost")
  /\ UNCHANGED <<now, watched, rows, debounceCache, cacheFile, unwritten>>

\* Its turn comes too late.
DropFound(a) ==
  /\ a.fate = "queued" /\ now > a.event + AlertAge
  /\ Becomes(a, "stale")
  /\ UNCHANGED <<now, watched, rows, debounceCache, cacheFile, failures, unwritten>>

\* The end of a tick.
CleanupDebounce ==
  LET kept == {s \in DOMAIN debounceCache : now <= debounceCache[s] + ForgetAfter}
  IN  /\ kept # DOMAIN debounceCache
      /\ Remember([s \in kept |-> debounceCache[s]])
      /\ UNCHANGED <<now, watched, rows, raised>>

\* Defect: the cache is not read back.
ReloadedEmpty == NoEntries

\* loadDebounceCache
Reloaded == cacheFile

DetectorRestart ==
  /\ Fails
  /\ debounceCache' = Reloaded
  /\ raised' = {IF a.fate = "queued" THEN [a EXCEPT !.fate = "lost"] ELSE a : a \in raised}
  /\ UNCHANGED <<now, watched, rows, cacheFile, unwritten>>

-----------------------------------------------------------------------------
DetectorNext ==
  \/ \E r \in RowKinds : LogWritten(r)
  \/ TimePasses \/ CleanupDebounce \/ DetectorRestart
  \/ \E unread \in SUBSET Sources : RunDetectors(unread)
  \/ \E n \in watched : \E gone \in SUBSET Reported(n, {}) : DetectorThrows(n, gone)
  \/ \E a \in raised : SaveFound(a) \/ DropFound(a)

DetectorSpec == DetectorInit /\ [][DetectorNext]_detectorVars

-----------------------------------------------------------------------------
Subjects == {"ingest_stall", "vercel_5xx", "vercel_timeout", "vercel_latency", "fallback",
             "market_pricing_alert", "correlation", "engine_detector_error"}

DetectorTypeOK ==
  /\ now \in 0..MaxNow /\ failures \in 0..MaxFailures /\ unwritten \in BOOLEAN
  /\ \A i \in DOMAIN rows : rows[i].at \in 0..now
  /\ \A s \in DOMAIN debounceCache : s[1] \in Subjects /\ debounceCache[s] \in 0..now
  /\ DOMAIN cacheFile = DOMAIN debounceCache \/ unwritten
  /\ \A a \in raised : a.at \in 0..now /\ a.event <= a.at
                         /\ a.fate \in {"queued", "saved", "stale", "lost"}

\* Nothing is kept quiet but by an alert about it: while a subject is
\* debounced, an alert that names it was returned when it was let through,
\* and waits its turn, was saved, or came too late to be news, unless a read,
\* a write or the process failed.
SilencedByAnAlert ==
  \A s \in DOMAIN debounceCache :
    Debounced(s) =>
      \E a \in raised : /\ s \in a.subjects /\ a.at = debounceCache[s]
                        /\ failures > 0 \/ a.fate \in {"queued", "saved", "stale"}

\* One alert about a subject per hour, whatever ticks overlap and however
\* often the engine restarts, as long as the cache could be written.
AlertedOncePerWindow ==
  ~unwritten => \A a, b \in raised :
    a # b /\ a.subjects \intersect b.subjects # {} =>
      a.at + DebounceWindow <= b.at \/ b.at + DebounceWindow <= a.at
=============================================================================
