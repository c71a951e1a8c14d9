--------------------------- MODULE HeatmapQueries ---------------------------
(***************************************************************************)
(* The demand map of mobile telemetry (src/services/mobile-telemetry,      *)
(* routes/heatmap-data.js and lib/heatmap-query-*.js): a cache that lets   *)
(* equal requests share one query, a runner that keeps one worker thread   *)
(* and a deadline per query, and the worker, which answers one query after *)
(* the other.                                                              *)
(*                                                                         *)
(* Requests with the same tenant, period and exclusions have one key; what *)
(* a query computes is left out.  A turn of the event loop is one action:  *)
(* between a result and the clean-up after it nothing but promise          *)
(* reactions run.                                                          *)
(***************************************************************************)
EXTENDS Naturals, Sequences

CONSTANTS
  Requests,       \* requests of the dashboard
  Keys,           \* what buildHeatmapCacheKey tells apart
  CacheTtl,       \* DEFAULT_HEATMAP_CACHE_TTL_MS
  CacheEntries,   \* DEFAULT_HEATMAP_CACHE_MAX_ENTRIES
  Deadline,       \* DEFAULT_TIMEOUT_MS of the runner
  MaxSec,         \* bound: time
  MaxDeaths       \* bound: failures of a worker thread

ASSUME HeatmapAssumption ==
  /\ CacheTtl \in Nat \ {0} /\ CacheEntries \in Nat \ {0} /\ Deadline \in Nat \ {0}
  /\ MaxSec \in Nat /\ MaxDeaths \in Nat

VARIABLES
  sec,       \* the clock
  keyOf,     \* keyOf[r]
  req,       \* req[r]: new, waiting for query id, answered or failed
  cache,     \* the Map of results, in order of insertion
  inflight,  \* inflight[k], the query under way for k, or 0
  runner,    \* this.worker (0 is null), the workers started, this.nextId
  pending,   \* this.pending, with the time each timer fires
  thread,    \* whether the worker thread lives, and the queries posted to it
  said,      \* events of worker threads the main thread has not handled yet
  deaths

heatmapVars == <<sec, keyOf, req, cache, inflight, runner, pending, thread, said, deaths>>

-----------------------------------------------------------------------------
New == [pc |-> "new", id |-> 0]
NoThread == [lives |-> FALSE, asked |-> <<>>]

NoWorker == [worker |-> 0, started |-> 0, nextId |-> 1]
NoneInFlight == [k \in Keys |-> 0]

HeatmapInit ==
  /\ sec = 0 /\ deaths = 0
  /\ keyOf \in [Requests -> Keys]
  /\ req = [r \in Requests |-> New]
  /\ cache = <<>> /\ inflight = NoneInFlight
  /\ runner = NoWorker /\ pending = {} /\ thread = NoThread /\ said = <<>>

\* The entry of k that is still good.
Unexpired(k) == {i \in 1..Len(cache) : cache[i].key = k /\ cache[i].expires > sec}

\* The cache without an expired entry of k.
Without(k) == SelectSeq(cache, LAMBDA e : e.key # k)

\* A new result: what has expired goes, then the oldest until there is room.
Stored(k) ==
  LET kept == SelectSeq(cache, LAMBDA e : e.expires > sec)
      over == IF Len(kept) < CacheEntries THEN 0 ELSE Len(kept) - CacheEntries + 1
  IN  Append(SubSeq(kept, over + 1, Len(kept)),
             [key |-> k, expires |-> sec + CacheTtl])

-----------------------------------------------------------------------------
\* A request is served from the cache.
Hit(r) ==
  /\ req[r].pc = "new" /\ Unexpired(keyOf[r]) # {}
  /\ req' = [req EXCEPT ![r].pc = "answered"]
  /\ UNCHANGED <<sec, keyOf, cache, inflight, runner, pending, thread, said, deaths>>

Waits(r, id) == req' = [req EXCEPT ![r] = [pc |-> "waiting", id |-> id]]

\* It joins the query under way for its key.
Coalesce(r) ==
  /\ req[r].pc = "new" /\ Unexpired(keyOf[r]) = {} /\ inflight[keyOf[r]] # 0
  /\ cache' = Without(keyOf[r])
  /\ Waits(r, inflight[keyOf[r]])
  /\ UNCHANGED <<sec, keyOf, inflight, runner, pending, thread, said, deaths>>

\* The runner with a worker, started if there is none, and query id given out.
Employed ==
  LET next == IF runner.worker = 0 THEN runner.started + 1 ELSE runner.worker
  IN  [worker |-> next, started |-> next, nextId |-> runner.nextId + 1]

\* A query is posted to the worker.  What is posted to a thread that has died
\* is lost.
Posted(ask) ==
  IF runner.worker = 0 THEN [lives |-> TRUE, asked |-> <<ask>>]
  ELSE IF thread.lives THEN [thread EXCEPT !.asked = Append(@, ask)]
  ELSE thread

\* Or it starts one, early enough for its deadline to pass within the bound.
Miss(r) ==
  LET k == keyOf[r]
      id == runner.nextId
  IN  /\ req[r].pc = "new" /\ Unexpired(k) = {} /\ inflight[k] = 0
      /\ sec + Deadline <= MaxSec
      /\ cache' = Without(k)
      /\ Waits(r, id)
      /\ inflight' = [inflight EXCEPT ![k] = id]
      /\ runner' = Employed
      /\ pending' = pending \cup {[id |-> id, key |-> k, due |-> sec + Deadline]}
      /\ thread' = Posted([id |-> id, key |-> k])
      /\ UNCHANGED <<sec, keyOf, said, deaths>>

\* The waiting requests of the queries in P end, and these are no longer under
\* way.
SettleQueries(P, how) ==
  LET ids == {p.id : p \in P}
  IN  /\ req' = [r \in Requests |->
                   IF req[r].pc = "waiting" /\ req[r].id \in ids
                   THEN [pc |-> how, id |-> 0] ELSE req[r]]
      /\ inflight' = [k \in Keys |-> IF inflight[k] \in ids THEN 0 ELSE inflight[k]]
      /\ pending' = pending \ P

\* Defect: the worker is dropped with the list of what was asked of it.
FailWorkerSilently(rest) ==
  /\ pending' = {} /\ UNCHANGED <<req, inflight>>
  /\ runner' = [runner EXCEPT !.worker = 0]
  /\ thread' = NoThread
  /\ said' = rest

\* failWorker: every query of the worker fails, and the thread is told to end,
\* which it reports like any other end.
FailWorker(rest) ==
  /\ SettleQueries(pending, "failed")
  /\ runner' = [runner EXCEPT !.worker = 0]
  /\ thread' = NoThread
  /\ said' = IF thread.lives THEN Append(rest, [kind |-> "gone", by |-> runner.worker])
             ELSE rest

-----------------------------------------------------------------------------
\* The worker thread runs the next query, or fails at it.
Execute ==
  /\ thread.lives /\ thread.asked # <<>>
  /\ thread' = [thread EXCEPT !.asked = Tail(@)]
  /\ \E kind \in {"result", "failed"} :
       said' = Append(said, [kind |-> kind, by |-> runner.worker, id |-> Head(thread.asked).id,
                             key |-> Head(thread.asked).key])
  /\ UNCHANGED <<sec, keyOf, req, cache, inflight, runner, pending, deaths>>

\* It dies: an error, and then its exit.
ThreadDies ==
  /\ thread.lives /\ deaths < MaxDeaths
  /\ deaths' = deaths + 1
  /\ thread' = NoThread
  /\ LET gone == [kind |-> "gone", by |-> runner.worker]
     IN  said' = said \o <<gone, gone>>
  /\ UNCHANGED <<sec, keyOf, req, cache, inflight, runner, pending>>

\* The main thread handles an event; one of a worker it no longer has is none
\* of its business.
HandleEvent ==
  /\ said # <<>>
  /\ LET e == Head(said)
         mine == {p \in pending : e.kind # "gone" /\ p.id = e.id}
     IN  \/ /\ e.by = runner.worker /\ e.kind = "gone"
            /\ FailWorker(Tail(said))
            /\ UNCHANGED cache
         \/ /\ e.by = runner.worker /\ e.kind = "result" /\ mine # {}
            /\ cache' = Stored(e.key)
            /\ SettleQueries(mine, "answered")
            /\ said' = Tail(said) /\ UNCHANGED <<runner, thread>>
         \/ /\ e.by = runner.worker /\ e.kind = "failed" /\ mine # {}
            /\ SettleQueries(mine, "failed")
            /\ said' = Tail(said) /\ UNCHANGED <<cache, runner, thread>>
         \/ /\ e.by # runner.worker \/ (e.kind # "gone" /\ mine = {})
            /\ said' = Tail(said)
            /\ UNCHANGED <<req, cache, inflight, runner, pending, thread>>
  /\ UNCHANGED <<sec, keyOf, deaths>>

\* A query's timer fires and takes the worker with it.
DeadlinePasses ==
  /\ \E p \in pending : p.due <= sec
  /\ FailWorker(said)
  /\ UNCHANGED <<sec, keyOf, cache, deaths>>

\* A timer that is due fires before more time passes.
HeatmapClock ==
  /\ sec < MaxSec /\ \A p \in pending : p.due > sec
  /\ sec' = sec + 1
  /\ UNCHANGED <<keyOf, req, cache, inflight, runner, pending, thread, said, deaths>>

HeatmapStep ==
  \/ \E r \in Requests : Hit(r) \/ Coalesce(r) \/ Miss(r)
  \/ Execute \/ ThreadDies \/ HandleEvent \/ DeadlinePasses \/ HeatmapClock

\* The process ends, and with it every connection.
HeatmapRestart ==
  /\ cache' = <<>> /\ inflight' = NoneInFlight
  /\ runner' = NoWorker /\ pending' = {} /\ thread' = NoThread /\ said' = <<>>
  /\ req' = [r \in Requests |-> IF req[r].pc = "waiting" THEN [pc |-> "failed", id |-> 0]
                              ELSE req[r]]
  /\ UNCHANGED <<sec, keyOf, deaths>>

-----------------------------------------------------------------------------
HeatmapTypeOK ==
  /\ sec \in 0..MaxSec /\ deaths \in 0..MaxDeaths
  /\ keyOf \in [Requests -> Keys]
  /\ req \in [Requests -> [pc : {"new", "waiting", "answered", "failed"}, id : Nat]]
  /\ cache \in Seq([key : Keys, expires : Nat]) /\ Len(cache) <= CacheEntries
  /\ inflight \in [Keys -> Nat]
  /\ runner \in [worker : Nat, started : Nat, nextId : Nat \ {0}]
  /\ pending \in SUBSET [id : Nat, key : Keys, due : Nat]
  /\ thread.lives \in BOOLEAN /\ thread.asked \in Seq([id : Nat, key : Keys])

\* A request is answered or refused, whatever becomes of the worker thread, of
\* the query it joined and of the key it asked for: no caller is forgotten when a
\* worker is replaced, and no key is blocked by a query nobody works on
\* (README.md: "terminates and recreates a stuck worker").
QueryEnds == \A r \in Requests : req[r].pc = "waiting" ~> req[r].pc # "waiting"
=============================================================================
