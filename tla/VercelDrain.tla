---------------------------- MODULE VercelDrain ----------------------------
(* The receiver of Vercel's log drain (src/services/vercel-drain.js).        *)
(*                                                                           *)
(* Vercel posts batches of log entries and posts a batch again until it gets *)
(* a 200.  The handler parses the payload, drops the noise and writes the    *)
(* rest in one SQLite transaction: a row of vercel_logs per entry, and the   *)
(* aggregate counters of the entry's request in vercel_requests.  A locked   *)
(* database rolls the transaction back and is answered 503.                  *)
(*                                                                           *)
(* An entry is its kind: an "event" carries the id the unique index          *)
(* deduplicates by, an "anonymous" entry does not, an "undated" one has a    *)
(* timestamp that is no date, "noise" is what shouldFilterOut drops and what *)
(* does not parse.  Every entry that counts is of level error and has a      *)
(* request id; counted[e] is e's share of its request's error_count.         *)
(* Endpoints, durations and bodies are left out.                             *)
EXTENDS Naturals, FiniteSets

CONSTANTS Batches,     \* the payloads Vercel has to deliver
          Entries,     \* the log entries in them
          MaxPosts     \* bound: times Vercel posts one batch

ASSUME DrainAssumption == MaxPosts \in Nat

VARIABLES kind,       \* kind[e] of an entry
          content,    \* content[b], the entries of a batch
          logs,       \* logs[e], the rows of vercel_logs holding e
          counted,    \* counted[e], times e was added to its request's error_count
          wire,       \* wire[b]: what Vercel knows of b, or what is under way
          posts       \* posts[b], times b was posted

drainVars == <<kind, content, logs, counted, wire, posts>>

EntryKinds == {"event", "anonymous", "undated", "noise"}

(* "waiting": to be posted (again); "posted": the request is under way;      *)
(* "ok" and "retry": the service's 200 or 503 is under way; "done": Vercel   *)
(* has the 200.                                                              *)
Wires == {"waiting", "posted", "ok", "retry", "done"}

(* The entries of a batch that parseVercelLog keeps.                         *)
Recordable(b) == {e \in content[b] : kind[e] # "noise"}

DrainInit ==
  /\ kind \in [Entries -> EntryKinds]
  /\ content \in [Batches -> SUBSET Entries]
  /\ logs = [e \in Entries |-> 0]
  /\ counted = [e \in Entries |-> 0]
  /\ wire = [b \in Batches |-> "waiting"]
  /\ posts = [b \in Batches |-> 0]

Post(b) ==
  /\ wire[b] = "waiting" /\ posts[b] < MaxPosts
  /\ wire' = [wire EXCEPT ![b] = "posted"]
  /\ posts' = [posts EXCEPT ![b] = @ + 1]
  /\ UNCHANGED <<kind, content, logs, counted>>

(* The rows once the entries of S were run through the insert: the unique    *)
(* index on event_id makes a second insert of an event a no-op, and a row    *)
(* without a timestamp, which must not be null, is ignored in silence.       *)
LogsWith(S) ==
  [e \in Entries |-> IF e \notin S \/ kind[e] = "undated" THEN logs[e]
                     ELSE IF kind[e] = "event" THEN 1
                     ELSE logs[e] + 1]

(* The counters once the entries of S were run through the upsert, which     *)
(* does not ask whether the insert before it was ignored.                    *)
CountedWith(S) == [e \in Entries |-> IF e \in S THEN counted[e] + 1 ELSE counted[e]]

(* The whole payload in one transaction, answered 200.                       *)
Stored(b) ==
  /\ logs' = LogsWith(Recordable(b))
  /\ counted' = CountedWith(Recordable(b))
  /\ wire' = [wire EXCEPT ![b] = "ok"]

(* Defect: a database failure is logged and answered 200.                    *)
RefusedSwallowed(b) ==
  /\ Recordable(b) # {}
  /\ wire' = [wire EXCEPT ![b] = "ok"]
  /\ UNCHANGED <<logs, counted>>

(* A locked database: nothing is written and Vercel is told to retry.  A     *)
(* payload of noise alone opens no transaction and cannot fail.              *)
Refused(b) ==
  /\ Recordable(b) # {}
  /\ wire' = [wire EXCEPT ![b] = "retry"]
  /\ UNCHANGED <<logs, counted>>

HandleRequest(b) ==
  /\ wire[b] = "posted"
  /\ Stored(b) \/ Refused(b)
  /\ UNCHANGED <<kind, content, posts>>

(* The response reaches Vercel, or the connection dies first.                *)
ResponseArrives(b) ==
  /\ \/ wire[b] = "ok" /\ wire' = [wire EXCEPT ![b] = "done"]
     \/ wire[b] \in {"posted", "ok", "retry"} /\ wire' = [wire EXCEPT ![b] = "waiting"]
  /\ UNCHANGED <<kind, content, logs, counted, posts>>

DrainStep == \E b \in Batches : Post(b) \/ HandleRequest(b) \/ ResponseArrives(b)

(* The service dies: every request under way is lost, the tables stay.       *)
DrainRestart ==
  /\ wire' = [b \in Batches |-> IF wire[b] = "done" THEN "done" ELSE "waiting"]
  /\ UNCHANGED <<kind, content, logs, counted, posts>>

DrainSpec == DrainInit /\ [][DrainStep \/ DrainRestart]_drainVars

-----------------------------------------------------------------------------

DrainTypeOK ==
  /\ kind \in [Entries -> EntryKinds]
  /\ content \in [Batches -> SUBSET Entries]
  /\ logs \in [Entries -> Nat]
  /\ counted \in [Entries -> Nat]
  /\ wire \in [Batches -> Wires]
  /\ posts \in [Batches -> 0..MaxPosts]

(* Every entry worth keeping of a batch that Vercel will not post again is   *)
(* in the table, but for those whose timestamp could not be read: they are   *)
(* counted in their request and nowhere else.                                *)
Traced(e) == IF kind[e] = "undated" THEN counted[e] > 0 ELSE logs[e] > 0

AckedIsStored ==
  \A b \in Batches : wire[b] = "done" => \A e \in Recordable(b) : Traced(e)

(* No attempt counts for a part of its payload: two entries that travel in   *)
(* the same batches have been counted as often, however many attempts were   *)
(* refused, lost or repeated.                                                *)
CountedTogether ==
  \A e, f \in Entries :
     (\A b \in Batches : e \in Recordable(b) <=> f \in Recordable(b))
        => counted[e] = counted[f]
=============================================================================
