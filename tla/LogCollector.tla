---------------------------- MODULE LogCollector ----------------------------
(***************************************************************************)
(* The OCPP log collector: services/smart-collector.js. Log entries arrive *)
(* over a web socket; when no entry has come for thirty seconds the        *)
(* collector polls the REST history as well. What it processes goes to two *)
(* buffers in memory, one for the raw rows and one for the events, and a   *)
(* timer writes both to SQLite.                                            *)
(*                                                                         *)
(* Entries are numbered in the order of their timestamps. Time is          *)
(* abstracted to what it decides: the silence that starts the polling and  *)
(* the expiry of the keys of entries seen. Left out: the parsing of the    *)
(* texts and the state tracker fed by it, the events_buffer.json file and  *)
(* the deletion of old rows; two entries with the same timestamp and the   *)
(* same first 80 characters are one entry here, as they are to the keys.   *)
(***************************************************************************)
EXTENDS Naturals

CONSTANTS
  MaxLogged,    \* bound on the entries the server logs
  PollLimit,    \* REST_POLL_LIMIT
  EventEntries, \* those that are also saved as events (no noise, not throttled)
  Polls,        \* requests to the history that may be in flight at a time
  MaxSeen       \* bound on the times one entry is processed

LogEntries == 1..MaxLogged

ASSUME LogAssumption == /\ MaxLogged \in Nat
                        /\ EventEntries \subseteq LogEntries
                        /\ {PollLimit, MaxSeen} \subseteq Nat \ {0}

VARIABLES
  logged,     \* number of entries the server has logged
  socket,     \* whether the web socket is open, the last entry it delivered
  quiet,      \* lastWsMessageAt is thirty seconds ago or more
  checking,   \* the health check runs (it starts with the first open)
  polling,    \* restPollStarted
  cursor,     \* lastRestCursorIso, as the first entry to ask for
  request,    \* Polls -> the first entry asked for, 0 if not in flight
  answer,     \* Polls -> the entries the server has answered with
  known,      \* recentEntryKeys
  buffer,     \* rawDbBuffer and dbBuffer: how often each entry is in them
  table,      \* ocpp_raw and ocpp_events: how often each entry is in them
  seen        \* how often each was put into a buffer since, or is in a table
              \* from before, the process started (history)

logVars == <<logged, socket, quiet, checking, polling, cursor, request, answer,
             known, buffer, table, seen>>
sources == <<logged, socket, quiet, checking, polling, cursor, request, answer, known>>

Tables == {"raw", "event"}
Empty == [k \in Tables |-> [e \in LogEntries |-> 0]]

\* No cursor: the last two minutes are asked for.
NoCursor == 1

LogInit ==
  /\ logged = 0
  /\ socket = [open |-> FALSE, at |-> 0]
  /\ quiet = TRUE /\ checking = FALSE /\ polling = FALSE
  /\ cursor = NoCursor
  /\ request = [p \in Polls |-> 0] /\ answer = [p \in Polls |-> {}]
  /\ known = {}
  /\ buffer = Empty /\ table = Empty
  /\ seen = Empty

-----------------------------------------------------------------------------
KindsOf(e) == IF e \in EventEntries THEN Tables ELSE {"raw"}

Counted(counts, S) ==
  [k \in Tables |-> [e \in LogEntries |->
     IF e \in S /\ k \in KindsOf(e) THEN counts[k][e] + 1 ELSE counts[k][e]]]

\* processEntry, of every entry of a set.
Processed(S) ==
  /\ \A e \in S : seen["raw"][e] < MaxSeen
  /\ seen' = Counted(seen, S)
  /\ buffer' = Counted(buffer, S)
  /\ UNCHANGED table

Logs ==
  /\ logged + 1 \in LogEntries
  /\ logged' = logged + 1
  /\ UNCHANGED <<socket, quiet, checking, polling, cursor, request, answer, known,
                 buffer, table, seen>>

(***************************************************************************)
(* The web socket. What is logged while it is closed it never delivers,    *)
(* and the server's stream may skip entries.                               *)
(***************************************************************************)

SocketOpens ==
  /\ ~socket.open
  /\ socket' = [open |-> TRUE, at |-> logged]
  /\ checking' = TRUE
  /\ UNCHANGED <<logged, quiet, polling, cursor, request, answer, known, buffer, table,
                 seen>>

SocketCloses ==
  /\ socket.open
  /\ socket' = [socket EXCEPT !.open = FALSE]
  /\ UNCHANGED <<logged, quiet, checking, polling, cursor, request, answer, known,
                 buffer, table, seen>>

\* An entry is processed whether its key was known or not; polling stops,
\* a request in flight does not.
SocketDelivers(e) ==
  /\ socket.open /\ e \in (socket.at + 1)..logged
  /\ socket' = [socket EXCEPT !.at = e]
  /\ quiet' = FALSE /\ polling' = FALSE
  /\ known' = known \union {e}
  /\ Processed({e})
  /\ UNCHANGED <<logged, checking, cursor, request, answer>>

(***************************************************************************)
(* The fallback.                                                           *)
(***************************************************************************)

RequestSent(p) ==
  /\ request[p] = 0
  /\ request' = [request EXCEPT ![p] = cursor]

\* The health check starts the polling, the interval goes on with it: a new
\* request does not wait for the one before.
PollStarts(p) ==
  /\ \/ polling
     \/ checking /\ quiet
  /\ polling' = TRUE
  /\ RequestSent(p)
  /\ UNCHANGED <<logged, socket, quiet, checking, cursor, answer, known, buffer, table,
                 seen>>

\* The server reads what it has from there on, as many as were asked for.
Served(p) ==
  /\ request[p] # 0 /\ answer[p] = {}
  /\ \E to \in request[p]..logged :
       answer' = [answer EXCEPT ![p] = {e \in request[p]..to : to < e + PollLimit}]
  /\ UNCHANGED <<logged, socket, quiet, checking, polling, cursor, request, known,
                 buffer, table, seen>>

PollOver(p) ==
  /\ request[p] # 0
  /\ request' = [request EXCEPT ![p] = 0] /\ answer' = [answer EXCEPT ![p] = {}]
  /\ UNCHANGED <<logged, socket, quiet, checking, polling>>

\* The cursor goes where this answer ends, even if another poll has left it further on.
PollAnswered(p) ==
  /\ PollOver(p) /\ answer[p] # {}
  /\ Processed(answer[p] \ known)
  /\ known' = known \union answer[p]
  /\ \E last \in answer[p] : cursor' = last + 1 /\ \A e \in answer[p] : e <= last

\* Nothing new, or no answer.
PollFails(p) == PollOver(p) /\ UNCHANGED <<cursor, known, buffer, table, seen>>

\* Time passes: no entry for thirty seconds, or the keys of some have expired.
FallsQuiet ==
  /\ ~quiet /\ quiet' = TRUE
  /\ UNCHANGED <<logged, socket, checking, polling, cursor, request, answer, known,
                 buffer, table, seen>>

KeyExpires ==
  /\ \E e \in known : known' = known \ {e}
  /\ UNCHANGED <<logged, socket, quiet, checking, polling, cursor, request, answer,
                 buffer, table, seen>>

(***************************************************************************)
(* flushDbBuffer: two transactions, each clearing its own buffer.          *)
(***************************************************************************)

Sum(rows, more) == [e \in LogEntries |-> rows[e] + more[e]]

\* The kinds of rows written when the transaction of the given kind throws.
WrittenBefore(failing) ==
  CASE failing = "none"  -> Tables
    [] failing = "event" -> {"raw"}
    [] failing = "raw"   -> {}

\* Defect: the buffers are cleared only when both transactions are over.
ClearedAtEnd(failing) == IF failing = "none" THEN Tables ELSE {}

Cleared(failing) == WrittenBefore(failing)

Flush(failing) ==
  /\ buffer # Empty
  /\ table' = [k \in Tables |-> IF k \in WrittenBefore(failing)
                               THEN Sum(table[k], buffer[k]) ELSE table[k]]
  /\ buffer' = [k \in Tables |-> IF k \in Cleared(failing)
                                THEN Empty[k] ELSE buffer[k]]
  /\ UNCHANGED <<sources, seen>>

\* The process starts again with nothing but the tables.
StartsAgain ==
  /\ socket' = [open |-> FALSE, at |-> 0]
  /\ quiet' = TRUE /\ checking' = FALSE /\ polling' = FALSE
  /\ cursor' = NoCursor
  /\ request' = [p \in Polls |-> 0] /\ answer' = [p \in Polls |-> {}]
  /\ known' = {}
  /\ buffer' = Empty
  /\ seen' = table'
  /\ UNCHANGED logged

\* A signal flushes the buffers once more; killed, they are lost.
Stopped(failing) ==
  /\ table' = [k \in Tables |-> IF k \in WrittenBefore(failing)
                               THEN Sum(table[k], buffer[k]) ELSE table[k]]
  /\ StartsAgain

CollectorKilled == UNCHANGED table /\ StartsAgain

-----------------------------------------------------------------------------
Failures == {"none", "raw", "event"}

LogStep ==
  \/ Logs \/ SocketOpens \/ SocketCloses
  \/ \E e \in LogEntries : SocketDelivers(e)
  \/ \E p \in Polls : PollStarts(p) \/ Served(p) \/ PollAnswered(p) \/ PollFails(p)
  \/ FallsQuiet \/ KeyExpires
  \/ \E failing \in Failures : Flush(failing)

LogRestart == CollectorKilled \/ \E failing \in Failures : Stopped(failing)

LogSpec == LogInit /\ [][LogStep \/ LogRestart]_logVars

-----------------------------------------------------------------------------
LogTypeOK ==
  /\ logged \in LogEntries \union {0}
  /\ socket \in [open : BOOLEAN, at : LogEntries \union {0}]
  /\ quiet \in BOOLEAN /\ checking \in BOOLEAN /\ polling \in BOOLEAN
  /\ cursor \in 1..(MaxLogged + 1)
  /\ request \in [Polls -> 0..(MaxLogged + 1)]
  /\ answer \in [Polls -> SUBSET LogEntries]
  /\ known \in SUBSET LogEntries
  /\ {buffer, table, seen} \subseteq [Tables -> [LogEntries -> 0..MaxSeen]]

\* However often a transaction of the flush throws, a processed entry stays in
\* exactly one place: in the buffer it was put in, or, written once, in its
\* table.
StoredAsProcessed ==
  \A k \in Tables, e \in LogEntries : table[k][e] + buffer[k][e] = seen[k][e]
=============================================================================
