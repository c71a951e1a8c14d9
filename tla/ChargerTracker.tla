--------------------------- MODULE ChargerTracker ---------------------------
(***************************************************************************)
(* What the OCPP collector believes of each charger: the StateTracker of   *)
(* services/state-tracker.js, fed by processEntry, analyzeMessage and      *)
(* updateTrackerState of services/smart-collector.js.                      *)
(*                                                                         *)
(* An entry of the log is processed without an await and ends with both    *)
(* files written, history/chargers.json and then transactions.json, so     *)
(* that memory and files agree between entries; a process that dies while  *)
(* it writes leaves the first file of the new state, or nothing readable,  *)
(* beside the second of the old one.  Entries come late and more than once *)
(* (LogCollector), with the time they were logged.  A charger with two     *)
(* connectors has two transactions.  Left out: the texts, the lists of     *)
(* ended transactions, which nothing reads, the alert candidates, which    *)
(* are only logged, and a write that fails while the process goes on.      *)
(* Charging counts as Available, and what is neither nor Faulted as        *)
(* Unknown: the conditions tell them apart no further.                     *)
(***************************************************************************)
EXTENDS Naturals

CONSTANTS
  TrackedChargers,
  MaxTransaction,  \* bound on the transactions; their ids are numbers
  SignOfLife,      \* the two minutes of checkChargerHealth
  SilenceLimit,    \* the five of a heartbeat time-out
  RecoveryCooldown,\* RECOVERY_COOLDOWN_MS
  ZeroPowerLimit,  \* the two of a stuck transaction
  ErrorLimit,      \* three consecutive errors; counts are not told apart beyond
  PlaceholderLimit,\* errors about transaction -1 that are ignored
  MaxLate,         \* bound on how late an entry with a time comes
  MaxMinute        \* bound on the clock

ASSUME TrackerAssumption ==
  {MaxTransaction, SignOfLife, SilenceLimit, RecoveryCooldown, ZeroPowerLimit, ErrorLimit,
   PlaceholderLimit, MaxLate, MaxMinute} \subseteq Nat

Transactions == 1..MaxTransaction
NoTransaction == 0

VARIABLES
  minute,        \* the clock, from 1 on: 0 stands for "never"
  tracked,       \* chargers.json
  transactions,  \* transactions.active: who charges, and since when at 0 W
  placeholder,   \* transaction1ErrorCount
  torn           \* history: the process died while it wrote the files

trackerVars == <<minute, tracked, transactions, placeholder, torn>>

-----------------------------------------------------------------------------
TrackedStatuses == {"Unknown", "Available", "Faulted"}
Unseen == [status |-> "Unknown", lastHeartbeat |-> 0, lastMeterValue |-> 0,
           activeTransaction |-> NoTransaction, consecutiveErrors |-> 0,
           needsRestart |-> FALSE, lastRecoveryAt |-> 0]
NoneTracked == [c \in TrackedChargers |-> Unseen]
NoTransactions == [t \in {} |-> 0]
NoneCounted == [c \in TrackedChargers |-> 0]

TrackerInit ==
  /\ minute = 1 /\ tracked = NoneTracked /\ transactions = NoTransactions
  /\ placeholder = NoneCounted /\ torn = FALSE

MinutePasses ==
  /\ minute < MaxMinute /\ minute' = minute + 1
  /\ UNCHANGED <<tracked, transactions, placeholder, torn>>

-----------------------------------------------------------------------------
(* updateCharger: the changes, then what heals, then what calls for a      *)
(* restart.  on: the active transactions.                                  *)

Within(t, limit) == t # 0 /\ minute < t + limit

Recovers(ch) ==
  \/ Within(ch.lastHeartbeat, SignOfLife) \/ Within(ch.lastMeterValue, SignOfLife)
  \/ ch.status = "Available" /\ ch.consecutiveErrors = 0

Checked(ch) ==
  IF ch.needsRestart /\ Recovers(ch)
  THEN [ch EXCEPT !.needsRestart = FALSE, !.consecutiveErrors = 0, !.lastRecoveryAt = minute]
  ELSE ch

Silent(ch) == ch.lastHeartbeat # 0 /\ minute > ch.lastHeartbeat + SilenceLimit

StuckAt(ch, on) ==
  /\ ch.activeTransaction \in DOMAIN on
  /\ on[ch.activeTransaction].zeroSince # 0
  /\ minute > on[ch.activeTransaction].zeroSince + ZeroPowerLimit

\* A silent charger that is charging, or reports its meter, is spared, and its
\* transaction is then not looked at.
RestartCalledFor(ch, on) ==
  \/ ch.consecutiveErrors >= ErrorLimit
  \/ ch.status = "Faulted"
  \/ IF Silent(ch)
     THEN ch.activeTransaction = NoTransaction /\ ~Within(ch.lastMeterValue, SilenceLimit)
     ELSE StuckAt(ch, on)

Updated(ch, on) ==
  LET healed == Checked(ch)
  IN  [healed EXCEPT !.needsRestart =
         @ \/ (~Within(healed.lastRecoveryAt, RecoveryCooldown)
                /\ RestartCalledFor(healed, on))]

-----------------------------------------------------------------------------
(* An entry: what updateTrackerState makes of its level, before and after  *)
(* what its text says.                                                     *)

Levels == {"ok", "error", "neither"}

Levelled(ch, level, on) ==
  CASE level = "ok" -> Updated([ch EXCEPT !.consecutiveErrors = 0], on)
    [] level = "error" ->
         Updated([ch EXCEPT !.consecutiveErrors = IF @ < ErrorLimit THEN @ + 1 ELSE @], on)
    [] level = "neither" -> ch

\* Both files are written; or the process dies, at most once here, and what it
\* reads back is what the files hold.
Saved(chargers, on, count) ==
  \/ /\ tracked' = chargers /\ transactions' = on /\ placeholder' = count
     /\ UNCHANGED torn
  \/ /\ ~torn /\ torn' = TRUE /\ placeholder' = NoneCounted
     /\ \/ tracked' \in {chargers, NoneTracked} /\ UNCHANGED transactions
        \/ tracked' = chargers /\ transactions' = NoTransactions

Counting(c, ch, on, count) == Saved([tracked EXCEPT ![c] = ch], on, count) /\ UNCHANGED minute
Kept(c, ch, on) == Counting(c, ch, on, placeholder)

\* A heartbeat, or meter values; what else an entry with meter values says is
\* processed as any other entry.
SignOfLifeLogged(c, at) ==
  /\ at \in 1..minute /\ minute <= at + MaxLate
  /\ LET ch == [tracked[c] EXCEPT !.consecutiveErrors = 0]
     IN  \/ Kept(c, Updated([ch EXCEPT !.lastHeartbeat = at], transactions), transactions)
         \/ Kept(c, Updated([ch EXCEPT !.lastMeterValue = at], transactions), transactions)

\* Only an error makes a status other than these three important.
StatusLogged(c, status, level) ==
  /\ status = "Unknown" => level = "error"
  /\ LET ch == Updated([tracked[c] EXCEPT !.status = status], transactions)
     IN  Kept(c, Levelled(ch, level, transactions), transactions)

\* An error that says nothing else, or one about transaction -1, which counts
\* only when it keeps coming.
ErrorLogged(c) == Kept(c, Levelled(tracked[c], "error", transactions), transactions)

PlaceholderLogged(c) ==
  LET count == [placeholder EXCEPT ![c] = IF @ <= PlaceholderLimit THEN @ + 1 ELSE @]
  IN  IF count[c] <= PlaceholderLimit
      THEN placeholder' = count /\ UNCHANGED <<minute, tracked, transactions, torn>>
      ELSE Counting(c, Levelled(tracked[c], "error", transactions), transactions, count)

Started(on, c, t) ==
  [x \in DOMAIN on \union {t} |-> IF x = t THEN [charger |-> c, zeroSince |-> 0] ELSE on[x]]

TransactionStarted(c, t) ==
  /\ \A x \in DOMAIN transactions : x = t => transactions[x].charger = c
  /\ LET on == Started(transactions, c, t)
         ch == Levelled(tracked[c], "ok", transactions)
     IN  Counting(c, Updated([ch EXCEPT !.activeTransaction = t], on), on,
                  [placeholder EXCEPT ![c] = 0])

Without(on, t) == [x \in DOMAIN on \ {t} |-> on[x]]

\* Defect: the transaction ends and its charger keeps naming it.
EndedUncleared(ch, t) == ch

\* Whichever transaction ends, its charger has none.
Ended(ch, t) ==
  IF t \in DOMAIN transactions THEN [ch EXCEPT !.activeTransaction = NoTransaction] ELSE ch

\* One that is not active, or was forgotten, ends unnoticed.
TransactionStopped(c, t, level) ==
  /\ t \in DOMAIN transactions => transactions[t].charger = c
  /\ Kept(c, Ended(Levelled(tracked[c], level, transactions), t), Without(transactions, t))

\* Power is tracked for the active transaction of the charger with the lowest
\* id.  A reading of 0 W is kept; any other only if it begins with a zero too
\* or its entry is an error, so that a charger that delivers may stay at 0 W.
PowerLogged(c, t, zero, level) ==
  /\ t \in DOMAIN transactions /\ transactions[t].charger = c
  /\ \A x \in DOMAIN transactions : transactions[x].charger = c => t <= x
  /\ Kept(c, Levelled(tracked[c], level, transactions),
          [transactions EXCEPT ![t].zeroSince =
             IF ~zero THEN 0 ELSE IF @ = 0 THEN minute ELSE @])

\* Once an hour, and when the collector restarts.
PlaceholderCleared ==
  /\ placeholder' = NoneCounted
  /\ UNCHANGED <<minute, tracked, transactions, torn>>

-----------------------------------------------------------------------------
EntryLogged(c) ==
  \/ \E at \in 1..minute : SignOfLifeLogged(c, at)
  \/ \E s \in TrackedStatuses, level \in Levels : StatusLogged(c, s, level)
  \/ ErrorLogged(c) \/ PlaceholderLogged(c)
  \/ \E t \in Transactions :
       \/ TransactionStarted(c, t)
       \/ \E level \in Levels :
            \/ TransactionStopped(c, t, level)
            \/ \E zero \in BOOLEAN : PowerLogged(c, t, zero, level)

TrackerNext ==
  MinutePasses \/ PlaceholderCleared \/ \E c \in TrackedChargers : EntryLogged(c)

TrackerSpec == TrackerInit /\ [][TrackerNext]_trackerVars

-----------------------------------------------------------------------------
TrackerTypeOK ==
  /\ minute \in 1..MaxMinute /\ torn \in BOOLEAN
  /\ tracked \in [TrackedChargers ->
       [status : TrackedStatuses, lastHeartbeat : 0..MaxMinute, lastMeterValue : 0..MaxMinute,
        activeTransaction : Transactions \union {NoTransaction},
        consecutiveErrors : 0..ErrorLimit, needsRestart : BOOLEAN,
        lastRecoveryAt : 0..MaxMinute]]
  /\ DOMAIN transactions \subseteq Transactions
  /\ \A t \in DOMAIN transactions : /\ transactions[t].charger \in TrackedChargers
                                    /\ transactions[t].zeroSince \in 0..minute
  /\ placeholder \in [TrackedChargers -> 0..(PlaceholderLimit + 1)]

\* A charger spared from a restart because it is charging is charging: the
\* transaction it names is an active one of its own, however starts and stops
\* of its connectors are ordered, repeated or late, unless the process died
\* between the two files.
SparedIsCharging ==
  ~torn => \A c \in TrackedChargers :
    LET t == tracked[c].activeTransaction
    IN  t # NoTransaction => t \in DOMAIN transactions /\ transactions[t].charger = c
=============================================================================
