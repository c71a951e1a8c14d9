---------------------- MODULE StationInvestigatorProofs ----------------------
(***************************************************************************)
(* StationInvestigator answers a message at most once and never over a     *)
(* person (AnswerOnce), for any number of messages, webhook requests and   *)
(* attempts.                                                               *)
(*                                                                         *)
(* The argument: the row that a worker asks or sends for stays what the    *)
(* worker made it.  Every other write is guarded by a status that such a   *)
(* row does not have, by its lease, or by its being fresh, and a write     *)
(* makes the row stale for everybody.  So an attempt that is out, or may   *)
(* still arrive, is the row's last one and stands in a status that nobody  *)
(* resumes.                                                                *)
(***************************************************************************)
EXTENDS StationInvestigator, FiniteSetTheorems, TLAPS

-----------------------------------------------------------------------------
(***************************************************************************)
(* The inductive invariant                                                 *)
(***************************************************************************)

\* The lease of a worker that asks has not run out, and the row is its own.
AskingHolds ==
  \A p \in Workers : worker[p].pc = "asking" =>
    /\ job[Msg(p)].status = "processing" /\ ~job[Msg(p)].aged
    /\ worker[p].try \in Attempts /\ worker[p].try = job[Msg(p)].attempts
    /\ Msg(p) \notin pass.fresh

\* Under a worker that sends the row can only be given up as unknown.
SendingHolds ==
  \A p \in Workers : worker[p].pc = "sending" =>
    /\ job[Msg(p)].status \in {"sending", "delivery_unknown"}
    /\ worker[p].try \in Attempts /\ worker[p].try = job[Msg(p)].attempts

Busy(p) == worker[p].pc \in {"asking", "sending"}

OneAtWork ==
  \A p, q \in Workers : Busy(p) /\ Busy(q) /\ Msg(p) = Msg(q) => p = q

Recorded == {"sending", "delivery_unknown", "sent"}
Out      == {"flying", "taken"}

\* Only the last attempt can be out.
LiveIsLast ==
  \A m \in Messages, k \in Attempts : wire[m][k] \in Out =>
    k = job[m].attempts /\ job[m].status \in Recorded

FreshMeansAsRead ==
  \A p \in Workers : worker[p].fresh =>
    worker[p].pc # "idle" /\ job[Msg(p)].status = worker[p].prior

\* A row that is fresh for the sweep is still one it listed.
PassHolds ==
  /\ \A m \in pass.fresh :
       IF m \in pass.sending THEN job[m].status = "sending"
       ELSE \/ job[m].status = "retry"
            \/ job[m].status \in {"reserved", "processing"} /\ job[m].aged
  /\ worker[Sweeper].pc # "idle" => Msg(Sweeper) \notin pass.sending
  /\ \A p \in Workers :
       worker[p].pc \in {"failDue", "reschedule"} => p = Sweeper

IInv ==
  /\ TypeOK /\ OneOwner
  /\ AskingHolds /\ SendingHolds /\ OneAtWork
  /\ LiveIsLast /\ FreshMeansAsRead /\ PassHolds

-----------------------------------------------------------------------------
(***************************************************************************)
(* What the writes preserve                                                *)
(***************************************************************************)
WorkerState == [pc : PCs, msg : Messages \cup {NoMessage}, prior : Statuses,
                charged : BOOLEAN, fresh : BOOLEAN, try : 0 .. MaxAttempts]

\* w is a state worker p may be in after a step on message m.
Legal(p, m, w) ==
  /\ w \in WorkerState
  /\ w.msg \in {m, NoMessage}
  /\ w.pc = "idle" <=> w.msg = NoMessage
  /\ w.pc = "idle" => ~w.fresh
  /\ w.pc \in {"failDue", "reschedule"} => p = Sweeper

\* Nobody works on m, and none of its answers is out.
Free(m) ==
  /\ \A q \in Workers : Msg(q) = m => ~Busy(q)
  /\ \A k \in Attempts : wire[m][k] \notin Out

\* A row that is not in flight, or whose lease has run out before a send, is
\* free: what a worker checks before it writes.
LEMMA FreeRows ==
  ASSUME IInv, NEW m \in Messages,
         \/ job[m].status \in {"none", "claimed", "retry", "reserved"}
         \/ job[m].status = "processing" /\ job[m].aged
  PROVE  Free(m)
  BY DEF IInv, AskingHolds, SendingHolds, LiveIsLast, Free, Busy, Recorded, Workers

\* A worker that is not idle has a message.
LEMMA HasMessage ==
  ASSUME TypeOK, NEW p \in Workers, worker[p].pc # "idle"
  PROVE  Msg(p) \in Messages /\ RowOf(p) \in Row
  BY DEF TypeOK, Msg, RowOf

\* A worker that goes on without a write, neither asking nor sending, keeps
\* the invariant.
LEMMA GotoKeeps ==
  ASSUME IInv, NEW p \in Workers, NEW m \in Messages, NEW w,
         Legal(p, m, w), Goto(p, w),
         w.pc \notin {"asking", "sending"},
         w.fresh => job[m].status = w.prior,
         p = Sweeper => m \notin pass.sending
  PROVE  IInv'
<1> USE DEF Goto, Legal
<1>1. \A q \in Workers : worker'[q] = IF q = p THEN w ELSE worker[q]
  BY DEF IInv, TypeOK
<1>2. TypeOK'
  <2>1. worker' \in [Workers -> WorkerState]
    BY DEF IInv, TypeOK, WorkerState
  <2> QED
    BY <1>1, <2>1 DEF IInv, TypeOK, WorkerState
<1>3. AskingHolds' /\ SendingHolds' /\ OneAtWork'
  BY <1>1 DEF IInv, AskingHolds, SendingHolds, OneAtWork, Busy, Msg
<1>4. OneOwner' /\ LiveIsLast'
  BY DEF IInv, OneOwner, LiveIsLast
<1>5. FreshMeansAsRead'
  BY <1>1 DEF IInv, FreshMeansAsRead, Msg
<1>6. PassHolds'
  BY <1>1 DEF IInv, PassHolds, Msg, Workers
<1> QED
  BY <1>2, <1>3, <1>4, <1>5, <1>6 DEF IInv

\* What a worker p that writes row over its message must have made sure of:
\* the others, itself as w, and the answers that are out.
MayWrite(p, w, row) ==
  /\ Legal(p, Msg(p), w) /\ row \in Row
  /\ Msg(p) \in Messages \ generic
  /\ \A q \in Workers \ {p} : Msg(q) = Msg(p) =>
       /\ worker[q].pc # "asking"
       /\ worker[q].pc = "sending" =>
            row.status \in {"sending", "delivery_unknown"}
            /\ worker[q].try = row.attempts
  /\ w.pc \in {"asking", "sending"} =>
       /\ row.status = IF w.pc = "asking" THEN "processing" ELSE "sending"
       /\ w.try \in Attempts /\ w.try = row.attempts
       /\ \A q \in Workers \ {p} : Msg(q) = Msg(p) => ~Busy(q)
  /\ wire' \in [Messages -> [Attempts -> Wire]]
  /\ \A n \in Messages \ {Msg(p)} : wire'[n] = wire[n]
  /\ \A k \in Attempts : wire'[Msg(p)][k] \in Out =>
       k = row.attempts /\ row.status \in Recorded

LEMMA RecordKeeps ==
  ASSUME IInv, NEW p \in Workers, NEW w, NEW row,
         worker[p].pc # "idle", MayWrite(p, w, row), Record(p, w, row)
  PROVE  IInv'
<1> DEFINE m == worker[p].msg
<1> DEFINE new == [row EXCEPT !.aged = FALSE]
<1>0. MayWrite(p, w, row) /\ Legal(p, m, w)
  BY DEF MayWrite, Msg
<1>1. m \in Messages /\ m \notin generic /\ m # NoMessage
  BY StationAssumption DEF MayWrite, Msg
<1>2. /\ new \in Row /\ new.status = row.status /\ ~new.aged
      /\ new.attempts = row.attempts
  BY DEF MayWrite, Row
<1>3. /\ job' \in [Messages -> Row] /\ job'[m] = new
      /\ \A n \in Messages \ {m} : job'[n] = job[n]
  BY <1>1, <1>2 DEF Record, IInv, TypeOK, Msg
<1>4. /\ worker' \in [Workers -> WorkerState]
      /\ worker'[p].pc = w.pc /\ worker'[p].msg = w.msg
      /\ worker'[p].try = w.try /\ worker'[p].prior = w.prior
      /\ worker'[p].fresh => w.fresh /\ w.msg # m
  BY <1>1, ZenonT(30) DEF Record, MayWrite, Legal, IInv, TypeOK, WorkerState, Msg
<1>5. \A q \in Workers \ {p} :
        /\ worker'[q].pc = worker[q].pc /\ worker'[q].msg = worker[q].msg
        /\ worker'[q].try = worker[q].try /\ worker'[q].prior = worker[q].prior
        /\ worker'[q].fresh => worker[q].fresh /\ worker[q].msg # m
  BY <1>1 DEF Record, IInv, TypeOK, Msg
<1>6. /\ pass' \in [todo : SUBSET Messages, sending : SUBSET Messages,
                   fresh : SUBSET Messages]
      /\ pass'.sending = pass.sending /\ pass'.fresh = pass.fresh \ {m}
      /\ generic' = generic /\ human' = human /\ crashes' = crashes
  BY DEF Record, IInv, TypeOK, Msg
<1>7. \A q \in Workers : worker[q].msg \in Messages \cup {NoMessage}
                        /\ (worker[q].pc = "idle" <=> worker[q].msg = NoMessage)
  BY DEF IInv, TypeOK
<1>8. /\ \A n \in Messages \ {m} : wire'[n] = wire[n]
      /\ \A k \in Attempts : wire'[m][k] \in Out =>
           k = new.attempts /\ new.status \in Recorded
      /\ wire' \in [Messages -> [Attempts -> Wire]]
  BY <1>0, <1>2 DEF MayWrite, Msg
<1>9. \A q \in Workers \ {p} : worker[q].msg = m =>
        /\ worker[q].pc # "asking"
        /\ worker[q].pc = "sending" =>
             new.status \in {"sending", "delivery_unknown"}
             /\ worker[q].try = new.attempts
  BY <1>0, <1>2 DEF MayWrite, Msg
<1>10. w.pc \in {"asking", "sending"} =>
        /\ new.status = IF w.pc = "asking" THEN "processing" ELSE "sending"
        /\ w.try \in Attempts /\ w.try = new.attempts
        /\ \A q \in Workers \ {p} : worker[q].msg = m =>
             worker[q].pc \notin {"asking", "sending"}
  BY <1>0, <1>2 DEF MayWrite, Msg, Busy
<1>11. /\ w.msg \in {m, NoMessage} /\ (w.pc = "idle" <=> w.msg = NoMessage)
       /\ w.pc = "idle" => ~w.fresh
       /\ w.pc \in {"failDue", "reschedule"} => p = Sweeper
  BY <1>0 DEF Legal
<1> HIDE DEF m, new
<1> USE DEF Msg
<1>12. TypeOK'
  <2>1. \A q \in Workers : worker'[q].pc = "idle" <=> worker'[q].msg = NoMessage
    BY <1>4, <1>5, <1>7, <1>11
  <2> QED
    BY <1>3, <1>4, <1>6, <1>8, <2>1 DEF IInv, TypeOK, WorkerState
<1>13. OneOwner'
  BY <1>1, <1>3, <1>6 DEF IInv, OneOwner, TypeOK
<1>14. AskingHolds'
  <2> SUFFICES ASSUME NEW q \in Workers, worker'[q].pc = "asking"
               PROVE  /\ job'[worker'[q].msg].status = "processing"
                      /\ ~job'[worker'[q].msg].aged
                      /\ worker'[q].try \in Attempts
                      /\ worker'[q].try = job'[worker'[q].msg].attempts
                      /\ worker'[q].msg \notin pass'.fresh
    BY DEF AskingHolds
  <2>1. CASE q = p
    BY <2>1, <1>2, <1>3, <1>4, <1>6, <1>10, <1>11
  <2>2. CASE q # p
    <3>1. worker[q].pc = "asking" /\ worker[q].msg \in Messages \ {m}
      BY <2>2, <1>5, <1>7, <1>9
    <3> QED
      BY <2>2, <3>1, <1>3, <1>5, <1>6 DEF IInv, AskingHolds
  <2> QED
    BY <2>1, <2>2
<1>15. SendingHolds'
  <2> SUFFICES ASSUME NEW q \in Workers, worker'[q].pc = "sending"
               PROVE  /\ job'[worker'[q].msg].status
                           \in {"sending", "delivery_unknown"}
                      /\ worker'[q].try \in Attempts
                      /\ worker'[q].try = job'[worker'[q].msg].attempts
    BY DEF SendingHolds
  <2>1. CASE q = p
    BY <2>1, <1>3, <1>4, <1>10, <1>11
  <2>2. CASE q # p
    <3>1. worker[q].pc = "sending" /\ worker[q].msg \in Messages
      BY <2>2, <1>5, <1>7
    <3>2. CASE worker[q].msg = m
      BY <2>2, <3>1, <3>2, <1>3, <1>5, <1>9 DEF IInv, SendingHolds
    <3>3. CASE worker[q].msg # m
      BY <2>2, <3>1, <3>3, <1>3, <1>5 DEF IInv, SendingHolds
    <3> QED
      BY <3>2, <3>3
  <2> QED
    BY <2>1, <2>2
<1>16. OneAtWork'
  BY <1>4, <1>5, <1>10, <1>11 DEF IInv, OneAtWork, Busy
<1>17. LiveIsLast'
  BY <1>1, <1>3, <1>8 DEF IInv, LiveIsLast
<1>18. FreshMeansAsRead'
  <2> SUFFICES ASSUME NEW q \in Workers, worker'[q].fresh
               PROVE  /\ worker'[q].pc # "idle"
                      /\ job'[worker'[q].msg].status = worker'[q].prior
    BY DEF FreshMeansAsRead
  <2>1. q # p /\ worker[q].fresh /\ worker[q].msg # m
    BY <1>4, <1>5, <1>11
  <2>2. worker[q].pc # "idle" /\ worker[q].msg \in Messages \ {m}
    BY <2>1, <1>7 DEF IInv, FreshMeansAsRead
  <2> QED
    BY <2>1, <2>2, <1>3, <1>5 DEF IInv, FreshMeansAsRead
<1>19. PassHolds'
  <2>1. \A n \in pass'.fresh : n \in pass.fresh /\ job'[n] = job[n]
    BY <1>3, <1>6 DEF IInv, TypeOK
  <2>2. worker'[Sweeper].pc # "idle" =>
          worker[Sweeper].pc # "idle" /\ worker'[Sweeper].msg = worker[Sweeper].msg
    BY <1>4, <1>5, <1>11 DEF Workers, m
  <2>3. \A q \in Workers :
          worker'[q].pc \in {"failDue", "reschedule"} => q = Sweeper
    BY <1>4, <1>5, <1>11 DEF IInv, PassHolds
  <2> QED
    BY <2>1, <2>2, <2>3, <1>6 DEF IInv, PassHolds
<1> QED
  BY <1>12, <1>13, <1>14, <1>15, <1>16, <1>17, <1>18, <1>19 DEF IInv

\* A worker that writes a free row and neither asks nor sends.
LEMMA WriteFreeKeeps ==
  ASSUME IInv, NEW p \in Workers, NEW w, NEW row \in Row,
         worker[p].pc # "idle", Legal(p, Msg(p), w),
         w.pc \notin {"asking", "sending"},
         Msg(p) \notin generic, Free(Msg(p)), Write(p, w, row)
  PROVE  IInv'
<1>1. Msg(p) \in Messages
  BY HasMessage DEF IInv
<1>2. wire' = wire /\ wire \in [Messages -> [Attempts -> Wire]]
  BY DEF Write, IInv, TypeOK
<1>3. MayWrite(p, w, row)
  BY <1>1, <1>2 DEF MayWrite, Free, Busy
<1> QED
  BY <1>3, RecordKeeps DEF Write

\* An idle worker, and one that is given a message.
LEMMA IdleIsTyped ==
  /\ Idle \in WorkerState /\ Idle.pc = "idle" /\ Idle.msg = NoMessage
  /\ ~Idle.fresh
  BY StationAssumption DEF Idle, WorkerState, PCs, Statuses

LEMMA GivenIsTyped ==
  ASSUME NEW c \in PCs, NEW m \in Messages
  PROVE  LET w == [Idle EXCEPT !.pc = c, !.msg = m] IN
         w \in WorkerState /\ w.pc = c /\ w.msg = m /\ ~w.fresh
  BY IdleIsTyped DEF WorkerState

\* Where a worker is once its route is over.
Stops(p) == {Idle, After(p, "failDue"), After(p, "reschedule")}

LEMMA StopIsLegal ==
  ASSUME TypeOK, NEW p \in Workers, worker[p].pc # "idle", NEW w \in Stops(p)
  PROVE  Legal(p, Msg(p), w) /\ w.pc \notin {"asking", "sending"} /\ ~w.fresh
<1>1. Msg(p) \in Messages /\ Msg(p) # NoMessage
  BY HasMessage, StationAssumption
<1>2. /\ Idle \in WorkerState /\ Idle.pc = "idle" /\ Idle.msg = NoMessage
      /\ ~Idle.fresh
  BY IdleIsTyped
<1>3. \A c \in {"failDue", "reschedule"} :
        LET x == [Idle EXCEPT !.pc = c, !.msg = Msg(p)] IN
        x \in WorkerState /\ x.pc = c /\ x.msg = Msg(p) /\ ~x.fresh
  BY <1>1, IdleIsTyped DEF PCs, WorkerState
<1>4. CASE w = Idle
  BY <1>1, <1>2, <1>4 DEF Legal
<1>5. CASE p = Sweeper /\ w # Idle
  BY <1>1, <1>3, <1>5 DEF Legal, Stops, After
<1> QED
  BY <1>4, <1>5 DEF Stops, After

\* A worker stops without a write.
LEMMA StopKeeps ==
  ASSUME IInv, NEW p \in Workers, worker[p].pc # "idle", NEW w \in Stops(p),
         Goto(p, w)
  PROVE  IInv'
<1>1. TypeOK /\ Msg(p) \in Messages
  BY HasMessage DEF IInv
<1>2. p = Sweeper => Msg(p) \notin pass.sending
  BY DEF IInv, PassHolds
<1> QED
  BY <1>1, <1>2, StopIsLegal, GotoKeeps

\* A worker stops and writes a row that is free.
LEMMA StopWriteKeeps ==
  ASSUME IInv, NEW p \in Workers, worker[p].pc # "idle", NEW w \in Stops(p),
         NEW row \in Row, Msg(p) \notin generic, Free(Msg(p)), Write(p, w, row)
  PROVE  IInv'
  BY StopIsLegal, WriteFreeKeeps DEF IInv

\* A worker goes on to its next await, with what it has read.
LEMMA NextPcIsLegal ==
  ASSUME TypeOK, NEW p \in Workers, worker[p].pc # "idle",
         NEW c \in {"generic", "ready", "asking", "sending"}
  PROVE  LET w == [worker[p] EXCEPT !.pc = c] IN
         /\ Legal(p, Msg(p), w) /\ w.pc = c /\ w.prior = worker[p].prior
         /\ w.fresh = worker[p].fresh /\ w.try = worker[p].try
  BY StationAssumption DEF TypeOK, Legal, WorkerState, PCs, Msg

LEMMA OnKeeps ==
  ASSUME IInv, NEW p \in Workers, worker[p].pc # "idle",
         NEW c \in {"generic", "ready"}, Goto(p, [worker[p] EXCEPT !.pc = c])
  PROVE  IInv'
<1> DEFINE w == [worker[p] EXCEPT !.pc = c]
<1>1. Msg(p) \in Messages /\ TypeOK
  BY HasMessage DEF IInv
<1>2. /\ Legal(p, Msg(p), w) /\ w.pc = c /\ w.prior = worker[p].prior
      /\ w.fresh = worker[p].fresh
  BY <1>1, NextPcIsLegal, ZenonT(60)
<1>3. w.fresh => job[Msg(p)].status = w.prior
  BY <1>2 DEF IInv, FreshMeansAsRead
<1>4. p = Sweeper => Msg(p) \notin pass.sending
  BY DEF IInv, PassHolds
<1> HIDE DEF w
<1>5. Goto(p, w)
  BY DEF w
<1> QED
  BY <1>1, <1>2, <1>3, <1>4, <1>5, GotoKeeps

-----------------------------------------------------------------------------
(***************************************************************************)
(* The steps of a worker                                                   *)
(***************************************************************************)
LEMMA StartKeeps ==
  ASSUME IInv, NEW h \in Handlers, NEW m \in Messages, Start(h, m)
  PROVE  IInv'
<1> DEFINE w == [Idle EXCEPT !.pc = "start", !.msg = m]
<1>1. /\ w \in WorkerState /\ w.pc = "start" /\ w.msg = m /\ ~w.fresh
  BY GivenIsTyped DEF PCs
<1>2. h \in Workers /\ h # Sweeper /\ m # NoMessage
  BY StationAssumption DEF Workers
<1>3. Goto(h, w)
  BY DEF Start
<1> HIDE DEF w
<1>4. Legal(h, m, w)
  BY <1>1, <1>2 DEF Legal
<1> QED
  BY <1>1, <1>2, <1>3, <1>4, GotoKeeps

\* A message with a row is not the generic pipeline's.
LEMMA RowMeansOwned ==
  ASSUME IInv, NEW m \in Messages, job[m].status # "none"
  PROVE  m \notin generic
  BY DEF IInv, OneOwner

LEMMA ReadRowKeeps ==
  ASSUME IInv, NEW p \in Workers, ReadRow(p)
  PROVE  IInv'
<1> DEFINE row == RowOf(p)
<1>1. /\ worker[p].pc = "start" /\ worker[p].pc # "idle" /\ TypeOK
      /\ Msg(p) \in Messages /\ row \in Row /\ row = job[Msg(p)]
  BY HasMessage DEF ReadRow, IInv, RowOf
<1>2. CASE row.status = "sending" /\ row.aged
           /\ Write(p, Idle, [row EXCEPT !.status = "delivery_unknown"])
  <2> DEFINE new == [row EXCEPT !.status = "delivery_unknown"]
  <2>1. /\ new \in Row /\ new.status = "delivery_unknown"
        /\ new.attempts = row.attempts
    BY <1>1 DEF Row, Statuses, Settled
  <2>2. Legal(p, Msg(p), Idle) /\ Idle.pc \notin {"asking", "sending"}
    BY <1>1, StopIsLegal DEF Stops
  <2>3. wire' = wire /\ wire \in [Messages -> [Attempts -> Wire]]
    BY <1>1, <1>2 DEF Write, TypeOK
  <2>4. \A k \in Attempts : wire[Msg(p)][k] \in Out => k = row.attempts
    BY <1>1 DEF IInv, LiveIsLast
  <2>5. \A q \in Workers : Msg(q) = Msg(p) =>
          /\ worker[q].pc # "asking"
          /\ worker[q].pc = "sending" => worker[q].try = row.attempts
    BY <1>1, <1>2 DEF IInv, AskingHolds, SendingHolds
  <2>6. Msg(p) \notin generic
    BY <1>1, <1>2, RowMeansOwned
  <2> HIDE DEF new, row
  <2>7. MayWrite(p, Idle, new)
    BY <1>1, <2>1, <2>2, <2>3, <2>4, <2>5, <2>6 DEF MayWrite, Recorded
  <2>8. Record(p, Idle, new)
    BY <1>2 DEF Write, new
  <2> QED
    BY <1>1, <2>7, <2>8, RecordKeeps
<1>3. CASE OthersTurn(row) /\ Goto(p, Idle)
  BY <1>1, <1>3, StopKeeps DEF Stops
<1>4. CASE /\ DueRetry(row) \/ Resumable(row)
           /\ Write(p, Idle, [row EXCEPT !.status = "failed", !.due = FALSE])
  <2>1. [row EXCEPT !.status = "failed", !.due = FALSE] \in Row
    BY <1>1 DEF Row, Statuses, Settled
  <2>2. Free(Msg(p)) /\ Msg(p) \notin generic
    BY <1>1, <1>4, FreeRows, RowMeansOwned DEF DueRetry, Resumable
  <2> QED
    BY <1>1, <1>4, <2>1, <2>2, StopWriteKeeps DEF Stops
<1>5. CASE Goto(p, [worker[p] EXCEPT !.pc = "generic"])
  BY <1>1, <1>5, OnKeeps
<1>6. CASE Goto(p, [worker[p] EXCEPT !.pc = "config", !.prior = row.status,
                                     !.charged = Charged(row), !.fresh = TRUE])
  <2> DEFINE w == [worker[p] EXCEPT !.pc = "config", !.prior = row.status,
                                    !.charged = Charged(row), !.fresh = TRUE]
  <2>1. row.status \in Statuses /\ Charged(row) \in BOOLEAN
    BY <1>1 DEF Row, Charged
  <2>2. /\ w \in WorkerState /\ w.pc = "config" /\ w.msg = Msg(p)
        /\ w.prior = row.status
    BY <1>1, <2>1, ZenonT(90) DEF TypeOK, WorkerState, PCs, Msg
  <2>3. Goto(p, w)
    BY <1>6
  <2>4. Msg(p) # NoMessage /\ (p = Sweeper => Msg(p) \notin pass.sending)
    BY <1>1, StationAssumption DEF IInv, PassHolds
  <2> HIDE DEF w
  <2>5. Legal(p, Msg(p), w)
    BY <2>2, <2>4 DEF Legal
  <2> QED
    BY <1>1, <2>2, <2>3, <2>4, <2>5, GotoKeeps
<1> QED
  BY <1>2, <1>3, <1>4, <1>5, <1>6 DEF ReadRow

\* At "config" a worker may stop where it is, or write over a claimed or a
\* missing row.
LEMMA AtConfigFacts ==
  ASSUME IInv, NEW p \in Workers, AtConfig(p)
  PROVE  /\ worker[p].pc # "idle" /\ TypeOK
         /\ Msg(p) \in Messages /\ RowOf(p) \in Row /\ RowOf(p) = job[Msg(p)]
         /\ After(p, "failDue") \in Stops(p) /\ Idle \in Stops(p)
         /\ After(p, "reschedule") \in Stops(p)
  BY HasMessage DEF AtConfig, IInv, Stops, RowOf

LEMMA OwnedRowFacts ==
  ASSUME IInv, NEW p \in Workers, Owns(p), OwnedRow(p).status = "claimed"
  PROVE  /\ OwnedRow(p) \in Row /\ Msg(p) \notin generic /\ Free(Msg(p))
<1>1. AtConfig(p) /\ Msg(p) \in Messages /\ RowOf(p) \in Row
      /\ RowOf(p) = job[Msg(p)]
  BY AtConfigFacts DEF Owns
<1>2. RowOf(p).status \in {"none", "claimed"}
  BY DEF OwnedRow
<1>3. Free(Msg(p))
  BY <1>1, <1>2, FreeRows
<1>4. Msg(p) \notin generic
  BY <1>1, <1>2, RowMeansOwned DEF Owns, OwnedRow, First
<1>5. OwnedRow(p) \in Row
  <2>1. NoRow \in Row
    BY StationAssumption DEF NoRow, Row, Statuses
  <2>2. [NoRow EXCEPT !.status = "claimed"] \in Row
    BY <2>1 DEF Row, Statuses
  <2> QED
    BY <1>1, <2>2 DEF OwnedRow
<1> QED
  BY <1>3, <1>4, <1>5

LEMMA DeclineKeeps ==
  ASSUME IInv, NEW p \in Workers, AtConfig(p),
         NEW outcome \in {"failDue", "reschedule"}, Decline(p, outcome)
  PROVE  IInv'
<1>1. CASE Goto(p, [worker[p] EXCEPT !.pc = "generic"])
  BY <1>1, AtConfigFacts, OnKeeps
<1>2. CASE Goto(p, Idle) \/ Goto(p, After(p, outcome))
  BY <1>2, AtConfigFacts, StopKeeps
<1> QED
  BY <1>1, <1>2 DEF Decline

LEMMA OwnAndStopKeeps ==
  ASSUME IInv, NEW p \in Workers, Owns(p), OwnAndStop(p)
  PROVE  IInv'
<1>1. AtConfig(p)
  BY DEF Owns
<1>2. CASE OwnedRow(p) = RowOf(p)
  BY <1>1, <1>2, AtConfigFacts, StopKeeps DEF OwnAndStop
<1>3. CASE OwnedRow(p) # RowOf(p)
  <2>1. OwnedRow(p).status = "claimed"
    BY <1>3 DEF OwnedRow, NoRow
  <2> QED
    BY <1>1, <1>3, <2>1, AtConfigFacts, OwnedRowFacts, StopWriteKeeps DEF OwnAndStop
<1> QED
  BY <1>2, <1>3

LEMMA ReserveKeeps ==
  ASSUME IInv, NEW p \in Workers, Reserve(p)
  PROVE  IInv'
<1>1. AtConfig(p) /\ Owns(p)
  BY DEF Reserve, Owns
<1>2. CASE Goto(p, Idle)
  BY <1>1, <1>2, AtConfigFacts, StopKeeps
<1>3. CASE OwnAndStop(p)
  BY <1>1, <1>3, OwnAndStopKeeps
<1>4. CASE /\ OwnedRow(p).status = "claimed"
           /\ Write(p, After(p, "failDue"), [OwnedRow(p) EXCEPT !.quota = "none"])
  <2>1. [OwnedRow(p) EXCEPT !.quota = "none"] \in Row
    BY <1>1, <1>4, OwnedRowFacts DEF Row
  <2> QED
    BY <1>1, <1>4, <2>1, AtConfigFacts, OwnedRowFacts, StopWriteKeeps
<1>5. CASE /\ OwnedRow(p).status = "claimed"
           /\ Write(p, [worker[p] EXCEPT !.pc = "ready"],
                    [OwnedRow(p) EXCEPT !.status = "reserved", !.quota = "held"])
  <2> DEFINE w == [worker[p] EXCEPT !.pc = "ready"]
  <2> DEFINE row == [OwnedRow(p) EXCEPT !.status = "reserved", !.quota = "held"]
  <2>1. row \in Row
    BY <1>1, <1>5, OwnedRowFacts DEF Row, Statuses, InFlight
  <2>2. Legal(p, Msg(p), w) /\ w.pc = "ready"
    BY <1>1, AtConfigFacts, NextPcIsLegal
  <2>3. Write(p, w, row)
    BY <1>5
  <2> HIDE DEF w, row
  <2> QED
    BY <1>1, <1>5, <2>1, <2>2, <2>3, AtConfigFacts, OwnedRowFacts, WriteFreeKeeps
<1> QED
  BY <1>2, <1>3, <1>4, <1>5 DEF Reserve

LEMMA ContextFailsKeeps ==
  ASSUME IInv, NEW p \in Workers, ContextFails(p)
  PROVE  IInv'
<1>1. AtConfig(p)
  BY DEF ContextFails, Owns
<1>2. CASE Goto(p, After(p, "failDue"))
  BY <1>1, <1>2, AtConfigFacts, StopKeeps
<1>3. CASE /\ worker[p].prior = "reserved" /\ worker[p].fresh
           /\ Write(p, After(p, "failDue"),
                    [RowOf(p) EXCEPT !.status = "failed", !.quota = "none"])
  <2>1. RowOf(p).status = "reserved" /\ RowOf(p) = job[Msg(p)]
        /\ Msg(p) \in Messages
    BY <1>1, <1>3, AtConfigFacts DEF IInv, FreshMeansAsRead
  <2>2. Free(Msg(p)) /\ Msg(p) \notin generic
    BY <2>1, FreeRows, RowMeansOwned
  <2>3. [RowOf(p) EXCEPT !.status = "failed", !.quota = "none"] \in Row
    BY <1>1, AtConfigFacts DEF Row, Statuses, Settled
  <2> QED
    BY <1>1, <1>3, <2>2, <2>3, AtConfigFacts, StopWriteKeeps
<1> QED
  BY <1>2, <1>3 DEF ContextFails

\* The reservation is written without a new updated_at: nothing that the
\* invariant is about changes, so it is as if the worker had only gone on.
LEMMA ReacquireKeeps ==
  ASSUME IInv, NEW p \in Workers, AtConfig(p), Reacquire(p)
  PROVE  IInv'
<1> DEFINE w == [worker[p] EXCEPT !.pc = "ready"]
<1>1. Msg(p) \in Messages /\ TypeOK /\ worker[p].pc # "idle"
  BY AtConfigFacts
<1>2. /\ job' \in [Messages -> Row]
      /\ \A n \in Messages :
           /\ job'[n].status = job[n].status /\ job'[n].aged = job[n].aged
           /\ job'[n].attempts = job[n].attempts
  BY <1>1, SMTT(30) DEF Reacquire, TypeOK, Row
<1>3. /\ worker' \in [Workers -> WorkerState]
      /\ worker' = [worker EXCEPT ![p] = w]
      /\ Legal(p, Msg(p), w) /\ w.pc = "ready" /\ w.fresh = worker[p].fresh
      /\ w.prior = worker[p].prior /\ w.msg = Msg(p)
  <2>1. Legal(p, Msg(p), w) /\ w.pc = "ready" /\ w.fresh = worker[p].fresh
        /\ w.prior = worker[p].prior
    BY <1>1, NextPcIsLegal
  <2>2. worker' = [worker EXCEPT ![p] = w] /\ w.msg = Msg(p)
    BY <1>1 DEF Reacquire, TypeOK, Msg
  <2> QED
    BY <2>1, <2>2, <1>1 DEF Legal, TypeOK, WorkerState
<1>4. \A q \in Workers : worker'[q] = IF q = p THEN w ELSE worker[q]
  BY <1>1, <1>3 DEF TypeOK
<1> HIDE DEF w
<1>5. UNCHANGED <<generic, human, wire, pass, crashes>>
  BY DEF Reacquire
<1>6. TypeOK'
  <2>1. \A q \in Workers : worker'[q].pc = "idle" <=> worker'[q].msg = NoMessage
    BY <1>1, <1>3, <1>4, StationAssumption DEF TypeOK, Legal, WorkerState
  <2> QED
    BY <1>1, <1>2, <1>3, <1>5, <2>1 DEF TypeOK, WorkerState
<1>7. OneOwner' /\ LiveIsLast'
  BY <1>1, <1>2, <1>5 DEF IInv, OneOwner, LiveIsLast, TypeOK
<1>8. \A q \in Workers : worker[q].pc # "idle" => worker[q].msg \in Messages
  BY <1>1 DEF TypeOK
<1>9. AskingHolds' /\ SendingHolds' /\ OneAtWork'
  BY <1>2, <1>3, <1>4, <1>5, <1>8
  DEF IInv, AskingHolds, SendingHolds, OneAtWork, Busy, Msg
<1>10. FreshMeansAsRead'
  BY <1>1, <1>2, <1>3, <1>4, <1>8 DEF IInv, FreshMeansAsRead, Msg
<1>11. PassHolds'
  BY <1>1, <1>2, <1>3, <1>4, <1>5 DEF IInv, PassHolds, Msg, Workers, TypeOK
<1> QED
  BY <1>6, <1>7, <1>9, <1>10, <1>11 DEF IInv

LEMMA ResumeKeeps ==
  ASSUME IInv, NEW p \in Workers, Resume(p)
  PROVE  IInv'
<1>1. AtConfig(p)
  BY DEF Resume, Owns
<1>2. CASE Goto(p, [worker[p] EXCEPT !.pc = "ready"])
  BY <1>1, <1>2, AtConfigFacts, OnKeeps
<1>3. CASE Goto(p, Idle) \/ Goto(p, After(p, "reschedule"))
  BY <1>1, <1>3, AtConfigFacts, StopKeeps
<1>4. CASE Reacquire(p)
  BY <1>1, <1>4, ReacquireKeeps
<1> QED
  BY <1>2, <1>3, <1>4 DEF Resume

LEMMA PrepareKeeps ==
  ASSUME IInv, NEW p \in Workers, Prepare(p)
  PROVE  IInv'
<1>1. CASE ConfigUnavailable(p)
  <2>1. AtConfig(p)
    BY <1>1 DEF ConfigUnavailable
  <2>2. CASE RowOf(p).status = "claimed"
             /\ Write(p, After(p, "reschedule"), Requeued(RowOf(p)))
    <3>1. Requeued(RowOf(p)) \in Row
      BY <2>1, AtConfigFacts DEF Requeued, Row, Statuses
    <3>2. Free(Msg(p)) /\ Msg(p) \notin generic
      BY <2>1, <2>2, AtConfigFacts, FreeRows, RowMeansOwned
    <3> QED
      BY <2>1, <2>2, <3>1, <3>2, AtConfigFacts, StopWriteKeeps
  <2> QED
    BY <1>1, <2>1, <2>2, DeclineKeeps DEF ConfigUnavailable
<1>2. CASE PolicyDeclines(p)
  BY <1>2, DeclineKeeps DEF PolicyDeclines
<1>3. CASE HumanOwned(p)
  BY <1>3, AtConfigFacts, StopKeeps DEF HumanOwned
<1>4. CASE GenericOwned(p)
  BY <1>4, AtConfigFacts, OnKeeps DEF GenericOwned
<1>5. CASE KillSwitch(p)
  BY <1>5, OwnAndStopKeeps DEF KillSwitch
<1>6. CASE CentralUnavailable(p)
  <2>1. AtConfig(p) /\ Owns(p)
    BY <1>6 DEF CentralUnavailable, Owns
  <2>2. CASE OwnedRow(p).status = "claimed"
    <3>1. Requeued(OwnedRow(p)) \in Row
      BY <2>1, <2>2, OwnedRowFacts DEF Requeued, Row, Statuses
    <3> QED
      BY <1>6, <2>1, <2>2, <3>1, AtConfigFacts, OwnedRowFacts, StopWriteKeeps
      DEF CentralUnavailable
  <2>3. CASE OwnedRow(p).status # "claimed"
    BY <1>6, <2>1, <2>3, AtConfigFacts, StopKeeps DEF CentralUnavailable
  <2> QED
    BY <2>2, <2>3
<1>7. CASE Reserve(p)
  BY <1>7, ReserveKeeps
<1>8. CASE ContextFails(p)
  BY <1>8, ContextFailsKeeps
<1>9. CASE Resume(p)
  BY <1>9, ResumeKeeps
<1> QED
  BY <1>1, <1>2, <1>3, <1>4, <1>5, <1>6, <1>7, <1>8, <1>9 DEF Prepare

LEMMA AcquireKeeps ==
  ASSUME IInv, NEW p \in Workers, Acquire(p)
  PROVE  IInv'
<1>1. /\ worker[p].pc = "ready" /\ worker[p].pc # "idle" /\ TypeOK
      /\ Msg(p) \in Messages /\ RowOf(p) \in Row /\ RowOf(p) = job[Msg(p)]
  BY HasMessage DEF Acquire, IInv, RowOf
<1>2. CASE ~Acquirable(RowOf(p))
  BY <1>1, <1>2, StopKeeps DEF Acquire, Stops
<1>3. CASE Acquirable(RowOf(p))
  <2> DEFINE k == RowOf(p).attempts + 1
  <2> DEFINE w == [worker[p] EXCEPT !.pc = "asking", !.try = k]
  <2> DEFINE row == [RowOf(p) EXCEPT !.status = "processing", !.due = FALSE,
                                     !.attempts = k]
  <2>1. k \in Attempts /\ k \in 0 .. MaxAttempts
    BY <1>1, <1>3, StationAssumption DEF Acquirable, Exhausted, Row, Attempts
  <2> HIDE DEF k
  <2>2. row \in Row /\ row.status = "processing" /\ row.attempts = k
    BY <1>1, <2>1 DEF Row, Statuses, InFlight
  <2>3. /\ w \in WorkerState /\ w.pc = "asking" /\ w.try = k
        /\ w.msg = Msg(p)
    BY <1>1, <2>1, ZenonT(30) DEF TypeOK, WorkerState, PCs, Msg
  <2>4. Free(Msg(p)) /\ Msg(p) \notin generic /\ Msg(p) # NoMessage
    BY <1>1, <1>3, FreeRows, RowMeansOwned, StationAssumption
    DEF Acquirable, DueRetry
  <2>5. Write(p, w, row)
    BY <1>3 DEF Acquire, k
  <2>6. wire' = wire /\ wire \in [Messages -> [Attempts -> Wire]]
    BY <1>1, <2>5 DEF Write, TypeOK
  <2> HIDE DEF w, row
  <2>7. MayWrite(p, w, row)
    BY <1>1, <2>1, <2>2, <2>3, <2>4, <2>6 DEF MayWrite, Legal, Free, Busy
  <2> QED
    BY <1>1, <2>5, <2>7, RecordKeeps DEF Write
<1> QED
  BY <1>2, <1>3

\* The row of a worker that asks or sends is its own.
LEMMA BusyFacts ==
  ASSUME IInv, NEW p \in Workers, Busy(p)
  PROVE  /\ worker[p].pc # "idle" /\ TypeOK
         /\ Msg(p) \in Messages \ generic /\ RowOf(p) \in Row
         /\ RowOf(p) = job[Msg(p)]
         /\ worker[p].try \in Attempts /\ worker[p].try = RowOf(p).attempts
         /\ \A q \in Workers \ {p} : Msg(q) = Msg(p) => ~Busy(q)
         /\ \A k \in Attempts :
              wire[Msg(p)][k] \in Out => k = worker[p].try
         /\ worker[p].pc = "asking" =>
              \A k \in Attempts : wire[Msg(p)][k] \notin Out
<1>1. /\ worker[p].pc # "idle" /\ TypeOK
      /\ Msg(p) \in Messages /\ RowOf(p) \in Row /\ RowOf(p) = job[Msg(p)]
  BY HasMessage DEF Busy, IInv, RowOf
<1>2. /\ worker[p].try \in Attempts /\ worker[p].try = RowOf(p).attempts
      /\ RowOf(p).status # "none"
      /\ worker[p].pc = "asking" => RowOf(p).status \notin Recorded
  BY <1>1 DEF Busy, IInv, AskingHolds, SendingHolds, Recorded
<1>3. Msg(p) \notin generic
  BY <1>1, <1>2, RowMeansOwned
<1>4. \A q \in Workers \ {p} : Msg(q) = Msg(p) => ~Busy(q)
  BY DEF IInv, OneAtWork
<1>5. \A k \in Attempts : wire[Msg(p)][k] \in Out =>
        k = RowOf(p).attempts /\ RowOf(p).status \in Recorded
  BY <1>1 DEF IInv, LiveIsLast
<1> QED
  BY <1>1, <1>2, <1>3, <1>4, <1>5

\* A worker that asks or sends writes its row and stops; wire' tells which
\* of its answers are out.
LEMMA BusyWriteKeeps ==
  ASSUME IInv, NEW p \in Workers, Busy(p), NEW w \in Stops(p), NEW row \in Row,
         Record(p, w, row),
         wire' \in [Messages -> [Attempts -> Wire]],
         \A n \in Messages \ {Msg(p)} : wire'[n] = wire[n],
         \A k \in Attempts : wire'[Msg(p)][k] \in Out =>
           k = row.attempts /\ row.status \in Recorded
  PROVE  IInv'
<1>1. Legal(p, Msg(p), w) /\ w.pc \notin {"asking", "sending"}
  BY BusyFacts, StopIsLegal
<1>2. MayWrite(p, w, row)
  BY <1>1, BusyFacts DEF MayWrite, Busy
<1> QED
  BY <1>2, BusyFacts, RecordKeeps

LEMMA GivenUpFacts ==
  ASSUME NEW row \in Row
  PROVE  /\ GivenUp(row) \in Row /\ GivenUp(row).attempts = row.attempts
         /\ GivenUp(row).status \in {"retry", "failed"}
  BY DEF GivenUp, Row, Statuses, Settled

LEMMA AskKeeps ==
  ASSUME IInv, NEW p \in Workers, Ask(p)
  PROVE  IInv'
<1>1. worker[p].pc = "asking" /\ Busy(p)
  BY DEF Ask, AskFails, AskReview, AskHuman, AskSend, Busy
<1>2. /\ worker[p].pc # "idle" /\ TypeOK
      /\ Msg(p) \in Messages \ generic /\ RowOf(p) \in Row
      /\ worker[p].try \in Attempts /\ worker[p].try = RowOf(p).attempts
      /\ wire \in [Messages -> [Attempts -> Wire]]
      /\ \A k \in Attempts : wire[Msg(p)][k] \notin Out
      /\ Idle \in Stops(p) /\ After(p, "failDue") \in Stops(p)
  BY <1>1, BusyFacts DEF TypeOK, Stops
<1>3. ASSUME NEW w \in Stops(p), NEW row \in Row, Write(p, w, row)
      PROVE  IInv'
  BY <1>1, <1>2, <1>3, BusyWriteKeeps DEF Write
<1>4. CASE AskFails(p)
  BY <1>2, <1>3, <1>4, GivenUpFacts DEF AskFails
<1>5. CASE AskReview(p)
  <2>1. [RowOf(p) EXCEPT !.status = "review"] \in Row
    BY <1>2 DEF Row, Statuses, Settled
  <2> QED
    BY <1>2, <1>3, <1>5, <2>1 DEF AskReview
<1>6. CASE AskHuman(p)
  <2>1. [RowOf(p) EXCEPT !.status = "failed"] \in Row
    BY <1>2 DEF Row, Statuses, Settled
  <2> QED
    BY <1>2, <1>3, <1>6, <2>1, StopKeeps DEF AskHuman
<1>7. CASE AskSend(p)
  <2> DEFINE w == [worker[p] EXCEPT !.pc = "sending"]
  <2> DEFINE row == [RowOf(p) EXCEPT !.status = "sending"]
  <2>1. CASE RowOf(p).status # "processing"
    BY <1>2, <1>7, <2>1, StopKeeps DEF AskSend
  <2>2. CASE RowOf(p).status = "processing"
    <3>1. /\ Record(p, w, row)
          /\ wire' = [wire EXCEPT ![Msg(p)][worker[p].try] = "flying"]
      BY <1>7, <2>2 DEF AskSend
    <3>2. /\ row \in Row /\ row.status = "sending"
          /\ row.attempts = RowOf(p).attempts
      BY <1>2 DEF Row, Statuses, InFlight
    <3>3. Legal(p, Msg(p), w) /\ w.pc = "sending" /\ w.try = worker[p].try
      BY <1>2, NextPcIsLegal
    <3>4. /\ wire' \in [Messages -> [Attempts -> Wire]]
          /\ \A n \in Messages \ {Msg(p)} : wire'[n] = wire[n]
          /\ \A k \in Attempts : wire'[Msg(p)][k] \in Out => k = worker[p].try
      BY <1>2, <3>1 DEF Wire, Out
    <3> HIDE DEF w, row
    <3>5. MayWrite(p, w, row)
      BY <1>1, <1>2, <3>2, <3>3, <3>4, BusyFacts DEF MayWrite, Busy, Recorded
    <3> QED
      BY <1>2, <3>1, <3>5, RecordKeeps
  <2> QED
    BY <2>1, <2>2
<1> QED
  BY <1>4, <1>5, <1>6, <1>7 DEF Ask

LEMMA SendKeeps ==
  ASSUME IInv, NEW p \in Workers, Send(p)
  PROVE  IInv'
<1> DEFINE m == Msg(p)
<1> DEFINE k == worker[p].try
<1>1. worker[p].pc = "sending" /\ Busy(p)
  BY DEF Send, SendTaken, SendRefused, SendUnclear, Busy
<1>2. /\ worker[p].pc # "idle" /\ m \in Messages /\ RowOf(p) \in Row
      /\ k \in Attempts /\ k = RowOf(p).attempts
      /\ wire \in [Messages -> [Attempts -> Wire]]
      /\ \A j \in Attempts : wire[m][j] \in Out => j = k
      /\ Idle \in Stops(p)
  BY <1>1, BusyFacts DEF TypeOK, Stops
<1>3. CASE SendTaken(p)
  <2> DEFINE row == [RowOf(p) EXCEPT !.status = "sent"]
  <2>1. row \in Row /\ row.status = "sent" /\ row.attempts = k
    BY <1>2 DEF Row, Statuses, Settled
  <2>2. Record(p, Idle, row) /\ wire' = [wire EXCEPT ![m][k] = "taken"]
    BY <1>3 DEF SendTaken
  <2>3. /\ wire' \in [Messages -> [Attempts -> Wire]]
        /\ \A n \in Messages \ {m} : wire'[n] = wire[n]
        /\ \A j \in Attempts : wire'[m][j] \in Out => j = k
    BY <1>2, <2>2 DEF Wire, Out
  <2> HIDE DEF row
  <2> QED
    BY <1>1, <1>2, <2>1, <2>2, <2>3, BusyWriteKeeps DEF Recorded
<1>4. CASE SendRefused(p)
  <2>1. Record(p, Idle, GivenUp(RowOf(p))) /\ wire' = [wire EXCEPT ![m][k] = "lost"]
    BY <1>4 DEF SendRefused
  <2>2. /\ wire' \in [Messages -> [Attempts -> Wire]]
        /\ \A n \in Messages \ {m} : wire'[n] = wire[n]
        /\ \A j \in Attempts : wire'[m][j] \notin Out
    BY <1>2, <2>1 DEF Wire, Out
  <2> QED
    BY <1>1, <1>2, <2>1, <2>2, GivenUpFacts, BusyWriteKeeps
<1>5. CASE SendUnclear(p)
  <2> DEFINE row == [RowOf(p) EXCEPT !.status = "delivery_unknown"]
  <2>1. CASE Goto(p, Idle)
    BY <1>2, <2>1, StopKeeps
  <2>2. CASE Write(p, Idle, row)
    <3>1. row \in Row /\ row.status = "delivery_unknown" /\ row.attempts = k
      BY <1>2 DEF Row, Statuses, Settled
    <3>2. Record(p, Idle, row) /\ wire' = wire
      BY <2>2 DEF Write
    <3> HIDE DEF row
    <3> QED
      BY <1>1, <1>2, <3>1, <3>2, BusyWriteKeeps DEF Recorded
  <2> QED
    BY <1>5, <2>1, <2>2 DEF SendUnclear
<1> QED
  BY <1>3, <1>4, <1>5 DEF Send

\* The generic pipeline only takes a message without a row.
LEMMA GenericClaimKeeps ==
  ASSUME IInv, NEW p \in Workers, GenericClaim(p)
  PROVE  IInv'
<1>1. /\ worker[p].pc = "generic" /\ worker[p].pc # "idle" /\ TypeOK
      /\ Msg(p) \in Messages /\ RowOf(p) = job[Msg(p)]
  BY HasMessage DEF GenericClaim, IInv, RowOf
<1>2. /\ generic' \subseteq Messages
      /\ \A m \in generic' : job[m].status = "none"
  BY <1>1 DEF GenericClaim, IInv, OneOwner, TypeOK
<1>3. \A q \in Workers : worker'[q] = IF q = p THEN Idle ELSE worker[q]
  BY <1>1 DEF GenericClaim, TypeOK
<1>4. UNCHANGED <<job, human, wire, pass, crashes>>
  BY DEF GenericClaim
<1>5. TypeOK'
  <2>1. worker' \in [Workers -> WorkerState]
    BY <1>1, IdleIsTyped DEF GenericClaim, TypeOK, WorkerState
  <2> QED
    BY <1>1, <1>2, <1>3, <1>4, <2>1, IdleIsTyped DEF TypeOK, WorkerState
<1>6. OneOwner' /\ LiveIsLast'
  BY <1>2, <1>4 DEF IInv, OneOwner, LiveIsLast
<1>7. AskingHolds' /\ SendingHolds' /\ OneAtWork'
  BY <1>3, <1>4, IdleIsTyped
  DEF IInv, AskingHolds, SendingHolds, OneAtWork, Busy, Msg
<1>8. FreshMeansAsRead' /\ PassHolds'
  BY <1>3, <1>4, IdleIsTyped DEF IInv, FreshMeansAsRead, PassHolds, Msg, Workers
<1> QED
  BY <1>5, <1>6, <1>7, <1>8 DEF IInv

\* The sweep writes over the job it listed only while that is free.
LEMMA DisposeKeeps ==
  ASSUME IInv, NEW p \in Workers, worker[p].pc \in {"failDue", "reschedule"},
         NEW status \in {"failed", "retry"},
         Dispose(p, [RowOf(p) EXCEPT !.status = status, !.due = FALSE])
  PROVE  IInv'
<1>1. /\ worker[p].pc # "idle" /\ TypeOK /\ p = Sweeper /\ Idle \in Stops(p)
      /\ Msg(p) \in Messages /\ RowOf(p) \in Row /\ RowOf(p) = job[Msg(p)]
      /\ Msg(p) \notin pass.sending
  BY HasMessage DEF IInv, PassHolds, Stops, RowOf
<1>2. CASE Msg(p) \notin pass.fresh
  BY <1>1, <1>2, StopKeeps DEF Dispose
<1>3. CASE Msg(p) \in pass.fresh
  <2>1. Free(Msg(p)) /\ Msg(p) \notin generic
    BY <1>1, <1>3, FreeRows, RowMeansOwned DEF IInv, PassHolds
  <2>2. [RowOf(p) EXCEPT !.status = status, !.due = FALSE] \in Row
    BY <1>1 DEF Row, Statuses, Settled
  <2> QED
    BY <1>1, <1>3, <2>1, <2>2, StopWriteKeeps DEF Dispose
<1> QED
  BY <1>2, <1>3

LEMMA WorkKeeps ==
  ASSUME IInv, NEW p \in Workers, Work(p)
  PROVE  IInv'
<1>1. CASE FailDue(p)
  BY <1>1, DisposeKeeps DEF FailDue
<1>2. CASE Reschedule(p)
  BY <1>2, DisposeKeeps DEF Reschedule
<1> QED
  BY <1>1, <1>2, ReadRowKeeps, PrepareKeeps, AcquireKeeps, AskKeeps, SendKeeps,
     GenericClaimKeeps DEF Work

-----------------------------------------------------------------------------
(***************************************************************************)
(* The steps of the sweep and of the environment                           *)
(***************************************************************************)
LEMMA BeginPassKeeps ==
  ASSUME IInv, BeginPass
  PROVE  IInv'
<1>1. /\ DueJobs \subseteq Messages /\ pass'.fresh = DueJobs
      /\ pass'.sending = {m \in DueJobs : job[m].status = "sending"}
      /\ pass' \in [todo : SUBSET Messages, sending : SUBSET Messages,
                   fresh : SUBSET Messages]
      /\ worker[Sweeper].pc = "idle"
      /\ UNCHANGED <<job, generic, human, wire, worker, crashes>>
  BY DEF BeginPass, DueJobs
<1>2. TypeOK' /\ OneOwner' /\ LiveIsLast'
  BY <1>1 DEF IInv, TypeOK, OneOwner, LiveIsLast
<1>3. AskingHolds' /\ SendingHolds' /\ OneAtWork' /\ FreshMeansAsRead'
  BY <1>1 DEF IInv, AskingHolds, SendingHolds, OneAtWork, Busy,
              FreshMeansAsRead, Msg, DueJobs, DueRetry
<1>4. PassHolds'
  BY <1>1 DEF IInv, PassHolds, Msg, DueJobs, DueRetry, InFlight
<1> QED
  BY <1>2, <1>3, <1>4 DEF IInv

\* A fresh job is settled as delivery_unknown if it was sending, and as
\* failed if it was free.
LEMMA SettleKeeps ==
  ASSUME IInv, NEW m \in Messages, NEW row \in Row, Settle(m, row),
         m \in pass.fresh =>
           /\ row.attempts = job[m].attempts
           /\ \/ job[m].status = "sending" /\ row.status = "delivery_unknown"
              \/ Free(m)
           /\ job[m].status # "none"
  PROVE  IInv'
<1>1. /\ pass' \in [todo : SUBSET Messages, sending : SUBSET Messages,
                   fresh : SUBSET Messages]
      /\ pass'.fresh = pass.fresh \ {m} /\ pass'.sending = pass.sending
      /\ worker[Sweeper].pc = "idle"
      /\ UNCHANGED <<generic, human, wire, crashes>>
  BY DEF Settle, IInv, TypeOK
<1>2. CASE m \notin pass.fresh
  <2>1. UNCHANGED <<job, worker>>
    BY <1>2 DEF Settle
  <2>2. TypeOK' /\ OneOwner' /\ LiveIsLast'
    BY <1>1, <2>1 DEF IInv, TypeOK, OneOwner, LiveIsLast
  <2>3. AskingHolds' /\ SendingHolds' /\ OneAtWork' /\ FreshMeansAsRead'
    BY <1>1, <2>1 DEF IInv, AskingHolds, SendingHolds, OneAtWork, Busy,
                      FreshMeansAsRead, Msg
  <2>4. PassHolds'
    BY <1>1, <2>1 DEF IInv, PassHolds, Msg
  <2> QED
    BY <2>2, <2>3, <2>4 DEF IInv
<1>3. CASE m \in pass.fresh
  <2> DEFINE new == [row EXCEPT !.aged = FALSE]
  <2>1. new \in Row /\ new.status = row.status /\ new.attempts = row.attempts
    BY DEF Row
  <2>2. /\ job' \in [Messages -> Row] /\ job'[m] = new
        /\ \A n \in Messages \ {m} : job'[n] = job[n]
    BY <1>3, <2>1, ZenonT(30) DEF Settle, IInv, TypeOK
  <2>3. /\ worker' \in [Workers -> WorkerState]
        /\ \A q \in Workers :
             /\ worker'[q].pc = worker[q].pc /\ worker'[q].msg = worker[q].msg
             /\ worker'[q].try = worker[q].try
             /\ worker'[q].prior = worker[q].prior
             /\ worker'[q].fresh => worker[q].fresh /\ worker[q].msg # m
    <3>1. /\ worker \in [Workers -> WorkerState]
          /\ worker' = [q \in Workers |->
               IF Msg(q) = m THEN [worker[q] EXCEPT !.fresh = FALSE]
               ELSE worker[q]]
      BY <1>3 DEF Settle, IInv, TypeOK, WorkerState
    <3>2. \A x \in WorkerState : LET y == [x EXCEPT !.fresh = FALSE] IN
            /\ y \in WorkerState /\ y.pc = x.pc /\ y.msg = x.msg
            /\ y.try = x.try /\ y.prior = x.prior /\ ~y.fresh
      BY DEF WorkerState
    <3> QED
      BY <3>1, <3>2 DEF Msg
  <2>4. \A q \in Workers : worker[q].pc # "idle" => worker[q].msg \in Messages
    BY DEF IInv, TypeOK
  <2> HIDE DEF new
  <2>5. TypeOK'
    BY <1>1, <2>2, <2>3 DEF IInv, TypeOK, WorkerState
  <2>6. OneOwner'
    BY <1>1, <1>3, <2>2 DEF IInv, OneOwner, TypeOK
  <2>7. LiveIsLast'
    BY <1>1, <1>3, <2>1, <2>2 DEF IInv, LiveIsLast, Free, Recorded
  <2>8. AskingHolds'
    BY <1>1, <1>3, <2>2, <2>3, <2>4 DEF IInv, AskingHolds, Msg
  <2>9. SendingHolds'
    BY <1>3, <2>1, <2>2, <2>3, <2>4 DEF IInv, SendingHolds, Msg, Free, Busy
  <2>10. OneAtWork' /\ FreshMeansAsRead'
    BY <2>2, <2>3, <2>4 DEF IInv, OneAtWork, Busy, FreshMeansAsRead, Msg
  <2>11. PassHolds'
    BY <1>1, <2>2, <2>3 DEF IInv, PassHolds, Msg, TypeOK, Workers
  <2> QED
    BY <2>5, <2>6, <2>7, <2>8, <2>9, <2>10, <2>11 DEF IInv
<1> QED
  BY <1>2, <1>3

LEMMA SweepKeeps ==
  ASSUME IInv, Sweep
  PROVE  IInv'
<1>1. CASE BeginPass
  BY <1>1, BeginPassKeeps
<1>2. ASSUME NEW m \in Messages, SweepSending(m)
      PROVE  IInv'
  <2> DEFINE row == [job[m] EXCEPT !.status = "delivery_unknown"]
  <2>1. /\ row \in Row /\ row.status = "delivery_unknown"
        /\ row.attempts = job[m].attempts
    BY DEF IInv, TypeOK, Row, Statuses, Settled
  <2>2. Settle(m, row) /\ (m \in pass.fresh => job[m].status = "sending")
    BY <1>2 DEF SweepSending, IInv, PassHolds
  <2> HIDE DEF row
  <2> QED
    BY <2>1, <2>2, SettleKeeps
<1>3. ASSUME NEW m \in Messages, SweepOrphan(m)
      PROVE  IInv'
  <2> DEFINE row == [job[m] EXCEPT !.status = "failed", !.due = FALSE,
                       !.quota = IF job[m].status = "reserved" THEN "none" ELSE @]
  <2>1. row \in Row /\ row.attempts = job[m].attempts
    <3> DEFINE quota == IF job[m].status = "reserved" THEN "none"
                        ELSE job[m].quota
    <3>1. job[m] \in Row
      BY DEF IInv, TypeOK
    <3>2. quota \in {"none", "held", "assumed", "expired"}
      BY <3>1 DEF Row
    <3>3. row = [job[m] EXCEPT !.status = "failed", !.due = FALSE,
                               !.quota = quota]
      OBVIOUS
    <3> HIDE DEF quota, row
    <3> QED
      BY <3>1, <3>2, <3>3 DEF Row, Statuses, Settled
  <2>2. Settle(m, row)
    BY <1>3 DEF SweepOrphan
  <2>3. m \in pass.fresh => Free(m) /\ job[m].status # "none"
    BY <1>3, FreeRows DEF SweepOrphan, IInv, PassHolds
  <2> HIDE DEF row
  <2> QED
    BY <2>1, <2>2, <2>3, SettleKeeps
<1>4. ASSUME NEW m \in Messages, SweepRoute(m)
      PROVE  IInv'
  <2> DEFINE w == [Idle EXCEPT !.pc = "start", !.msg = m]
  <2>1. /\ w \in WorkerState /\ w.pc = "start" /\ w.msg = m /\ ~w.fresh
    BY GivenIsTyped DEF PCs
  <2>2. worker' = [worker EXCEPT ![Sweeper] = w]
    BY <1>4 DEF SweepRoute
  <2> HIDE DEF w
  <2>3. /\ m # NoMessage /\ m \notin pass.sending
        /\ worker' \in [Workers -> WorkerState]
        /\ \A q \in Workers : worker'[q] = IF q = Sweeper THEN w ELSE worker[q]
    <3>1. worker \in [Workers -> WorkerState]
      BY DEF IInv, TypeOK, WorkerState
    <3>2. m # NoMessage /\ m \notin pass.sending
      BY <1>4, StationAssumption DEF SweepRoute
    <3> QED
      BY <2>1, <2>2, <3>1, <3>2 DEF Workers
  <2>4. /\ pass' \in [todo : SUBSET Messages, sending : SUBSET Messages,
                     fresh : SUBSET Messages]
        /\ pass'.fresh = pass.fresh /\ pass'.sending = pass.sending
        /\ UNCHANGED <<job, generic, human, wire, crashes>>
    BY <1>4 DEF SweepRoute, IInv, TypeOK
  <2>5. TypeOK'
    BY <2>1, <2>3, <2>4 DEF IInv, TypeOK, WorkerState
  <2>6. OneOwner' /\ LiveIsLast' /\ FreshMeansAsRead'
    BY <2>1, <2>3, <2>4 DEF IInv, OneOwner, LiveIsLast, FreshMeansAsRead, Msg
  <2>7. AskingHolds' /\ SendingHolds' /\ OneAtWork'
    BY <2>1, <2>3, <2>4 DEF IInv, AskingHolds, SendingHolds, OneAtWork, Busy, Msg
  <2>8. PassHolds'
    BY <2>1, <2>3, <2>4 DEF IInv, PassHolds, Msg, Workers
  <2> QED
    BY <2>5, <2>6, <2>7, <2>8 DEF IInv
<1> QED
  BY <1>1, <1>2, <1>3, <1>4 DEF Sweep

\* What the environment does: a row may change in all but its status and the
\* number of its attempts, and its lease only run out where nobody asks.
LEMMA RowsAgeKeeps ==
  ASSUME IInv, job' \in [Messages -> Row],
         \A m \in Messages :
           /\ job'[m].status = job[m].status
           /\ job'[m].attempts = job[m].attempts
           /\ job[m].aged => job'[m].aged
           /\ job'[m].aged /\ ~job[m].aged => ~Working(m, {"asking"}),
         UNCHANGED <<generic, human, wire, worker, pass, crashes>>
  PROVE  IInv'
<1>1. TypeOK'
  BY DEF IInv, TypeOK
<1>2. \A q \in Workers : worker[q].pc # "idle" => Msg(q) \in Messages
  BY DEF IInv, TypeOK, Msg
<1>3. OneOwner' /\ LiveIsLast'
  BY DEF IInv, OneOwner, LiveIsLast, TypeOK
<1>4. AskingHolds'
  BY <1>2 DEF IInv, AskingHolds, Msg, Working
<1>5. SendingHolds' /\ OneAtWork' /\ FreshMeansAsRead'
  BY <1>2 DEF IInv, SendingHolds, OneAtWork, Busy, FreshMeansAsRead, Msg
<1>6. PassHolds'
  BY DEF IInv, PassHolds, TypeOK, Msg
<1> QED
  BY <1>1, <1>3, <1>4, <1>5, <1>6 DEF IInv

LEMMA TickKeeps ==
  ASSUME IInv, NEW m \in Messages, Tick(m)
  PROVE  IInv'
<1> USE DEF Row
<1>1. job \in [Messages -> Row]
  BY DEF IInv, TypeOK
<1>2. CASE LeaseExpires(m)
  BY <1>1, <1>2, RowsAgeKeeps DEF LeaseExpires, Working
<1>3. CASE RetryFallsDue(m)
  BY <1>1, <1>3, RowsAgeKeeps DEF RetryFallsDue
<1>4. CASE DayPasses(m)
  BY <1>1, <1>4, RowsAgeKeeps, ZenonT(30) DEF DayPasses
<1>5. CASE QuotaExpires(m)
  BY <1>1, <1>5, RowsAgeKeeps DEF QuotaExpires
<1> QED
  BY <1>2, <1>3, <1>4, <1>5 DEF Tick

LEMMA ArriveKeeps ==
  ASSUME IInv, NEW m \in Messages, NEW k \in Attempts, Arrive(m, k)
  PROVE  IInv'
<1>1. PICK end \in {"taken", "lost"} : wire' = [wire EXCEPT ![m][k] = end]
  BY DEF Arrive
<1>2. /\ wire' \in [Messages -> [Attempts -> Wire]]
      /\ \A n \in Messages, i \in Attempts :
           wire'[n][i] = IF n = m /\ i = k THEN end ELSE wire[n][i]
      /\ UNCHANGED <<job, generic, human, worker, pass, crashes>>
      /\ wire[m][k] \in Out
  BY <1>1 DEF Arrive, IInv, TypeOK, Wire, Out
<1>3. TypeOK' /\ OneOwner' /\ LiveIsLast'
  BY <1>2 DEF IInv, TypeOK, OneOwner, LiveIsLast
<1>4. AskingHolds' /\ SendingHolds' /\ OneAtWork' /\ FreshMeansAsRead'
  BY <1>2 DEF IInv, AskingHolds, SendingHolds, OneAtWork, Busy,
              FreshMeansAsRead, Msg
<1>5. PassHolds'
  BY <1>2 DEF IInv, PassHolds, Msg
<1> QED
  BY <1>3, <1>4, <1>5 DEF IInv

LEMMA HandoverKeeps ==
  ASSUME IInv, UNCHANGED <<job, generic, wire, worker, pass, crashes>>,
         human' \in BOOLEAN
  PROVE  IInv'
  BY DEF IInv, TypeOK, OneOwner, AskingHolds, SendingHolds, OneAtWork, Busy,
         LiveIsLast, FreshMeansAsRead, PassHolds, Msg

\* After a restart nobody works on anything; the rows keep what happened.
LEMMA RestartKeeps ==
  ASSUME IInv, Restart
  PROVE  IInv'
<1>1. \A row \in Row : /\ Backfilled(row) \in Row
                       /\ Backfilled(row).status = row.status
                       /\ Backfilled(row).attempts = row.attempts
  BY DEF Backfilled, Row
<1>2. /\ job' \in [Messages -> Row]
      /\ \A m \in Messages : /\ job'[m].status = job[m].status
                            /\ job'[m].attempts = job[m].attempts
  BY <1>1 DEF Restart, IInv, TypeOK
<1>3. /\ worker' = [p \in Workers |-> Idle] /\ pass' = NoPass
      /\ UNCHANGED <<generic, human, wire>> /\ crashes' \in 0 .. MaxCrashes
  BY StationAssumption DEF Restart, IInv, TypeOK
<1>4. TypeOK'
  BY <1>2, <1>3, IdleIsTyped DEF IInv, TypeOK, WorkerState, NoPass
<1>5. OneOwner' /\ LiveIsLast'
  BY <1>2, <1>3 DEF IInv, TypeOK, OneOwner, LiveIsLast
<1>6. AskingHolds' /\ SendingHolds' /\ OneAtWork' /\ FreshMeansAsRead'
  BY <1>3, IdleIsTyped DEF AskingHolds, SendingHolds, OneAtWork, Busy,
                           FreshMeansAsRead
<1>7. PassHolds'
  BY <1>3, IdleIsTyped DEF PassHolds, NoPass, Workers
<1> QED
  BY <1>4, <1>5, <1>6, <1>7 DEF IInv

-----------------------------------------------------------------------------
(***************************************************************************)
(* The invariant, and what follows from it                                 *)
(***************************************************************************)
LEMMA InitHolds == Init => IInv
<1> SUFFICES ASSUME Init PROVE IInv
  OBVIOUS
<1>1. \A p \in Workers : worker[p] = Idle
  BY DEF Init
<1>2. NoRow \in Row /\ NoRow.status = "none"
  BY StationAssumption DEF NoRow, Row, Statuses
<1>3. TypeOK
  <2>1. job \in [Messages -> Row]
    BY <1>2 DEF Init
  <2>2. generic \subseteq Messages /\ human \in BOOLEAN
    BY DEF Init
  <2>3. crashes \in 0 .. MaxCrashes
    BY StationAssumption DEF Init
  <2>4. worker \in [Workers -> WorkerState]
    BY IdleIsTyped DEF Init
  <2>5. wire \in [Messages -> [Attempts -> Wire]]
    BY DEF Init, Wire
  <2>6. pass \in [todo : SUBSET Messages, sending : SUBSET Messages,
                 fresh : SUBSET Messages]
    BY DEF Init, NoPass
  <2> QED
    BY <1>1, <2>1, <2>4, <2>5, <2>6, <2>2, <2>3, IdleIsTyped
    DEF TypeOK, WorkerState
<1>4. OneOwner /\ LiveIsLast
  BY DEF Init, OneOwner, LiveIsLast, Out
<1>5. AskingHolds /\ SendingHolds /\ OneAtWork /\ FreshMeansAsRead
  BY <1>1, IdleIsTyped DEF AskingHolds, SendingHolds, OneAtWork, Busy,
                           FreshMeansAsRead
<1>6. PassHolds
  BY <1>1, IdleIsTyped DEF Init, PassHolds, NoPass, Workers
<1> QED
  BY <1>3, <1>4, <1>5, <1>6 DEF IInv

LEMMA NextKeeps == IInv /\ [Next]_vars => IInv'
<1> SUFFICES ASSUME IInv, [Next]_vars PROVE IInv'
  OBVIOUS
<1>1. CASE UNCHANGED vars
  BY <1>1, HandoverKeeps DEF vars, IInv, TypeOK
<1>2. ASSUME NEW h \in Handlers, NEW m \in Messages, Start(h, m)
      PROVE  IInv'
  BY <1>2, StartKeeps
<1>3. CASE Handover
  BY <1>3, HandoverKeeps DEF Handover
<1> QED
  BY <1>1, <1>2, <1>3, WorkKeeps, SweepKeeps, TickKeeps, ArriveKeeps,
     RestartKeeps DEF Next

LEMMA Invariance == Spec => []IInv
  BY InitHolds, NextKeeps, PTL DEF Spec

\* Every row, worker and answer stays within its type, whatever handlers,
\* sweep, people and restarts do.
THEOREM TypeCorrect == Spec => []TypeOK
<1>1. IInv => TypeOK
  BY DEF IInv
<1> QED
  BY <1>1, Invariance, PTL

\* However long a send takes and whoever takes its job up meanwhile, an
\* answer that is out or may still arrive stands in a status that nobody
\* resumes (reserveAttempt, claimSending, markDeliveryOutcome).
THEOREM LiveIsRecordedHolds == Spec => []LiveIsRecorded
<1>1. IInv => LiveIsRecorded
  BY DEF IInv, LiveIsLast, LiveIsRecorded, Live, Out, Recorded
<1> QED
  BY <1>1, Invariance, PTL

\* No message is ever claimed by the generic pipeline and the investigator.
THEOREM OneOwnerHolds == Spec => []OneOwner
<1>1. IInv => OneOwner
  BY DEF IInv
<1> QED
  BY <1>1, Invariance, PTL

-----------------------------------------------------------------------------
(***************************************************************************)
(* A finished job stays finished                                           *)
(***************************************************************************)
Final == {"sent", "review", "failed"}

FinalStays == \A m \in Messages : job[m].status \in Final =>
                job'[m].status = job[m].status

\* A write over a job that is not finished leaves the finished ones alone.
LEMMA WriteStays ==
  ASSUME TypeOK, NEW p \in Workers, Msg(p) \in Messages,
         RowOf(p).status \notin Final, NEW row,
         job' = [job EXCEPT ![Msg(p)] = row]
  PROVE  FinalStays
  BY DEF TypeOK, FinalStays, RowOf

LEMMA PrepareStays ==
  ASSUME IInv, NEW p \in Workers, Prepare(p)
  PROVE  FinalStays
<1>1. /\ worker[p].pc = "config" /\ TypeOK /\ Msg(p) \in Messages
      /\ worker[p].fresh => RowOf(p).status = worker[p].prior
  BY HasMessage DEF Prepare, ConfigUnavailable, PolicyDeclines, HumanOwned,
     GenericOwned, KillSwitch, CentralUnavailable, Reserve, ContextFails,
     Resume, Owns, AtConfig, IInv, FreshMeansAsRead, RowOf
<1>2. ASSUME UNCHANGED job PROVE FinalStays
  BY <1>2 DEF FinalStays
<1>3. CASE ConfigUnavailable(p)
  BY <1>1, <1>2, <1>3, WriteStays
  DEF ConfigUnavailable, Write, Record, Decline, Goto, Final
<1>4. CASE PolicyDeclines(p) \/ HumanOwned(p) \/ GenericOwned(p)
  BY <1>2, <1>4 DEF PolicyDeclines, HumanOwned, GenericOwned, Decline, Goto
<1>5. OwnedRow(p) # RowOf(p) => RowOf(p).status = "none"
  BY DEF OwnedRow
<1>6. OwnedRow(p).status = "claimed" => RowOf(p).status \notin Final
  BY <1>5 DEF Final
<1>7. ASSUME OwnAndStop(p) PROVE FinalStays
  BY <1>1, <1>2, <1>5, <1>7, WriteStays
  DEF OwnAndStop, Write, Record, Goto, Final
<1>8. CASE KillSwitch(p)
  BY <1>7, <1>8 DEF KillSwitch
<1>9. CASE CentralUnavailable(p)
  BY <1>1, <1>2, <1>6, <1>9, WriteStays DEF CentralUnavailable, Write, Record, Goto
<1>10. CASE Reserve(p)
  BY <1>1, <1>2, <1>6, <1>7, <1>10, WriteStays, SMTT(30) DEF Reserve, Write, Record, Goto
<1>11. CASE ContextFails(p)
  BY <1>1, <1>2, <1>11, WriteStays DEF ContextFails, Write, Record, Goto, Final
<1>12. CASE Resume(p)
  <2>1. ASSUME Reacquire(p) PROVE FinalStays
    BY <1>1, <2>1 DEF Reacquire, FinalStays, TypeOK, Row
  <2> QED
    BY <1>2, <1>12, <2>1 DEF Resume, Goto
<1> QED
  BY <1>3, <1>4, <1>8, <1>9, <1>10, <1>11, <1>12 DEF Prepare

LEMMA WorkStays ==
  ASSUME IInv, NEW p \in Workers, Work(p)
  PROVE  FinalStays
<1>1. TypeOK /\ (worker[p].pc # "idle" => Msg(p) \in Messages)
  BY HasMessage DEF IInv
<1>2. ASSUME UNCHANGED job PROVE FinalStays
  BY <1>2 DEF FinalStays
<1> USE DEF Write, Record, Goto, Final
<1>3. CASE ReadRow(p)
  BY <1>1, <1>2, <1>3, WriteStays DEF ReadRow, DueRetry, Resumable
<1>4. CASE Acquire(p)
  BY <1>1, <1>2, <1>4, WriteStays DEF Acquire, Acquirable, DueRetry
<1>5. CASE Ask(p)
  <2>1. worker[p].pc = "asking" /\ RowOf(p).status = "processing"
    BY <1>5 DEF Ask, AskFails, AskReview, AskHuman, AskSend, IInv, AskingHolds,
                RowOf
  <2> QED
    BY <1>1, <1>2, <1>5, <2>1, WriteStays
    DEF Ask, AskFails, AskReview, AskHuman, AskSend
<1>6. CASE Send(p)
  <2>1. /\ worker[p].pc = "sending"
        /\ RowOf(p).status \in {"sending", "delivery_unknown"}
    BY <1>6 DEF Send, SendTaken, SendRefused, SendUnclear, IInv, SendingHolds,
                RowOf
  <2> QED
    BY <1>1, <1>2, <1>6, <2>1, WriteStays, SMTT(30)
    DEF Send, SendTaken, SendRefused, SendUnclear
<1>7. CASE GenericClaim(p)
  BY <1>2, <1>7 DEF GenericClaim
<1>8. CASE FailDue(p) \/ Reschedule(p)
  <2>1. worker[p].pc \in {"failDue", "reschedule"}
    BY <1>8 DEF FailDue, Reschedule
  <2>2. Msg(p) \in pass.fresh => RowOf(p).status \notin Final
    BY <2>1 DEF IInv, PassHolds, RowOf
  <2> QED
    BY <1>1, <1>2, <1>8, <2>1, <2>2, WriteStays DEF FailDue, Reschedule, Dispose
<1> QED
  BY <1>3, <1>4, <1>5, <1>6, <1>7, <1>8, PrepareStays DEF Work

LEMMA SettleStays ==
  ASSUME IInv, NEW m \in Messages, NEW row, Settle(m, row)
  PROVE  FinalStays
<1>1. m \in pass.fresh => job[m].status \notin Final
  BY DEF IInv, PassHolds, Final
<1> QED
  BY <1>1 DEF Settle, FinalStays, IInv, TypeOK

LEMMA StepStays ==
  ASSUME IInv, [Next]_vars
  PROVE  FinalStays
<1>1. CASE UNCHANGED job
  BY <1>1 DEF FinalStays
<1>2. CASE Sweep
  BY <1>1, <1>2, SettleStays
  DEF Sweep, BeginPass, SweepSending, SweepOrphan, SweepRoute
<1>3. ASSUME NEW m \in Messages, Tick(m)
      PROVE  FinalStays
  <2> USE DEF FinalStays, Row
  <2>1. job \in [Messages -> Row]
    BY DEF IInv, TypeOK
  <2>2. CASE LeaseExpires(m) \/ RetryFallsDue(m)
    BY <2>1, <2>2 DEF LeaseExpires, RetryFallsDue
  <2>3. CASE DayPasses(m)
    BY <2>1, <2>3 DEF DayPasses
  <2>4. CASE QuotaExpires(m)
    BY <2>1, <2>4 DEF QuotaExpires
  <2> QED
    BY <1>3, <2>2, <2>3, <2>4 DEF Tick
<1>4. CASE Restart
  BY <1>4 DEF Restart, Backfilled, FinalStays, IInv, TypeOK, Row
<1> QED
  BY <1>1, <1>2, <1>3, <1>4, WorkStays
  DEF Next, vars, Start, Goto, Arrive, Handover

\* A worker or a sweep that comes late never overwrites a job that was
\* answered, sent to review or given up: every update is guarded by a status
\* or by the revision it read.
THEOREM FinishedStays == Spec => FinalIsFinal
<1>1. IInv /\ [Next]_vars =>
        [\A m \in Messages : job[m].status \in {"sent", "review", "failed"} =>
           job'[m].status = job[m].status]_vars
  BY StepStays DEF FinalStays, Final
<1> QED
  BY <1>1, Invariance, PTL DEF Spec, FinalIsFinal

-----------------------------------------------------------------------------
(***************************************************************************)
(* The daily limit                                                         *)
(*                                                                         *)
(* dailyLimitReached does not count rows that are still claimed.  None of  *)
(* them has a reservation, and a step reserves for one message, for which  *)
(* it has asked in the same step.                                          *)
(***************************************************************************)
Unclaimed(row) == row.status \in {"none", "claimed"} => row.quota = "none"

Uncharged == \A m \in Messages : Unclaimed(job[m])

Held == {m \in Messages : job[m].quota = "held"}

\* A step keeps the rule, and reserves nothing, or for m below the limit.
Reserves(S) ==
  /\ \A m \in Messages : Unclaimed(job[m])'
  /\ Held' \subseteq Held \cup S

WithinStep ==
  Reserves({}) \/ \E m \in Messages : ~LimitReached(m) /\ Reserves({m})

\* A write that reserves nothing.
LEMMA WriteReserves ==
  ASSUME TypeOK, Uncharged, NEW p \in Workers, Msg(p) \in Messages,
         NEW row \in Row, Unclaimed(row),
         row.quota = "held" => RowOf(p).quota = "held",
         job' = [job EXCEPT ![Msg(p)] = [row EXCEPT !.aged = FALSE]]
  PROVE  WithinStep
<1>1. /\ [row EXCEPT !.aged = FALSE].quota = row.quota
      /\ [row EXCEPT !.aged = FALSE].status = row.status
  BY DEF Row
<1>2. /\ job'[Msg(p)] = [row EXCEPT !.aged = FALSE]
      /\ \A m \in Messages \ {Msg(p)} : job'[m] = job[m]
  BY DEF TypeOK
<1>3. \A m \in Messages : Unclaimed(job[m])'
  BY <1>1, <1>2 DEF Uncharged, Unclaimed
<1>4. Held' \subseteq Held
  BY <1>1, <1>2 DEF Held, RowOf
<1> QED
  BY <1>3, <1>4 DEF WithinStep, Reserves

\* What a worker goes on to write is a row, with the reservation it had.
LEMMA RowEdits ==
  ASSUME NEW row \in Row, NEW s \in Statuses, NEW d \in BOOLEAN
  PROVE  /\ [row EXCEPT !.status = s] \in Row
         /\ [row EXCEPT !.status = s].quota = row.quota
         /\ [row EXCEPT !.status = s].status = s
         /\ [row EXCEPT !.status = s, !.due = d] \in Row
         /\ [row EXCEPT !.status = s, !.due = d].quota = row.quota
         /\ [row EXCEPT !.status = s, !.due = d].status = s
         /\ [row EXCEPT !.status = s, !.quota = "none"] \in Row
         /\ [row EXCEPT !.status = s, !.quota = "none"].quota = "none"
         /\ [row EXCEPT !.quota = "none"] \in Row
         /\ [row EXCEPT !.quota = "none"].quota = "none"
  BY DEF Row

\* Only reserveDailySlot and reacquireDailySlot reserve.
LEMMA PrepareWithin ==
  ASSUME IInv, Uncharged, NEW p \in Workers, Prepare(p)
  PROVE  WithinStep
<1>1. /\ worker[p].pc = "config" /\ TypeOK /\ Msg(p) \in Messages
      /\ worker[p].fresh => RowOf(p).status = worker[p].prior
      /\ RowOf(p) \in Row /\ Unclaimed(RowOf(p)) /\ RowOf(p) = job[Msg(p)]
  BY HasMessage DEF Prepare, ConfigUnavailable, PolicyDeclines, HumanOwned,
     GenericOwned, KillSwitch, CentralUnavailable, Reserve, ContextFails,
     Resume, Owns, AtConfig, IInv, FreshMeansAsRead, RowOf, Uncharged
<1>2. ASSUME UNCHANGED job PROVE WithinStep
  BY <1>2 DEF WithinStep, Reserves, Held, Uncharged
<1>3. ASSUME NEW row \in Row, NEW w, Write(p, w, row), Unclaimed(row),
             row.quota = "held" => RowOf(p).quota = "held"
      PROVE  WithinStep
  BY <1>1, <1>3, WriteReserves DEF Uncharged, Write, Record
<1>4. {"none", "claimed", "retry", "reserved", "failed"} \subseteq Statuses
  BY DEF Statuses, InFlight, Settled
<1>5. /\ OwnedRow(p) \in Row /\ Unclaimed(OwnedRow(p))
      /\ OwnedRow(p).quota = "held" => RowOf(p).quota = "held"
  <2>1. CASE First(p) /\ RowOf(p).status = "none"
    <3> DEFINE new == [NoRow EXCEPT !.status = "claimed"]
    <3>1. /\ NoRow \in Row /\ NoRow.quota = "none"
          /\ "claimed" \in Statuses
      BY <1>4, StationAssumption DEF NoRow, Row
    <3>2. OwnedRow(p) = new
      BY <2>1 DEF OwnedRow
    <3>3. new \in Row /\ new.quota = "none"
      BY <3>1, RowEdits
    <3> HIDE DEF new
    <3> QED
      BY <3>3, <3>2 DEF Unclaimed
  <2>2. CASE ~(First(p) /\ RowOf(p).status = "none")
    <3>1. OwnedRow(p) = RowOf(p)
      BY <2>2 DEF OwnedRow
    <3> QED
      BY <1>1, <3>1
  <2> QED
    BY <2>1, <2>2
<1>6. ASSUME NEW row \in Row
      PROVE  /\ Requeued(row) \in Row /\ Unclaimed(Requeued(row))
             /\ Requeued(row).quota = row.quota
  <2>1. "retry" \in Statuses /\ TRUE \in BOOLEAN
    BY <1>4
  <2>2. /\ [row EXCEPT !.status = "retry", !.due = TRUE] \in Row
        /\ [row EXCEPT !.status = "retry", !.due = TRUE].quota = row.quota
        /\ [row EXCEPT !.status = "retry", !.due = TRUE].status = "retry"
    BY <1>6, <2>1, RowEdits
  <2> QED
    BY <2>2 DEF Requeued, Unclaimed
<1>7. CASE ConfigUnavailable(p)
  BY <1>1, <1>2, <1>3, <1>6, <1>7 DEF ConfigUnavailable, Decline, Goto
<1>8. CASE PolicyDeclines(p) \/ HumanOwned(p) \/ GenericOwned(p)
  BY <1>2, <1>8 DEF PolicyDeclines, HumanOwned, GenericOwned, Decline, Goto
<1>9. ASSUME OwnAndStop(p) PROVE WithinStep
  BY <1>2, <1>3, <1>5, <1>9 DEF OwnAndStop, Goto
<1>10. CASE KillSwitch(p)
  BY <1>9, <1>10 DEF KillSwitch
<1>11. CASE CentralUnavailable(p)
  BY <1>2, <1>3, <1>5, <1>6, <1>11 DEF CentralUnavailable, Goto
<1>12. CASE Reserve(p)
  <2>1. CASE Goto(p, Idle)
    BY <1>2, <2>1 DEF Goto
  <2>2. CASE OwnAndStop(p)
    BY <1>9, <2>2
  <2>3. CASE Write(p, After(p, "failDue"), [OwnedRow(p) EXCEPT !.quota = "none"])
    <3>1. /\ [OwnedRow(p) EXCEPT !.quota = "none"] \in Row
          /\ [OwnedRow(p) EXCEPT !.quota = "none"].quota = "none"
      BY <1>5, <1>4, RowEdits
    <3> QED
      BY <1>3, <2>3, <3>1 DEF Unclaimed
  <2>4. CASE /\ ~LimitReached(Msg(p))
             /\ Write(p, [worker[p] EXCEPT !.pc = "ready"],
                      [OwnedRow(p) EXCEPT !.status = "reserved", !.quota = "held"])
    <3> DEFINE new == [[OwnedRow(p) EXCEPT !.status = "reserved", !.quota = "held"]
                         EXCEPT !.aged = FALSE]
    <3>1. job' = [job EXCEPT ![Msg(p)] = new]
      BY <2>4 DEF Write, Record
    <3>2. new.status = "reserved"
      BY <1>5 DEF Row
    <3> HIDE DEF new
    <3>3. /\ job'[Msg(p)] = new
          /\ \A m \in Messages \ {Msg(p)} : job'[m] = job[m]
      BY <1>1, <3>1 DEF TypeOK
    <3>4. \A m \in Messages : Unclaimed(job[m])'
      BY <3>2, <3>3 DEF Uncharged, Unclaimed
    <3>5. Held' \subseteq Held \cup {Msg(p)}
      BY <3>3 DEF Held
    <3> QED
      BY <1>1, <2>4, <3>4, <3>5 DEF WithinStep, Reserves
  <2> QED
    BY <1>12, <2>1, <2>2, <2>3, <2>4 DEF Reserve
<1>13. CASE ContextFails(p)
  <2>1. /\ [RowOf(p) EXCEPT !.status = "failed", !.quota = "none"] \in Row
        /\ [RowOf(p) EXCEPT !.status = "failed", !.quota = "none"].quota = "none"
    BY <1>1, <1>4, RowEdits
  <2> QED
    BY <1>2, <1>3, <1>13, <2>1 DEF ContextFails, Goto, Unclaimed
<1>14. CASE Resume(p)
  <2>1. CASE /\ worker[p].prior \in {"retry", "reserved", "processing"}
             /\ worker[p].fresh /\ ~LimitReached(Msg(p)) /\ Reacquire(p)
    <3>1. job' = [job EXCEPT ![Msg(p)] = [RowOf(p) EXCEPT !.quota = "held"]]
      BY <2>1 DEF Reacquire, RowOf
    <3>2. /\ job'[Msg(p)].status = RowOf(p).status
          /\ \A m \in Messages \ {Msg(p)} : job'[m] = job[m]
      BY <1>1, <3>1 DEF TypeOK, Row
    <3>3. \A m \in Messages : Unclaimed(job[m])'
      BY <1>1, <2>1, <3>2 DEF Uncharged, Unclaimed
    <3>4. Held' \subseteq Held \cup {Msg(p)}
      BY <3>2 DEF Held
    <3> QED
      BY <1>1, <2>1, <3>3, <3>4 DEF WithinStep, Reserves
  <2>2. CASE UNCHANGED job
    BY <1>2, <2>2
  <2> QED
    BY <1>14, <2>1, <2>2 DEF Resume, Goto
<1> QED
  BY <1>7, <1>8, <1>10, <1>11, <1>12, <1>13, <1>14 DEF Prepare

\* No later step of a worker does.
LEMMA WorkWithin ==
  ASSUME IInv, Uncharged, NEW p \in Workers, Work(p)
  PROVE  WithinStep
<1>1. CASE Prepare(p)
  BY <1>1, PrepareWithin
<1>2. ASSUME UNCHANGED job PROVE WithinStep
  BY <1>2 DEF WithinStep, Reserves, Held, Uncharged
<1>3. worker[p].pc # "idle" =>
        /\ TypeOK /\ Msg(p) \in Messages /\ RowOf(p) \in Row
        /\ Unclaimed(RowOf(p))
  BY HasMessage DEF IInv, Uncharged, RowOf
<1>4. ASSUME worker[p].pc # "idle", NEW row \in Row, NEW w, Record(p, w, row),
             row.quota = RowOf(p).quota, row.status \notin {"none", "claimed"}
      PROVE  WithinStep
  BY <1>3, <1>4, WriteReserves DEF Record, Unclaimed
<1>5. {"failed", "retry", "processing", "sending", "sent", "review",
       "delivery_unknown"} \subseteq Statuses
  BY DEF Statuses, InFlight, Settled
<1>6. ASSUME worker[p].pc # "idle"
      PROVE  /\ GivenUp(RowOf(p)) \in Row
             /\ GivenUp(RowOf(p)).quota = RowOf(p).quota
             /\ GivenUp(RowOf(p)).status \in {"failed", "retry"}
  <2> DEFINE s == IF Exhausted(RowOf(p)) THEN "failed" ELSE "retry"
  <2>1. s \in Statuses /\ s \in {"failed", "retry"}
    BY <1>5
  <2>2. GivenUp(RowOf(p)) = [RowOf(p) EXCEPT !.status = s, !.due = FALSE]
    BY DEF GivenUp
  <2>3. RowOf(p) \in Row /\ FALSE \in BOOLEAN
    BY <1>3, <1>6
  <2> HIDE DEF s
  <2>4. /\ [RowOf(p) EXCEPT !.status = s, !.due = FALSE] \in Row
        /\ [RowOf(p) EXCEPT !.status = s, !.due = FALSE].quota = RowOf(p).quota
        /\ [RowOf(p) EXCEPT !.status = s, !.due = FALSE].status = s
    BY <2>1, <2>3, RowEdits
  <2> QED
    BY <2>1, <2>2, <2>4
<1>7. ASSUME worker[p].pc # "idle",
             NEW s \in {"failed", "sending", "sent", "review", "delivery_unknown"}
      PROVE  /\ [RowOf(p) EXCEPT !.status = s] \in Row
             /\ [RowOf(p) EXCEPT !.status = s].quota = RowOf(p).quota
             /\ [RowOf(p) EXCEPT !.status = s].status = s
  <2>1. RowOf(p) \in Row /\ s \in Statuses /\ FALSE \in BOOLEAN
    BY <1>3, <1>5, <1>7
  <2> QED
    BY <2>1, RowEdits
<1>8. ASSUME worker[p].pc # "idle", NEW s \in {"failed", "retry"}
      PROVE  /\ [RowOf(p) EXCEPT !.status = s, !.due = FALSE] \in Row
             /\ [RowOf(p) EXCEPT !.status = s, !.due = FALSE].quota = RowOf(p).quota
             /\ [RowOf(p) EXCEPT !.status = s, !.due = FALSE].status = s
  <2>1. RowOf(p) \in Row /\ s \in Statuses /\ FALSE \in BOOLEAN
    BY <1>3, <1>5, <1>8
  <2> QED
    BY <2>1, RowEdits
<1>9. CASE ReadRow(p)
  BY <1>2, <1>4, <1>7, <1>8, <1>9 DEF ReadRow, Write, Goto
<1>10. CASE Acquire(p)
  <2> DEFINE row == [RowOf(p) EXCEPT !.status = "processing", !.due = FALSE,
                                     !.attempts = RowOf(p).attempts + 1]
  <2>1. worker[p].pc # "idle"
    BY <1>10 DEF Acquire
  <2>2. ASSUME ~Exhausted(RowOf(p))
        PROVE  /\ row \in Row /\ row.quota = RowOf(p).quota
               /\ row.status = "processing"
    <3>1. RowOf(p).attempts + 1 \in 0 .. MaxAttempts
      BY <1>3, <2>1, <2>2, StationAssumption DEF Exhausted, Row
    <3> QED
      BY <1>3, <1>5, <2>1, <3>1 DEF Row
  <2>3. CASE Acquirable(RowOf(p))
    <3>1. ~Exhausted(RowOf(p))
      BY <2>3 DEF Acquirable
    <3>2. Record(p, [worker[p] EXCEPT !.pc = "asking",
                                      !.try = RowOf(p).attempts + 1], row)
      BY <1>10, <2>3 DEF Acquire, Write
    <3> HIDE DEF row
    <3> QED
      BY <1>4, <2>1, <2>2, <3>1, <3>2
  <2>4. CASE ~Acquirable(RowOf(p))
    BY <1>2, <1>10, <2>4 DEF Acquire, Goto
  <2> QED
    BY <2>3, <2>4
<1>11. CASE Ask(p)
  BY <1>2, <1>4, <1>6, <1>7, <1>11
  DEF Ask, AskFails, AskReview, AskHuman, AskSend, Write, Goto
<1>12. CASE Send(p)
  BY <1>2, <1>4, <1>6, <1>7, <1>12
  DEF Send, SendTaken, SendRefused, SendUnclear, Write, Goto
<1>13. CASE GenericClaim(p)
  BY <1>2, <1>13 DEF GenericClaim
<1>14. CASE FailDue(p) \/ Reschedule(p)
  BY <1>2, <1>4, <1>8, <1>14 DEF FailDue, Reschedule, Dispose, Write, Goto
<1> QED
  BY <1>1, <1>9, <1>10, <1>11, <1>12, <1>13, <1>14 DEF Work

\* The sweep settles jobs, it reserves nothing.
LEMMA SettleWithin ==
  ASSUME IInv, Uncharged, NEW m \in Messages, NEW row \in Row, Settle(m, row),
         row.status \notin {"none", "claimed"},
         row.quota = "held" => job[m].quota = "held"
  PROVE  WithinStep
<1>1. CASE UNCHANGED job
  BY <1>1 DEF WithinStep, Reserves, Held, Uncharged
<1>2. CASE job' = [job EXCEPT ![m] = [row EXCEPT !.aged = FALSE]]
  <2>1. /\ [row EXCEPT !.aged = FALSE].quota = row.quota
        /\ [row EXCEPT !.aged = FALSE].status = row.status
    BY DEF Row
  <2>2. /\ job'[m] = [row EXCEPT !.aged = FALSE]
        /\ \A n \in Messages \ {m} : job'[n] = job[n]
    BY <1>2 DEF IInv, TypeOK
  <2>3. \A n \in Messages : Unclaimed(job[n])'
    BY <2>1, <2>2, ZenonT(30) DEF Uncharged, Unclaimed
  <2>4. Held' \subseteq Held
    BY <2>1, <2>2 DEF Held
  <2> QED
    BY <2>3, <2>4 DEF WithinStep, Reserves
<1> QED
  BY <1>1, <1>2 DEF Settle

\* Nor do the sweep, the clock and a restart: what the migration puts there is
\* no reservation of a day.
LEMMA StepWithin ==
  ASSUME IInv, Uncharged, [Next]_vars
  PROVE  WithinStep
<1>0. job \in [Messages -> Row]
  BY DEF IInv, TypeOK
<1>1. CASE UNCHANGED job
  BY <1>1 DEF WithinStep, Reserves, Held, Uncharged
<1>2. ASSUME NEW m \in Messages, SweepSending(m) \/ SweepOrphan(m)
      PROVE  WithinStep
  <2>1. {"failed", "delivery_unknown"} \subseteq Statuses
    BY DEF Statuses, Settled
  <2>2. CASE SweepSending(m)
    <3> DEFINE row == [job[m] EXCEPT !.status = "delivery_unknown"]
    <3>1. row \in Row /\ row.status = "delivery_unknown" /\ row.quota = job[m].quota
      BY <1>0, <2>1 DEF Row
    <3>2. Settle(m, row)
      BY <2>2 DEF SweepSending
    <3> HIDE DEF row
    <3> QED
      BY <3>1, <3>2, SettleWithin
  <2>3. CASE SweepOrphan(m)
    <3> DEFINE row == [job[m] EXCEPT !.status = "failed", !.due = FALSE,
                         !.quota = IF job[m].status = "reserved" THEN "none"
                                   ELSE job[m].quota]
    <3>1. /\ row \in Row /\ row.status = "failed"
          /\ row.quota \in {"none", job[m].quota}
      BY <1>0, <2>1 DEF Row
    <3>2. Settle(m, row)
      BY <1>0, <2>3 DEF SweepOrphan, Row
    <3> HIDE DEF row
    <3> QED
      BY <3>1, <3>2, SettleWithin
  <2> QED
    BY <1>2, <2>2, <2>3
<1>3. ASSUME NEW m \in Messages, Tick(m)
      PROVE  WithinStep
  <2>1. \A n \in Messages : /\ job'[n].quota = "held" => job[n].quota = "held"
                            /\ Unclaimed(job[n])'
    <3> USE <1>0 DEF Row, Unclaimed, Uncharged, InFlight
    <3>1. CASE LeaseExpires(m) \/ RetryFallsDue(m)
      BY <3>1 DEF LeaseExpires, RetryFallsDue
    <3>2. CASE DayPasses(m)
      BY <3>2 DEF DayPasses
    <3>3. CASE QuotaExpires(m)
      BY <3>3 DEF QuotaExpires
    <3> QED
      BY <1>3, <3>1, <3>2, <3>3 DEF Tick
  <2> QED
    BY <2>1 DEF WithinStep, Reserves, Held
<1>4. CASE Restart
  <2>1. \A row \in Row : /\ Backfilled(row).quota = "held" => row.quota = "held"
                         /\ Unclaimed(row) => Unclaimed(Backfilled(row))
    BY DEF Backfilled, Row, Unclaimed
  <2>2. \A m \in Messages : job'[m] = Backfilled(job[m])
    BY <1>4 DEF Restart
  <2> QED
    BY <1>0, <2>1, <2>2 DEF WithinStep, Reserves, Held, Uncharged
<1> QED
  BY <1>1, <1>2, <1>3, <1>4, WorkWithin
  DEF Next, vars, Start, Goto, Arrive, Handover, Sweep, BeginPass, SweepRoute

\* Below the limit there is room for one more reservation.
LEMMA RoomForOne ==
  ASSUME IInv, Uncharged, NEW m \in Messages, ~LimitReached(m)
  PROVE  /\ IsFiniteSet(Held \cup {m})
         /\ Cardinality(Held \cup {m}) <= DailyLimit
<1> DEFINE others == {n \in Messages \ {m} : Charged(job[n]) /\ job[n].status # "claimed"}
<1>1. IsFiniteSet(others) /\ Cardinality(others) \in Nat
  <2>1. IsFiniteSet(Messages) /\ others \in SUBSET Messages
    BY StationAssumption
  <2> HIDE DEF others
  <2> QED
    BY <2>1, FS_Subset, FS_CardinalityType
<1>2. Cardinality(others) < DailyLimit
  BY <1>1, StationAssumption DEF LimitReached
<1>3. Held \ {m} \subseteq others
  BY DEF Held, Uncharged, Unclaimed, Charged
<1> HIDE DEF others
<1>4. /\ IsFiniteSet(others \cup {m})
      /\ Cardinality(others \cup {m}) <= Cardinality(others) + 1
  BY <1>1, FS_AddElement
<1>5. Held \cup {m} \in SUBSET (others \cup {m})
  BY <1>3
<1>6. /\ IsFiniteSet(Held \cup {m})
      /\ Cardinality(Held \cup {m}) <= Cardinality(others \cup {m})
      /\ Cardinality(Held \cup {m}) \in Nat /\ Cardinality(others \cup {m}) \in Nat
  BY <1>4, <1>5, FS_Subset, FS_CardinalityType
<1> QED
  BY <1>1, <1>2, <1>4, <1>6, StationAssumption

\* However many mentions arrive at once, are retried or resumed, the code never
\* reserves more than dailyLimit of them in a day, the migration's apart:
\* reserveDailySlot and reacquireDailySlot ask and reserve in one transaction.
THEOREM WithinLimitHolds == Spec => []WithinLimit
<1>1. Init => Uncharged /\ WithinLimit
  <2>1. Init => Uncharged /\ Held = {}
    BY DEF Init, NoRow, Uncharged, Unclaimed, Held
  <2> QED
    BY <2>1, FS_EmptySet, StationAssumption DEF WithinLimit, Held
<1>2. IInv /\ Uncharged /\ WithinLimit /\ [Next]_vars => Uncharged' /\ WithinLimit'
  <2> SUFFICES ASSUME IInv, Uncharged, WithinLimit, [Next]_vars
               PROVE  Uncharged' /\ WithinLimit'
    OBVIOUS
  <2>1. WithinStep
    BY StepWithin
  <2>2. IsFiniteSet(Held) /\ Cardinality(Held) <= DailyLimit
    <3>1. IsFiniteSet(Messages) /\ Held \in SUBSET Messages
      BY StationAssumption DEF Held
    <3> QED
      BY <3>1, FS_Subset DEF WithinLimit, Held
  <2>3. ASSUME NEW S, IsFiniteSet(S), Cardinality(S) <= DailyLimit, Held' \subseteq S
        PROVE  WithinLimit'
    <3>1. Held' \in SUBSET S
      BY <2>3
    <3>2. Cardinality(Held') <= DailyLimit
      BY <2>3, <3>1, FS_Subset, FS_CardinalityType, StationAssumption
    <3> QED
      BY <3>2 DEF WithinLimit, Held
  <2>4. CASE Reserves({})
    BY <2>2, <2>3, <2>4 DEF Reserves, Uncharged
  <2>5. ASSUME NEW m \in Messages, ~LimitReached(m), Reserves({m})
        PROVE  Uncharged' /\ WithinLimit'
    BY <2>3, <2>5, RoomForOne DEF Reserves, Uncharged
  <2> QED
    BY <2>1, <2>4, <2>5 DEF WithinStep
<1> QED
  BY <1>1, <1>2, Invariance, PTL DEF Spec

-----------------------------------------------------------------------------
(***************************************************************************)
(* The investigator implements AnswerOnce                                  *)
(***************************************************************************)
\* What the answer of one attempt says to the people of the group.
Word(end) == IF end = "taken" THEN "said"
             ELSE IF end = "flying" THEN "speaking" ELSE "quiet"

\* If at most attempt k is out, it alone decides what has been said.
LEMMA SaidByOne ==
  ASSUME NEW m \in Messages, NEW k \in Attempts,
         \A i \in Attempts \ {k} : wire[m][i] \notin Out
  PROVE  Said(m) = Word(wire[m][k])
<1>1. Live(m) = IF wire[m][k] \in Out THEN {k} ELSE {}
  BY DEF Live, Out
<1> QED
  BY <1>1 DEF Said, Word, Out

LEMMA SaidByOneNext ==
  ASSUME NEW m \in Messages, NEW k \in Attempts,
         \A i \in Attempts \ {k} : wire'[m][i] \notin Out
  PROVE  Said(m)' = Word(wire'[m][k])
<1>1. Live(m)' = IF wire'[m][k] \in Out THEN {k} ELSE {}
  BY DEF Live, Out
<1> QED
  BY <1>1 DEF Said, Word, Out

\* When the answer of the only attempt that may be out changes, so does what
\* has been said of its message, and of no other.
LEMMA OneAnswerChanges ==
  ASSUME TypeOK, NEW m \in Messages, NEW k \in Attempts, NEW end \in Wire,
         \A i \in Attempts \ {k} : wire[m][i] \notin Out,
         wire' = [wire EXCEPT ![m][k] = end]
  PROVE  /\ Said(m) = Word(wire[m][k])
         /\ [n \in Messages |-> Said(n)'] =
              [[n \in Messages |-> Said(n)] EXCEPT ![m] = Word(end)]
<1>1. \A n \in Messages, i \in Attempts :
        wire'[n][i] = IF n = m /\ i = k THEN end ELSE wire[n][i]
  BY DEF TypeOK
<1>2. Said(m)' = Word(end)
  BY <1>1, SaidByOneNext
<1>3. \A n \in Messages \ {m} : Said(n)' = Said(n)
  BY <1>1 DEF Said, Live
<1> QED
  BY <1>2, <1>3, SaidByOne

\* A step that touches no answer and no owner is a stutter.
LEMMA Silent ==
  ASSUME UNCHANGED <<wire, human>>
  PROVE  UNCHANGED Answers!vars
  BY DEF Answers!vars, Said, Live

\* Only sends touch them.
LEMMA OnlySendsSpeak ==
  ASSUME NEW p \in Workers, Work(p),
         ~AskSend(p), ~SendTaken(p), ~SendRefused(p)
  PROVE  UNCHANGED <<wire, human>>
<1> USE DEF Goto, Write, Record
<1>1. CASE ReadRow(p)
  BY <1>1 DEF ReadRow
<1>2. CASE Prepare(p)
  BY <1>2 DEF Prepare, ConfigUnavailable, PolicyDeclines, HumanOwned,
     GenericOwned, KillSwitch, CentralUnavailable, Reserve, ContextFails,
     Resume, Reacquire, Decline, OwnAndStop
<1>3. CASE Acquire(p) \/ GenericClaim(p)
  BY <1>3 DEF Acquire, GenericClaim
<1>4. CASE AskFails(p) \/ AskReview(p) \/ AskHuman(p) \/ SendUnclear(p)
  BY <1>4 DEF AskFails, AskReview, AskHuman, SendUnclear
<1>5. CASE FailDue(p) \/ Reschedule(p)
  BY <1>5 DEF FailDue, Reschedule, Dispose
<1> QED
  BY <1>1, <1>2, <1>3, <1>4, <1>5 DEF Work, Ask, Send

\* A send begins only for the last attempt of a row that is "processing":
\* none of its answers is out.
LEMMA AskSendSpeaks ==
  ASSUME IInv, NEW p \in Workers, AskSend(p)
  PROVE  Answers!Next
<1> DEFINE m == Msg(p)  k == worker[p].try
<1>1. /\ m \in Messages /\ k \in Attempts /\ job[m].status = "processing"
      /\ ~human
  BY HasMessage DEF IInv, AskingHolds, AskSend
<1>2. wire' = [wire EXCEPT ![m][k] = "flying"] /\ UNCHANGED human
  BY <1>1 DEF AskSend, RowOf, Record
<1>3. \A i \in Attempts : wire[m][i] \notin Out
  BY <1>1 DEF IInv, LiveIsLast, Recorded
<1>4. TypeOK /\ "flying" \in Wire
  BY DEF IInv, Wire
<1> HIDE DEF m, k
<1>5. /\ Said(m) = Word(wire[m][k])
      /\ [n \in Messages |-> Said(n)'] =
           [[n \in Messages |-> Said(n)] EXCEPT ![m] = Word("flying")]
  BY <1>1, <1>2, <1>3, <1>4, OneAnswerChanges
<1>6. Answers!Speak(m)
  BY <1>1, <1>2, <1>3, <1>5 DEF Answers!Speak, Word, Out
<1> QED
  BY <1>1, <1>6 DEF Answers!Next

\* An answer that comes to its end, told to its sender or not.
LEMMA EndsAnswer ==
  ASSUME IInv, NEW m \in Messages, NEW k \in Attempts,
         NEW end \in {"taken", "lost"}, k = job[m].attempts,
         wire[m][k] \in {"flying", end},
         wire' = [wire EXCEPT ![m][k] = end], UNCHANGED human
  PROVE  [Answers!Next]_(Answers!vars)
<1>1. TypeOK /\ end \in Wire
  BY DEF IInv, Wire
<1>2. \A i \in Attempts \ {k} : wire[m][i] \notin Out
  BY DEF IInv, LiveIsLast
<1>3. /\ Said(m) = Word(wire[m][k])
      /\ [n \in Messages |-> Said(n)'] =
           [[n \in Messages |-> Said(n)] EXCEPT ![m] = Word(end)]
  BY <1>1, <1>2, OneAnswerChanges
<1>4. CASE wire[m][k] = end
  <2>1. [n \in Messages |-> Said(n)'] = [n \in Messages |-> Said(n)]
    BY <1>3, <1>4
  <2> QED
    BY <2>1 DEF Answers!vars
<1>5. CASE wire[m][k] = "flying"
  <2>1. Answers!Arrive(m)
    BY <1>3, <1>5 DEF Answers!Arrive, Word
  <2> QED
    BY <2>1 DEF Answers!Next
<1> QED
  BY <1>4, <1>5

LEMMA WorkRefines ==
  ASSUME IInv, NEW p \in Workers, Work(p)
  PROVE  [Answers!Next]_(Answers!vars)
<1>1. CASE AskSend(p)
  BY <1>1, AskSendSpeaks
<1>2. CASE SendTaken(p) \/ SendRefused(p)
  <2> DEFINE m == Msg(p)  k == worker[p].try
  <2>1. m \in Messages /\ k \in Attempts /\ k = job[m].attempts
    BY <1>2, HasMessage DEF IInv, SendingHolds, SendTaken, SendRefused
  <2>2. PICK end \in {"taken", "lost"} :
          /\ wire[m][k] \in {"flying", end}
          /\ wire' = [wire EXCEPT ![m][k] = end] /\ UNCHANGED human
    BY <1>2 DEF SendTaken, SendRefused, Record
  <2> HIDE DEF m, k
  <2> QED
    BY <2>1, <2>2, EndsAnswer
<1>3. CASE ~AskSend(p) /\ ~SendTaken(p) /\ ~SendRefused(p)
  BY <1>3, OnlySendsSpeak, Silent
<1> QED
  BY <1>1, <1>2, <1>3

LEMMA StepRefines == IInv /\ [Next]_vars => [Answers!Next]_(Answers!vars)
<1> SUFFICES ASSUME IInv, [Next]_vars PROVE [Answers!Next]_(Answers!vars)
  OBVIOUS
<1>1. CASE UNCHANGED vars
  BY <1>1, Silent DEF vars
<1>2. ASSUME NEW h \in Handlers, NEW m \in Messages, Start(h, m)
      PROVE  UNCHANGED Answers!vars
  BY <1>2, Silent DEF Start, Goto
<1>3. CASE Sweep
  BY <1>3, Silent
  DEF Sweep, BeginPass, SweepSending, SweepOrphan, SweepRoute, Settle
<1>4. ASSUME NEW m \in Messages, Tick(m)
      PROVE  UNCHANGED Answers!vars
  BY <1>4, Silent DEF Tick, LeaseExpires, RetryFallsDue, DayPasses, QuotaExpires
<1>5. ASSUME NEW m \in Messages, NEW k \in Attempts, Arrive(m, k)
      PROVE  [Answers!Next]_(Answers!vars)
  <2>1. k = job[m].attempts
    BY <1>5 DEF IInv, LiveIsLast, Arrive, Out
  <2> QED
    BY <1>5, <2>1, EndsAnswer DEF Arrive
<1>6. CASE Handover
  <2>1. [n \in Messages |-> Said(n)'] = [n \in Messages |-> Said(n)]
    BY <1>6 DEF Handover, Said, Live
  <2> QED
    BY <1>6, <2>1 DEF Handover, Answers!Next, Answers!Handover
<1>7. CASE Restart
  BY <1>7, Silent DEF Restart
<1> QED
  BY <1>1, <1>2, <1>3, <1>4, <1>5, <1>6, <1>7, WorkRefines DEF Next

LEMMA InitRefines == Init => Answers!Init
<1> SUFFICES ASSUME Init PROVE Answers!Init
  OBVIOUS
<1>1. \A m \in Messages : Live(m) = {}
  BY DEF Init, Live
<1>2. [m \in Messages |-> Said(m)] = [m \in Messages |-> "quiet"]
  BY <1>1 DEF Said
<1> QED
  BY <1>2 DEF Init, Answers!Init

\* The webhook handlers, their replays, the sweep and any number of restarts
\* together answer a message at most once, and begin no answer in a
\* conversation that a person owns.
THEOREM AnswersOnceHolds == Spec => AnswersOnce
  BY InitRefines, StepRefines, Invariance, PTL
  DEF Spec, AnswersOnce, Answers!Spec
=============================================================================
