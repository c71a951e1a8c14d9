------------------------- MODULE AlertDeliveryProofs -------------------------
(***************************************************************************)
(* What holds of AlertDelivery for any number of alerts, of overlapping    *)
(* ticks, of faults and of restarts: its type correctness, that an alert   *)
(* marked as sent was really delivered, that nobody reads an alert twice   *)
(* that no two ticks had in hand at once, and that a message on record is  *)
(* only replaced over what the tick has not read.                          *)
(***************************************************************************)
EXTENDS AlertDelivery, TLAPS

-----------------------------------------------------------------------------
(***************************************************************************)
(* The inductive invariant                                                 *)
(***************************************************************************)

Msg  == [alert : Alerts, status : Status]
Msgs == {ms \in Seq(Msg) : Len(ms) <= MaxMsgs}

\* The ids a row or a tick may hold for alert a.
IdsOf(a, ms) == {NoMsg} \cup {m \in 1 .. Len(ms) : ms[m].alert = a}

Delivered(a, ms) ==
  \E m \in DOMAIN ms : ms[m].alert = a /\ ms[m].status = "sent"

\* A row: its id belongs to its alert, and sent means delivered.
GoodRow(r, a, ms) == r.wa \in IdsOf(a, ms) /\ (r.sent => Delivered(a, ms))

\* A tick: the ids it read belong to their alerts; what it saw as sent is
\* sent; it posts an alert, and waits for a message of that alert.
GoodTick(r, ms) ==
  /\ \A a \in Alerts :
       /\ r.wa[a] \in IdsOf(a, ms)
       /\ r.seen[a] = "sent" => r.wa[a] # NoMsg /\ ms[r.wa[a]].status = "sent"
  /\ r.pc \in {"post", "confirm"} => r.cur \in Alerts
  /\ r.pc = "confirm" => r.msg \in 1 .. Len(ms) /\ ms[r.msg].alert = r.cur

IInv ==
  /\ TypeOK
  /\ \A a \in Alerts : GoodRow(table[a], a, msgs)
  /\ \A t \in Ticks : GoodTick(tick[t], msgs)
  /\ lost <= faults

\* Messages are only added, keep their alert, and stay sent.
Grow(ms, ns) ==
  /\ Len(ms) <= Len(ns)
  /\ \A m \in 1 .. Len(ms) :
       /\ ns[m].alert = ms[m].alert
       /\ ms[m].status = "sent" => ns[m].status = "sent"

-----------------------------------------------------------------------------
(***************************************************************************)
(* Messages                                                                *)
(***************************************************************************)

\* Appending a pending message of an alert is growth.
LEMMA AppendGrows ==
  ASSUME NEW ms \in Msgs, NEW a \in Alerts, Len(ms) < MaxMsgs
  PROVE  LET ns == Append(ms, [alert |-> a, status |-> "pending"])
         IN  /\ ns \in Msgs /\ Grow(ms, ns)
             /\ Len(ns) = Len(ms) + 1 /\ ns[Len(ms) + 1].alert = a
  BY DeliveryAssumption DEF Msgs, Msg, Grow, Status

\* So is resolving a pending message.
LEMMA ResolveGrows ==
  ASSUME NEW ms \in Msgs, NEW m \in DOMAIN ms, NEW s \in {"sent", "failed"},
         ms[m].status = "pending"
  PROVE  [ms EXCEPT ![m].status = s] \in Msgs
         /\ Grow(ms, [ms EXCEPT ![m].status = s])
<1> DEFINE ns == [ms EXCEPT ![m].status = s]
<1>1. ms \in Seq(Msg) /\ m \in 1 .. Len(ms)
  BY DEF Msgs
<1>2. [ms[m] EXCEPT !.status = s] \in Msg
  <2>1. ms[m] \in Msg
    BY <1>1
  <2> QED
    BY <2>1 DEF Msg, Status
<1>3. ns \in Seq(Msg) /\ Len(ns) = Len(ms)
  BY <1>1, <1>2
<1>4. Grow(ms, ns)
  BY <1>1, <1>3 DEF Grow
<1> QED
  BY <1>3, <1>4 DEF Msgs

\* What is good of a row stays good while messages grow.
LEMMA RowSurvives ==
  ASSUME NEW ms \in Msgs, NEW ns \in Msgs, Grow(ms, ns),
         NEW a \in Alerts, NEW r \in Row, GoodRow(r, a, ms)
  PROVE  GoodRow(r, a, ns)
<1>1. Len(ms) \in Nat /\ Len(ns) \in Nat
  BY DEF Msgs
<1>2. IdsOf(a, ms) \subseteq IdsOf(a, ns)
  BY <1>1 DEF Grow, IdsOf
<1>3. Delivered(a, ms) => Delivered(a, ns)
  BY <1>1 DEF Grow, Delivered, Msgs
<1> QED
  BY <1>2, <1>3 DEF GoodRow

\* And so does what is good of a tick.
LEMMA TickSurvives ==
  ASSUME NEW ms \in Msgs, NEW ns \in Msgs, Grow(ms, ns),
         NEW r \in TickState, GoodTick(r, ms)
  PROVE  GoodTick(r, ns)
<1>1. Len(ms) \in Nat /\ Len(ns) \in Nat
  BY DEF Msgs
<1>2. ASSUME NEW a \in Alerts
      PROVE  /\ r.wa[a] \in IdsOf(a, ns)
             /\ r.seen[a] = "sent" =>
                  r.wa[a] # NoMsg /\ ns[r.wa[a]].status = "sent"
  BY <1>1 DEF Grow, IdsOf, GoodTick, NoMsg
<1>3. r.pc = "confirm" => r.msg \in 1 .. Len(ns) /\ ns[r.msg].alert = r.cur
  BY <1>1 DEF Grow, GoodTick
<1> QED
  BY <1>2, <1>3 DEF GoodTick

-----------------------------------------------------------------------------
(***************************************************************************)
(* The initial state and the actions                                       *)
(***************************************************************************)

\* An idle tick is well formed whatever the messages.
LEMMA IdleIsGood ==
  ASSUME NEW ms \in Msgs
  PROVE  Idle \in TickState /\ GoodTick(Idle, ms)
  BY DeliveryAssumption
     DEF Idle, TickState, GoodTick, IdsOf, NoMsg, MsgId, Status

\* The initial state satisfies the invariant.
LEMMA InitIInv == Init => IInv
<1> SUFFICES ASSUME Init PROVE IInv
  OBVIOUS
<1> USE DeliveryAssumption
<1>1. msgs \in Msgs
  BY DEF Init, Msgs
<1>2. \A t \in Ticks : tick[t] = Idle
  BY DEF Init
<1>3. \A t \in Ticks : tick[t] \in TickState /\ GoodTick(tick[t], msgs)
  BY <1>1, <1>2, IdleIsGood
<1>4. TypeOK
  BY <1>3 DEF Init, TypeOK, Row, MsgId, NoMsg
<1>5. \A a \in Alerts : GoodRow(table[a], a, msgs)
  BY DEF Init, GoodRow, IdsOf, NoMsg
<1>6. lost <= faults
  BY DEF Init
<1> QED
  BY <1>3, <1>4, <1>5, <1>6 DEF IInv

\* A step in which tick t moves to a good state, and the messages grow,
\* leaves every tick good.
LEMMA GotoKeepsTicks ==
  ASSUME TypeOK, \A u \in Ticks : GoodTick(tick[u], msgs),
         msgs' \in Msgs, Grow(msgs, msgs'),
         NEW t \in Ticks, tick'[t] \in TickState, GoodTick(tick'[t], msgs'),
         tick' = [tick EXCEPT ![t] = tick'[t]]
  PROVE  /\ tick' \in [Ticks -> TickState]
         /\ \A u \in Ticks : GoodTick(tick'[u], msgs')
<1>1. msgs \in Msgs /\ tick \in [Ticks -> TickState]
  BY DEF TypeOK, Msgs, Msg
<1>2. tick' \in [Ticks -> TickState]
  BY <1>1
<1>3. ASSUME NEW u \in Ticks, u # t PROVE GoodTick(tick'[u], msgs')
  <2>1. tick'[u] = tick[u]
    BY <1>3, <1>1
  <2> QED
    BY <2>1, <1>1, <1>3, TickSurvives
<1> QED
  BY <1>2, <1>3

-----------------------------------------------------------------------------
(***************************************************************************)
(* One lemma per kind of step                                              *)
(***************************************************************************)

\* Steps that only move a tick: what it goes on with it has read or checked.
LEMMA TickMoves ==
  ASSUME IInv, NEW t \in Ticks, NEW a,
         \/ BeginTick(t) \/ FetchStatuses(t) \/ EndTick(t)
         \/ SkipRow(t, a) \/ Resend(t, a) \/ DropStale(t, a)
  PROVE  IInv'
<1> USE DeliveryAssumption DEF Goto
<1>1. /\ tick \in [Ticks -> TickState] /\ tick[t] \in TickState
      /\ GoodTick(tick[t], msgs) /\ msgs \in Msgs /\ Grow(msgs, msgs)
  BY DEF IInv, TypeOK, Msgs, Msg, Grow
<1>2. UNCHANGED <<clock, table, msgs, detected, crashes, lost>>
  BY DEF BeginTick, FetchStatuses, EndTick, SkipRow, Resend, DropStale
<1>raced. raced' \subseteq Alerts
  BY DEF IInv, TypeOK, BeginTick, Unsent, FetchStatuses, EndTick, SkipRow, Resend,
         DropStale
<1>3. faults' \in 0 .. MaxFaults /\ faults <= faults'
  BY DEF IInv, TypeOK, BeginTick, FetchStatuses, EndTick, SkipRow, Resend,
         DropStale, Fault
<1>4. /\ tick' = [tick EXCEPT ![t] = tick'[t]]
      /\ tick'[t] \in TickState
      /\ GoodTick(tick'[t], msgs)
  <2>1. CASE BeginTick(t)
    <3> DEFINE ids == [b \in Alerts |-> table[b].wa]
    <3>1. tick'[t] = [Idle EXCEPT
            !.pc = IF Unsent = {} THEN "detect" ELSE "fetch",
            !.rows = Unsent, !.wa = ids]
      BY <1>1, <2>1 DEF BeginTick
    <3>2. Unsent \in SUBSET Alerts
      BY DEF Unsent
    <3>3. \A b \in Alerts : /\ table[b].wa \in MsgId \cup {NoMsg}
                            /\ table[b].wa \in IdsOf(b, msgs)
      BY DEF IInv, TypeOK, Row, GoodRow
    <3>4. /\ ids \in [Alerts -> MsgId \cup {NoMsg}]
          /\ \A b \in Alerts : ids[b] \in IdsOf(b, msgs)
      BY <3>3
    <3> HIDE DEF ids
    <3>5. tick'[t] \in TickState
      BY <1>1, <3>1, <3>2, <3>4, IdleIsGood, ZenonT(30) DEF TickState
    <3>6. GoodTick(tick'[t], msgs)
      BY <3>1, <3>4 DEF Idle, GoodTick
    <3> QED
      BY <1>1, <2>1, <3>5, <3>6 DEF BeginTick
  <2>2. CASE FetchStatuses(t)
    <3> DEFINE seen == [b \in Alerts |-> IF b \in tick[t].rows
                                        THEN StatusOf(tick[t].wa[b])
                                        ELSE "unknown"]
    <3>1. ASSUME NEW b \in Alerts
          PROVE  /\ seen[b] \in Status \cup {"unknown"}
                 /\ seen[b] = "sent" => /\ tick[t].wa[b] # NoMsg
                                        /\ msgs[tick[t].wa[b]].status = "sent"
      <4>1. tick[t].wa[b] \in IdsOf(b, msgs)
        BY <1>1 DEF GoodTick
      <4>2. ASSUME NEW m \in 1 .. Len(msgs) PROVE msgs[m].status \in Status
        <5>1. msgs[m] \in Msg
          BY <1>1 DEF Msgs
        <5> QED
          BY <5>1 DEF Msg
      <4>3. CASE tick[t].wa[b] = NoMsg
        BY <4>3 DEF StatusOf
      <4>4. CASE tick[t].wa[b] \in 1 .. Len(msgs)
        BY <4>2, <4>4, <1>1 DEF StatusOf, NoMsg, Msgs
      <4> QED
        <5>1. tick[t].wa[b] = NoMsg \/ tick[t].wa[b] \in 1 .. Len(msgs)
          BY <4>1 DEF IdsOf
        <5> QED
          BY <5>1, <4>3, <4>4
    <3>2. seen \in [Alerts -> Status \cup {"unknown"}]
      BY <3>1
    <3>3. PICK new \in {[tick[t] EXCEPT !.pc = "retry"],
                        [tick[t] EXCEPT !.pc = "retry", !.seen = seen]} :
                 tick' = [tick EXCEPT ![t] = new]
      BY <2>2 DEF FetchStatuses
    <3>4. \A b \in Alerts :
            seen[b] = "sent" => /\ tick[t].wa[b] # NoMsg
                                /\ msgs[tick[t].wa[b]].status = "sent"
      BY <3>1
    <3> HIDE DEF seen
    <3>5. CASE new = [tick[t] EXCEPT !.pc = "retry"]
      BY <1>1, <3>3, <3>5, ZenonT(30) DEF TickState, GoodTick
    <3>6. CASE new = [tick[t] EXCEPT !.pc = "retry", !.seen = seen]
      <4>1. new \in TickState
        BY <1>1, <3>2, <3>6 DEF TickState
      <4>2. /\ new.wa = tick[t].wa /\ new.seen = seen /\ new.pc = "retry"
        BY <1>1, <3>6 DEF TickState
      <4>3. GoodTick(new, msgs)
        BY <1>1, <3>4, <4>2 DEF GoodTick
      <4> QED
        BY <1>1, <3>3, <4>1, <4>3
    <3> QED
      BY <3>3, <3>5, <3>6
  <2>3. CASE EndTick(t)
    BY <1>1, <2>3, IdleIsGood DEF EndTick
  <2>4. CASE SkipRow(t, a)
    <3>1. tick' = [tick EXCEPT ![t] = [tick[t] EXCEPT !.rows = tick[t].rows \ {a}]]
      BY <1>1, <2>4 DEF SkipRow
    <3> QED
      BY <1>1, <3>1 DEF TickState, GoodTick
  <2>5. CASE Resend(t, a)
    <3>1. tick' = [tick EXCEPT ![t] = [tick[t] EXCEPT
                     !.pc = "post", !.back = "retry", !.cur = a,
                     !.rows = tick[t].rows \ {a}, !.posts = tick[t].posts + 1]]
      BY <1>1, <2>5 DEF Resend
    <3>2. tick[t].posts + 1 \in 0 .. RetryLimit /\ a \in Alerts
      BY <1>1, <2>5 DEF Resend, NextRow, TickState
    <3> QED
      BY <1>1, <3>1, <3>2, ZenonT(30) DEF TickState, GoodTick
  <2>6. CASE DropStale(t, a)
    <3>1. tick' = [tick EXCEPT ![t] = [tick[t] EXCEPT !.todo = tick[t].todo \ {a}]]
      BY <1>1, <2>6 DEF DropStale
    <3> QED
      BY <1>1, <3>1 DEF TickState, GoodTick
  <2> QED
    BY <2>1, <2>2, <2>3, <2>4, <2>5, <2>6
<1>5. tick' \in [Ticks -> TickState] /\ \A u \in Ticks : GoodTick(tick'[u], msgs')
  BY <1>1, <1>2, <1>4, GotoKeepsTicks DEF IInv
<1> QED
  BY <1>2, <1>raced, <1>3, <1>5 DEF IInv, TypeOK

\* Steps that write the table.
LEMMA TableWrites ==
  ASSUME IInv, NEW t \in Ticks, NEW a,
         Detect(t) \/ LateConfirm(t, a) \/ SaveAndPost(t, a)
  PROVE  IInv'
<1> USE DeliveryAssumption DEF Goto
<1>1. /\ tick \in [Ticks -> TickState] /\ tick[t] \in TickState
      /\ GoodTick(tick[t], msgs) /\ msgs \in Msgs /\ Grow(msgs, msgs)
      /\ table \in [Alerts -> Row]
  BY DEF IInv, TypeOK, Msgs, Msg, Grow
<1>2. UNCHANGED <<clock, msgs, crashes, lost, raced>>
  BY DEF Detect, LateConfirm, SaveAndPost
<1>3. faults' \in 0 .. MaxFaults /\ faults <= faults'
  <2>1. faults \in 0 .. MaxFaults
    BY DEF IInv, TypeOK
  <2>2. faults' = faults \/ (faults < MaxFaults /\ faults' = faults + 1)
    BY DEF Detect, LateConfirm, SaveAndPost, Fault
  <2> QED
    BY <2>1, <2>2
<1>4. detected' \subseteq Alerts
  BY DEF IInv, TypeOK, Detect, LateConfirm, SaveAndPost
<1>in. LateConfirm(t, a) \/ SaveAndPost(t, a) => a \in Alerts
  BY <1>1 DEF LateConfirm, SaveAndPost, NextRow, TickState
<1>5. /\ table' \in [Alerts -> Row]
      /\ \A b \in Alerts : GoodRow(table'[b], b, msgs)
  <2>1. CASE Detect(t)
    <3>1. PICK new \in SUBSET Alerts :
            table' = [b \in Alerts |-> IF b \in new
                                      THEN [table[b] EXCEPT !.created = clock]
                                      ELSE table[b]]
      BY <2>1 DEF Detect
    <3>2. clock \in 0 .. MaxTime
      BY DEF IInv, TypeOK
    <3> QED
      BY <1>1, <3>1, <3>2 DEF Row, IInv, GoodRow
  <2>2. CASE LateConfirm(t, a)
    <3>1. tick[t].wa[a] \in 1 .. Len(msgs) /\ msgs[tick[t].wa[a]].alert = a
      BY <1>1, <1>in, <2>2 DEF LateConfirm, GoodTick, IdsOf, NoMsg
    <3>2. msgs[tick[t].wa[a]].status = "sent"
      BY <1>1, <1>in, <2>2 DEF LateConfirm, GoodTick
    <3>3. Delivered(a, msgs)
      BY <1>1, <3>1, <3>2 DEF Delivered, Msgs
    <3> QED
      BY <1>1, <1>in, <2>2, <3>3, ZenonT(30) DEF LateConfirm, Row, IInv, GoodRow
  <2>3. CASE SaveAndPost(t, a)
    <3>1. table' = table \/ table' = [table EXCEPT ![a].saved = TRUE]
      BY <2>3 DEF SaveAndPost
    <3>2. \A b \in Alerts : GoodRow(table[b], b, msgs)
      BY DEF IInv
    <3>3. [table[a] EXCEPT !.saved = TRUE] \in Row
      BY <1>1, <1>in, <2>3 DEF Row
    <3>4. GoodRow([table[a] EXCEPT !.saved = TRUE], a, msgs)
      BY <1>1, <1>in, <2>3, <3>2 DEF Row, GoodRow
    <3> QED
      BY <1>1, <3>1, <3>2, <3>3, <3>4
  <2> QED
    BY <2>1, <2>2, <2>3
<1>6. /\ tick' = [tick EXCEPT ![t] = tick'[t]]
      /\ tick'[t] \in TickState
      /\ GoodTick(tick'[t], msgs)
  <2>1. CASE Detect(t)
    <3>1. PICK new \in SUBSET Alerts :
            tick' = [tick EXCEPT ![t] =
                       IF new = {} THEN Idle
                       ELSE [Idle EXCEPT !.pc = "dispatch", !.todo = new]]
      BY <2>1 DEF Detect
    <3>2. CASE new = {}
      BY <1>1, <3>1, <3>2, IdleIsGood
    <3>3. CASE new # {}
      <4>1. tick'[t] = [Idle EXCEPT !.pc = "dispatch", !.todo = new]
        BY <1>1, <3>1, <3>3
      <4>2. tick'[t] \in TickState
        BY <1>1, <4>1, IdleIsGood, ZenonT(30) DEF TickState
      <4>3. GoodTick(tick'[t], msgs)
        BY <4>1 DEF Idle, GoodTick, IdsOf
      <4> QED
        BY <1>1, <3>1, <4>2, <4>3
    <3> QED
      BY <3>2, <3>3
  <2>2. CASE LateConfirm(t, a)
    <3>1. tick' = [tick EXCEPT ![t] = [tick[t] EXCEPT !.rows = tick[t].rows \ {a}]]
      BY <1>1, <2>2 DEF LateConfirm
    <3> QED
      BY <1>1, <3>1 DEF TickState, GoodTick
  <2>3. CASE SaveAndPost(t, a)
    <3>1. \/ tick' = [tick EXCEPT ![t] = [tick[t] EXCEPT
                       !.todo = tick[t].todo \ {a}]]
          \/ tick' = [tick EXCEPT ![t] = [tick[t] EXCEPT
                       !.pc = "post", !.back = "dispatch", !.cur = a,
                       !.todo = tick[t].todo \ {a}]]
      BY <1>1, <2>3 DEF SaveAndPost
    <3>2. CASE tick' = [tick EXCEPT ![t] = [tick[t] EXCEPT
                          !.todo = tick[t].todo \ {a}]]
      BY <1>1, <3>2 DEF TickState, GoodTick
    <3>3. CASE tick' = [tick EXCEPT ![t] = [tick[t] EXCEPT
                          !.pc = "post", !.back = "dispatch", !.cur = a,
                          !.todo = tick[t].todo \ {a}]]
      BY <1>1, <1>in, <2>3, <3>3, ZenonT(30) DEF TickState, GoodTick
    <3> QED
      BY <3>1, <3>2, <3>3
  <2> QED
    BY <2>1, <2>2, <2>3
<1>7. tick' \in [Ticks -> TickState] /\ \A u \in Ticks : GoodTick(tick'[u], msgs')
  BY <1>1, <1>2, <1>6, GotoKeepsTicks DEF IInv
<1> QED
  BY <1>2, <1>3, <1>4, <1>5, <1>7 DEF IInv, TypeOK

\* The end of a POST leaves the tick well formed.
LEMMA DoneIsGood ==
  ASSUME NEW t \in Ticks, NEW ms \in Msgs,
         tick[t] \in TickState, GoodTick(tick[t], ms),
         tick[t].back \in {"idle", "retry", "dispatch"}
  PROVE  Done(t) \in TickState /\ GoodTick(Done(t), ms)
  BY DEF Done, TickState, GoodTick, NoMsg

\* The end of the polls: the id recorded is that of the alert in hand, and
\* only a message read as sent marks it.
LEMMA ConfirmStep ==
  ASSUME IInv, NEW t \in Ticks, Confirm(t)
  PROVE  IInv'
<1> USE DeliveryAssumption DEF Goto
<1>1. /\ tick \in [Ticks -> TickState] /\ tick[t] \in TickState
      /\ GoodTick(tick[t], msgs) /\ msgs \in Msgs /\ Grow(msgs, msgs)
      /\ table \in [Alerts -> Row]
  BY DEF IInv, TypeOK, Msgs, Msg, Grow
<1>2. UNCHANGED <<clock, msgs, detected, crashes, raced>>
  BY DEF Confirm
<1>3. PICK recorded \in BOOLEAN, marked \in BOOLEAN :
        /\ marked => Confirmed(t)
        /\ IF recorded /\ marked = Confirmed(t) THEN UNCHANGED faults ELSE Fault
        /\ lost' = IF recorded THEN lost ELSE lost + 1
        /\ table' = [table EXCEPT
             ![tick[t].cur].wa = IF recorded THEN tick[t].msg ELSE @,
             ![tick[t].cur].sent = @ \/ marked]
  BY DEF Confirm
<1>4. /\ faults' \in 0 .. MaxFaults /\ lost' \in 0 .. MaxFaults
      /\ lost' <= faults'
  BY <1>3, SMTT(30) DEF IInv, TypeOK, Fault
<1>5. PICK c \in Alerts : c = tick[t].cur
  BY <1>1 DEF Confirm, GoodTick
<1>6. /\ tick[t].msg \in MsgId /\ tick[t].msg \in IdsOf(c, msgs)
      /\ tick[t].msg \in DOMAIN msgs /\ msgs[tick[t].msg].alert = c
  BY <1>1, <1>5 DEF Confirm, GoodTick, IdsOf, Msgs, MsgId
<1>7. marked => Delivered(c, msgs)
  BY <1>3, <1>6 DEF Confirmed, Delivered
<1>8. table[c] \in Row /\ GoodRow(table[c], c, msgs)
  BY <1>1 DEF IInv
<1>9. PICK w \in {table[c].wa, tick[t].msg}, s \in {table[c].sent, TRUE} :
        /\ s => table[c].sent \/ marked
        /\ table' = [table EXCEPT ![c] = [table[c] EXCEPT !.wa = w, !.sent = s]]
  BY <1>1, <1>3, <1>5, <1>8 DEF Row
<1>10. /\ [table[c] EXCEPT !.wa = w, !.sent = s] \in Row
       /\ GoodRow([table[c] EXCEPT !.wa = w, !.sent = s], c, msgs)
  BY <1>6, <1>7, <1>8, <1>9 DEF Row, GoodRow
<1>11. /\ table' \in [Alerts -> Row]
       /\ \A b \in Alerts : GoodRow(table'[b], b, msgs)
  BY <1>1, <1>9, <1>10 DEF IInv
<1>12. tick' = [tick EXCEPT ![t] = Done(t)]
  BY DEF Confirm
<1>13. Done(t) \in TickState /\ GoodTick(Done(t), msgs)
  BY <1>1, DoneIsGood DEF TickState
<1>14. tick' \in [Ticks -> TickState] /\ \A u \in Ticks : GoodTick(tick'[u], msgs')
  <2>1. tick'[t] = Done(t)
    BY <1>1, <1>12
  <2> QED
    BY <1>1, <1>2, <1>12, <1>13, <2>1, GotoKeepsTicks DEF IInv
<1> QED
  BY <1>2, <1>4, <1>11, <1>14 DEF IInv, TypeOK

\* A POST ends without an id, or is accepted.
LEMMA PostStep ==
  ASSUME IInv, NEW t \in Ticks, PostFails(t) \/ PostAccepted(t)
  PROVE  IInv'
<1> USE DeliveryAssumption DEF Goto
<1>1. /\ tick \in [Ticks -> TickState] /\ tick[t] \in TickState
      /\ GoodTick(tick[t], msgs) /\ msgs \in Msgs
      /\ table \in [Alerts -> Row]
  BY DEF IInv, TypeOK, Msgs, Msg
<1>2. UNCHANGED <<clock, table, detected, crashes, raced>>
  BY DEF PostFails, PostAccepted
<1>3. PICK c \in Alerts : c = tick[t].cur
  BY <1>1 DEF PostFails, PostAccepted, GoodTick
<1>4. \/ UNCHANGED msgs
      \/ /\ Len(msgs) < MaxMsgs
         /\ msgs' = Append(msgs, [alert |-> c, status |-> "pending"])
  BY <1>3 DEF PostFails, PostAccepted
<1>5. msgs' \in Msgs /\ Grow(msgs, msgs')
  <2>1. CASE UNCHANGED msgs
    BY <1>1, <2>1 DEF Msgs, Grow
  <2>2. CASE ~UNCHANGED msgs
    BY <1>1, <1>4, <2>2, AppendGrows
  <2> QED
    BY <2>1, <2>2
<1>6. /\ faults' \in 0 .. MaxFaults /\ lost' \in 0 .. MaxFaults
      /\ lost' <= faults'
  <2>1. /\ faults \in 0 .. MaxFaults /\ lost \in 0 .. MaxFaults
        /\ lost <= faults
    BY DEF IInv, TypeOK
  <2>2. \/ /\ faults < MaxFaults /\ faults' = faults + 1
           /\ lost' = lost \/ lost' = lost + 1
        \/ faults' = faults /\ lost' = lost
    BY DEF PostFails, PostAccepted, Fault
  <2> QED
    BY <2>1, <2>2
<1>7. \A b \in Alerts : GoodRow(table'[b], b, msgs')
  BY <1>1, <1>2, <1>5, RowSurvives DEF IInv
<1>8. /\ tick' = [tick EXCEPT ![t] = tick'[t]]
      /\ tick'[t] \in TickState
      /\ GoodTick(tick'[t], msgs')
  <2>1. GoodTick(tick[t], msgs')
    BY <1>1, <1>5, TickSurvives
  <2>2. CASE PostFails(t)
    <3>1. Done(t) \in TickState /\ GoodTick(Done(t), msgs')
      BY <1>1, <1>5, <2>1, DoneIsGood DEF TickState
    <3> QED
      BY <1>1, <2>2, <3>1 DEF PostFails
  <2>3. CASE PostAccepted(t)
    <3>1. tick' = [tick EXCEPT ![t] =
                     [tick[t] EXCEPT !.pc = "confirm", !.msg = Len(msgs) + 1]]
      BY <2>3 DEF PostAccepted
    <3>2. /\ Len(msgs) + 1 \in MsgId /\ Len(msgs') = Len(msgs) + 1
          /\ msgs'[Len(msgs) + 1].alert = tick[t].cur
          /\ Len(msgs) \in Nat
      BY <1>1, <1>3, <2>3, AppendGrows DEF PostAccepted, MsgId, Msgs
    <3>3. tick'[t] \in TickState
      BY <1>1, <3>1, <3>2 DEF TickState
    <3>4. /\ tick'[t].wa = tick[t].wa /\ tick'[t].seen = tick[t].seen
          /\ tick'[t].cur = tick[t].cur /\ tick'[t].msg = Len(msgs) + 1
      BY <1>1, <3>1 DEF TickState
    <3>5. GoodTick(tick'[t], msgs')
      BY <1>3, <2>1, <3>2, <3>4 DEF GoodTick
    <3> QED
      BY <1>1, <3>1, <3>3, <3>5
  <2> QED
    BY <2>2, <2>3
<1>9. tick' \in [Ticks -> TickState] /\ \A u \in Ticks : GoodTick(tick'[u], msgs')
  BY <1>5, <1>8, GotoKeepsTicks DEF IInv
<1> QED
  BY <1>1, <1>2, <1>5, <1>6, <1>7, <1>9 DEF IInv, TypeOK, Msgs, Msg

\* The environment: a message is resolved, time passes, the engine restarts.
LEMMA EnvironmentStep ==
  ASSUME IInv, (\E m \in MsgId : Deliver(m)) \/ Elapse \/ Crash
  PROVE  IInv'
<1> USE DeliveryAssumption
<1>1. /\ tick \in [Ticks -> TickState] /\ msgs \in Msgs
      /\ table \in [Alerts -> Row]
  BY DEF IInv, TypeOK, Msgs, Msg
<1>2. CASE Elapse
  BY <1>2 DEF Elapse, IInv, TypeOK
<1>3. CASE Crash
  <2>1. \A u \in Ticks : tick'[u] = Idle
    BY <1>3 DEF Crash
  <2>2. \A u \in Ticks : tick'[u] \in TickState /\ GoodTick(tick'[u], msgs)
    BY <1>1, <2>1, IdleIsGood
  <2>3. tick' \in [Ticks -> TickState]
    BY <1>3, <2>2 DEF Crash
  <2>4. UNCHANGED <<clock, table, msgs, detected, faults, lost, raced>>
        /\ crashes' \in 0 .. MaxCrashes
    BY <1>3 DEF Crash, IInv, TypeOK
  <2> QED
    BY <2>2, <2>3, <2>4 DEF IInv, TypeOK
<1>4. CASE \E m \in MsgId : Deliver(m)
  <2>1. PICK m \in DOMAIN msgs, s \in {"sent", "failed"} :
          /\ msgs[m].status = "pending"
          /\ msgs' = [msgs EXCEPT ![m].status = s]
          /\ UNCHANGED faults \/ Fault
          /\ UNCHANGED <<clock, table, tick, detected, crashes, lost, raced>>
    BY <1>4 DEF Deliver
  <2>2. msgs' \in Msgs /\ Grow(msgs, msgs')
    BY <1>1, <2>1, ResolveGrows
  <2>3. faults' \in 0 .. MaxFaults /\ lost' <= faults'
    BY <2>1 DEF IInv, TypeOK, Fault
  <2>4. \A a \in Alerts : GoodRow(table'[a], a, msgs')
    BY <1>1, <2>1, <2>2, RowSurvives DEF IInv
  <2>5. \A u \in Ticks : GoodTick(tick'[u], msgs')
    BY <1>1, <2>1, <2>2, TickSurvives DEF IInv
  <2> QED
    BY <2>1, <2>2, <2>3, <2>4, <2>5 DEF IInv, TypeOK, Msgs, Msg
<1> QED
  BY <1>2, <1>3, <1>4

-----------------------------------------------------------------------------
(***************************************************************************)
(* The theorems                                                            *)
(***************************************************************************)

\* Every step keeps the invariant.
LEMMA StepIInv == IInv /\ [Next]_vars => IInv'
<1> SUFFICES ASSUME IInv, [Next]_vars PROVE IInv'
  OBVIOUS
<1>1. CASE UNCHANGED vars
  BY <1>1 DEF vars, IInv, TypeOK
<1>2. ASSUME NEW t \in Ticks, TickStep(t) PROVE IInv'
  <2>1. CASE \/ BeginTick(t) \/ FetchStatuses(t) \/ EndTick(t)
              \/ \E a \in Alerts : \/ SkipRow(t, a) \/ Resend(t, a)
                                   \/ DropStale(t, a)
    BY <2>1, TickMoves
  <2>2. CASE \/ Detect(t)
              \/ \E a \in Alerts : LateConfirm(t, a) \/ SaveAndPost(t, a)
    BY <2>2, TableWrites
  <2>3. CASE PostFails(t) \/ PostAccepted(t)
    BY <2>3, PostStep
  <2>4. CASE Confirm(t)
    BY <2>4, ConfirmStep
  <2> QED
    BY <1>2, <2>1, <2>2, <2>3, <2>4 DEF TickStep
<1>3. CASE (\E m \in MsgId : Deliver(m)) \/ Elapse \/ Crash
  BY <1>3, EnvironmentStep
<1> QED
  BY <1>1, <1>2, <1>3 DEF Next

\* The invariant holds of every reachable state.
LEMMA AlwaysIInv == Spec => []IInv
  BY InitIInv, StepIInv, PTL DEF Spec

\* The variables keep their types: what TypeOK says of the rows of alerts.db,
\* the messages and the ticks of alert-engine.js.
THEOREM TypeCorrect == Spec => []TypeOK
<1>1. IInv => TypeOK
  BY DEF IInv
<1> QED
  BY <1>1, AlwaysIInv, PTL

\* markAlertSent is only reached for an alert whose message was delivered,
\* however ticks overlap and whatever fails.
THEOREM SentIsDelivered == Spec => []SentMeansDelivered
<1>1. IInv => SentMeansDelivered
  BY DEF IInv, GoodRow, Delivered, SentMeansDelivered
<1> QED
  BY <1>1, AlwaysIInv, PTL

-----------------------------------------------------------------------------
(***************************************************************************)
(* Ticks that overlap                                                      *)
(*                                                                         *)
(* Of an alert that only one tick has had in hand at a time, what a tick   *)
(* read is still so when it posts: its row is replaced only after its      *)
(* message has failed, and at most one message of it is alive.             *)
(***************************************************************************)

Posting(t)  == tick[t].pc \in {"post", "confirm"}
Retrying(t) == \/ tick[t].pc \in {"fetch", "retry"}
               \/ Posting(t) /\ tick[t].back = "retry"

Failed(m)      == msgs[m].status = "failed"
Replaceable(a) == table[a].wa # NoMsg => Failed(table[a].wa)

\* From the alerts it finds on, a tick has read no ids.
Dispatching(t) == \/ tick[t].pc = "dispatch"
                  \/ Posting(t) /\ tick[t].back = "dispatch"

\* What a tick saw as failed has failed, and so has the message it read of the
\* alert it posts.  Unless another tick had the same alert in hand: what it read
\* of its rows is what they hold, and the alerts it has found were never posted.
Knows(t) ==
  /\ Retrying(t) => \A a \in tick[t].rows \ raced : tick[t].wa[a] = table[a].wa
  /\ Dispatching(t) => \A a \in Alerts : tick[t].wa[a] = NoMsg
  /\ \A a \in Alerts : tick[t].seen[a] = "failed" =>
                         tick[t].wa[a] # NoMsg /\ Failed(tick[t].wa[a])
  /\ \A a \in tick[t].todo \ raced : table[a].wa = NoMsg
  /\ tick[t].rows \cup tick[t].todo \subseteq detected
  /\ tick[t].rows \cap tick[t].todo = {}
  /\ Posting(t) =>
       /\ tick[t].cur \in detected \ (tick[t].rows \cup tick[t].todo)
       /\ tick[t].cur \notin raced => Replaceable(tick[t].cur)
       /\ tick[t].wa[tick[t].cur] # NoMsg => Failed(tick[t].wa[tick[t].cur])
  /\ tick[t].cur # NoAlert => Posting(t)

\* What two ticks have in hand is remembered.
Apart == \A s, t \in Ticks : s # t => InHand(s) \cap InHand(t) \subseteq raced

Untouched == \A a \in Alerts \ detected : ~table[a].saved /\ table[a].wa = NoMsg

\* A message that has not failed is the one on record or the one in hand.
Held(m) ==
  \/ m = table[msgs[m].alert].wa
  \/ \E t \in Ticks : tick[t].pc = "confirm" /\ tick[t].msg = m

OneAlive ==
  lost = 0 /\ crashes = 0 =>
    \A m \in DOMAIN msgs : msgs[m].alert \in raced \/ Failed(m) \/ Held(m)

DInv ==
  /\ IInv
  /\ \A t \in Ticks : Knows(t)
  /\ Untouched
  /\ Apart
  /\ OneAlive
  /\ NoVisibleDuplicate

\* The initial state satisfies it.
LEMMA InitDInv == Init => DInv
<1> SUFFICES ASSUME Init PROVE DInv
  OBVIOUS
<1>1. IInv
  BY InitIInv
<1>2. ASSUME NEW t \in Ticks PROVE Knows(t)
  BY DEF Init, Idle, Knows, Retrying, Dispatching, Posting
<1>3. Untouched /\ OneAlive /\ NoVisibleDuplicate
  BY DEF Init, Untouched, OneAlive, NoVisibleDuplicate
<1>4. Apart
  BY DEF Init, Apart, InHand, Idle
<1> QED
  BY <1>1, <1>2, <1>3, <1>4 DEF DInv

\* Steps of a tick that leave the messages and every recorded id alone keep the
\* messages' part.
LEMMA QuietMessages ==
  ASSUME DInv, UNCHANGED <<msgs, crashes, lost>>, raced \subseteq raced',
         \A a \in Alerts : table'[a].wa = table[a].wa,
         NEW t \in Ticks, tick[t].pc # "confirm",
         \A u \in Ticks \ {t} : tick'[u] = tick[u]
  PROVE  OneAlive' /\ NoVisibleDuplicate'
<1>1. \A m \in DOMAIN msgs : msgs[m].alert \in Alerts
  <2>1. msgs \in Seq(Msg)
    BY DEF DInv, IInv, TypeOK, Msg
  <2>2. \A m \in DOMAIN msgs : msgs[m] \in Msg
    BY <2>1
  <2> QED
    BY <2>2 DEF Msg
<1>2. OneAlive'
  <2> SUFFICES ASSUME lost = 0, crashes = 0, NEW m \in DOMAIN msgs,
                      msgs[m].alert \notin raced
               PROVE  Failed(m)' \/ Held(m)'
    BY DEF OneAlive
  <2>1. Failed(m) \/ Held(m)
    BY DEF DInv, OneAlive
  <2>2. CASE \E u \in Ticks : tick[u].pc = "confirm" /\ tick[u].msg = m
    BY <2>2 DEF Held
  <2> QED
    BY <1>1, <2>1, <2>2 DEF Failed, Held
<1> QED
  BY <1>2 DEF DInv, NoVisibleDuplicate

\* A tick has alerts in hand.
LEMMA HandIsAlerts ==
  ASSUME DInv PROVE \A u \in Ticks : InHand(u) \subseteq Alerts
  BY DEF DInv, IInv, TypeOK, TickState, InHand

\* What the other ticks know stays so, if their rows keep their ids and failed
\* messages stay failed.
LEMMA OthersKnow ==
  ASSUME DInv, NEW u \in Ticks, tick'[u] = tick[u],
         raced \subseteq raced', detected \subseteq detected',
         \A m \in DOMAIN msgs : Failed(m) => Failed(m)',
         \A a \in InHand(u) \ raced : table'[a].wa = table[a].wa
  PROVE  Knows(u)'
<1>1. /\ tick[u] \in TickState /\ Knows(u) /\ GoodTick(tick[u], msgs)
      /\ msgs \in Msgs /\ detected \subseteq Alerts
      /\ \A b \in Alerts : GoodRow(table[b], b, msgs)
  BY DEF DInv, IInv, TypeOK, Msgs, Msg
<1>2. /\ \A a \in Alerts : tick[u].wa[a] # NoMsg => tick[u].wa[a] \in DOMAIN msgs
      /\ \A a \in Alerts : table[a].wa # NoMsg => table[a].wa \in DOMAIN msgs
  BY <1>1 DEF GoodTick, GoodRow, IdsOf, Msgs
<1>3. /\ tick[u].rows \cup tick[u].todo \subseteq InHand(u)
      /\ Posting(u) => tick[u].cur \in InHand(u) /\ tick[u].cur \in Alerts
  BY <1>1, DeliveryAssumption DEF InHand, Knows
<1>4. /\ Retrying(u)' = Retrying(u) /\ Dispatching(u)' = Dispatching(u)
      /\ Posting(u)' = Posting(u)
  BY DEF Retrying, Dispatching, Posting
<1>5. Posting(u) /\ tick[u].cur \notin raced' => Replaceable(tick[u].cur)'
  BY <1>1, <1>2, <1>3 DEF Knows, Replaceable
<1>6. /\ \A a \in Alerts : tick[u].seen[a] = "failed" =>
                           tick[u].wa[a] # NoMsg /\ Failed(tick[u].wa[a])'
      /\ Posting(u) => (tick[u].wa[tick[u].cur] # NoMsg
                          => Failed(tick[u].wa[tick[u].cur])')
  BY <1>1, <1>2, <1>3 DEF Knows
<1>7. /\ Retrying(u) => \A a \in tick[u].rows \ raced' : tick[u].wa[a] = table'[a].wa
      /\ \A a \in tick[u].todo \ raced' : table'[a].wa = NoMsg
      /\ tick[u].rows \cup tick[u].todo \subseteq detected'
      /\ Posting(u) => tick[u].cur \in detected' \ (tick[u].rows \cup tick[u].todo)
  BY <1>1, <1>3 DEF Knows
<1>8. /\ tick'[u].rows = tick[u].rows /\ tick'[u].todo = tick[u].todo
      /\ tick'[u].wa = tick[u].wa /\ tick'[u].seen = tick[u].seen
      /\ tick'[u].cur = tick[u].cur
  OBVIOUS
<1> QED
  BY <1>1, <1>4, <1>5, <1>6, <1>7, <1>8 DEF Knows

\* A tick that takes nothing up that another has in hand leaves the ticks apart.
LEMMA HandsApart ==
  ASSUME Apart, raced \subseteq raced', NEW t \in Ticks,
         \A u \in Ticks \ {t} : /\ tick'[u] = tick[u]
                               /\ InHand(t)' \cap InHand(u) \subseteq raced'
  PROVE  Apart'
<1> SUFFICES ASSUME NEW s \in Ticks, NEW u \in Ticks, s # u
             PROVE  InHand(s)' \cap InHand(u)' \subseteq raced'
  BY DEF Apart
<1>1. \A v \in Ticks \ {t} : InHand(v)' = InHand(v)
  BY DEF InHand
<1>2. CASE s # t /\ u # t
  BY <1>1, <1>2 DEF Apart
<1>3. CASE s = t \/ u = t
  BY <1>1, <1>3
<1> QED
  BY <1>2, <1>3

\* The steps of the retry pass.
LEMMA RetryKnows ==
  ASSUME DInv, NEW t \in Ticks, NEW a,
         \/ BeginTick(t) \/ FetchStatuses(t) \/ LateConfirm(t, a)
         \/ SkipRow(t, a) \/ Resend(t, a)
  PROVE  /\ \A u \in Ticks : Knows(u)'
         /\ Untouched' /\ Apart' /\ OneAlive' /\ NoVisibleDuplicate'
<1> USE DeliveryAssumption DEF Goto
<1>1. /\ tick \in [Ticks -> TickState] /\ tick[t] \in TickState
      /\ table \in [Alerts -> Row] /\ Knows(t) /\ Untouched /\ Apart
  BY DEF DInv, IInv, TypeOK
<1>2. /\ UNCHANGED <<msgs, crashes, lost, detected>> /\ tick[t].pc # "confirm"
      /\ raced \subseteq raced'
      /\ ~BeginTick(t) => raced' = raced
      /\ \A u \in Ticks \ {t} : tick'[u] = tick[u]
  BY <1>1 DEF BeginTick, FetchStatuses, LateConfirm, SkipRow, Resend, NextRow
<1>3. \A b \in Alerts : /\ table'[b].wa = table[b].wa
                        /\ table'[b].saved = table[b].saved
  <2>1. \/ table' = table
        \/ a \in Alerts /\ table' = [table EXCEPT ![a].sent = TRUE]
    <3>1. CASE LateConfirm(t, a)
      <4>1. a \in Alerts
        BY <1>1, <3>1 DEF LateConfirm, NextRow, TickState
      <4> QED
        BY <3>1, <4>1 DEF LateConfirm
    <3>2. CASE ~LateConfirm(t, a)
      BY <3>2 DEF BeginTick, FetchStatuses, SkipRow, Resend
    <3> QED
      BY <3>1, <3>2
  <2> QED
    BY <1>1, <2>1 DEF Row
<1>4. OneAlive' /\ NoVisibleDuplicate'
  BY <1>2, <1>3, QuietMessages
<1>5. Untouched'
  BY <1>1, <1>2, <1>3 DEF Untouched
<1>6. ASSUME BeginTick(t)
      PROVE  Knows(t)' /\ \A u \in Ticks \ {t} : InHand(t)' \cap InHand(u) \subseteq raced'
  <2>1. /\ tick'[t].pc \in {"detect", "fetch"} /\ tick'[t].rows = Unsent
        /\ tick'[t].wa = [b \in Alerts |-> table[b].wa]
        /\ tick'[t].seen = [b \in Alerts |-> "unknown"] /\ tick'[t].todo = {}
        /\ tick'[t].cur = NoAlert
    BY <1>1, <1>6 DEF BeginTick, Idle
  <2>2. Unsent \subseteq detected
    BY <1>1 DEF Unsent, Untouched
  <2>3. Knows(t)'
    BY <1>2, <1>3, <2>1, <2>2 DEF Knows, Retrying, Dispatching, Posting, Unsent
  <2>4. InHand(t)' = Unsent
    BY <2>1 DEF InHand
  <2>5. raced' = raced \cup (Unsent \cap UNION {InHand(u) : u \in Ticks \ {t}})
    BY <1>6 DEF BeginTick
  <2> QED
    BY <2>3, <2>4, <2>5
<1>7. ASSUME FetchStatuses(t) PROVE Knows(t)' /\ InHand(t)' \subseteq InHand(t)
  <2> DEFINE seen == [b \in Alerts |-> IF b \in tick[t].rows
                                      THEN StatusOf(tick[t].wa[b])
                                      ELSE "unknown"]
  <2>0. /\ tick[t].pc = "fetch"
        /\ \/ tick' = [tick EXCEPT ![t] = [tick[t] EXCEPT !.pc = "retry"]]
           \/ tick' = [tick EXCEPT ![t] = [tick[t] EXCEPT !.pc = "retry",
                                                          !.seen = seen]]
    BY <1>7 DEF FetchStatuses
  <2>a. \A b \in Alerts : seen[b] = "failed" => tick[t].wa[b] # NoMsg
                                              /\ Failed(tick[t].wa[b])
    BY <1>1 DEF StatusOf, Failed
  <2> HIDE DEF seen
  <2>1. /\ tick[t].pc = "fetch" /\ tick'[t].pc = "retry"
        /\ tick'[t].rows = tick[t].rows /\ tick'[t].wa = tick[t].wa
        /\ tick'[t].todo = tick[t].todo /\ tick'[t].cur = tick[t].cur
        /\ tick'[t].seen = tick[t].seen \/ tick'[t].seen = seen
    <3>1. CASE tick' = [tick EXCEPT ![t] = [tick[t] EXCEPT !.pc = "retry"]]
      BY <1>1, <2>0, <3>1 DEF TickState
    <3>2. CASE tick' = [tick EXCEPT ![t] = [tick[t] EXCEPT !.pc = "retry",
                                                          !.seen = seen]]
      BY <1>1, <2>0, <3>2 DEF TickState
    <3> QED
      BY <2>0, <3>1, <3>2
  <2>2. \A b \in Alerts : tick'[t].seen[b] = "failed" =>
                            tick'[t].wa[b] # NoMsg /\ Failed(tick[t].wa[b])'
    BY <1>1, <1>2, <2>a, <2>1 DEF Knows, Failed
  <2>3. InHand(t)' \subseteq InHand(t)
    BY <2>1 DEF InHand
  <2>4. /\ Retrying(t) /\ ~Dispatching(t)' /\ ~Posting(t)' /\ ~Posting(t)
        /\ raced' = raced /\ detected' = detected
    BY <1>2, <1>7, <2>1 DEF Retrying, Dispatching, Posting, FetchStatuses
  <2>5. \A b \in tick[t].rows \cup tick[t].todo : b \in Alerts
    BY <1>1 DEF TickState
  <2> QED
    BY <1>1, <1>3, <2>1, <2>2, <2>3, <2>4, <2>5 DEF Knows
<1>8. ASSUME LateConfirm(t, a) \/ SkipRow(t, a)
      PROVE  Knows(t)' /\ InHand(t)' \subseteq InHand(t)
  <2>1. tick' = [tick EXCEPT ![t] = [tick[t] EXCEPT !.rows = tick[t].rows \ {a}]]
    BY <1>1, <1>8 DEF LateConfirm, SkipRow
  <2>2. /\ tick'[t].pc = tick[t].pc /\ tick'[t].back = tick[t].back
        /\ tick'[t].rows = tick[t].rows \ {a} /\ tick'[t].wa = tick[t].wa
        /\ tick'[t].todo = tick[t].todo /\ tick'[t].seen = tick[t].seen
        /\ tick[t].pc = "retry" /\ tick'[t].cur = tick[t].cur
        /\ raced' = raced
    BY <1>1, <1>8, <2>1 DEF LateConfirm, SkipRow, NextRow, TickState
  <2>3. InHand(t)' \subseteq InHand(t)
    BY <2>2 DEF InHand
  <2> QED
    BY <1>1, <1>2, <1>3, <2>2, <2>3
       DEF Knows, Retrying, Dispatching, Posting, Failed, TickState
<1>9. ASSUME Resend(t, a) PROVE Knows(t)' /\ InHand(t)' \subseteq InHand(t)
  <2>1. tick' = [tick EXCEPT ![t] = [tick[t] EXCEPT
                   !.pc = "post", !.back = "retry", !.cur = a,
                   !.rows = tick[t].rows \ {a}, !.posts = tick[t].posts + 1]]
    BY <1>1, <1>9 DEF Resend
  <2>2. /\ tick'[t].pc = "post" /\ tick'[t].back = "retry" /\ tick'[t].cur = a
        /\ tick'[t].rows = tick[t].rows \ {a} /\ tick'[t].wa = tick[t].wa
        /\ tick'[t].todo = tick[t].todo /\ tick'[t].seen = tick[t].seen
        /\ tick[t].pc = "retry" /\ a \in tick[t].rows /\ MayResend(t, a)
        /\ raced' = raced
    BY <1>1, <1>9, <2>1 DEF Resend, NextRow, TickState
  <2>3. /\ a \notin raced => tick[t].wa[a] = table[a].wa
        /\ a \in detected /\ a \in Alerts
    BY <1>1, <2>2 DEF Knows, Retrying, TickState
  <2>4. /\ tick[t].wa[a] # NoMsg => Failed(tick[t].wa[a])
        /\ a \notin raced => Replaceable(a)
    BY <1>1, <2>2, <2>3 DEF MayResend, Replaceable, Knows
  <2>5. a \notin tick[t].todo
    BY <1>1, <2>2 DEF Knows
  <2>6. InHand(t)' \subseteq InHand(t)
    BY <2>2 DEF InHand
  <2> QED
    BY <1>1, <1>2, <1>3, <2>2, <2>3, <2>4, <2>5, <2>6
       DEF Knows, Retrying, Dispatching, Posting, Failed, Replaceable, TickState
<1>10. Knows(t)' /\ \A u \in Ticks \ {t} : InHand(t)' \cap InHand(u) \subseteq raced'
  BY <1>1, <1>2, <1>6, <1>7, <1>8, <1>9 DEF Apart
<1>11. \A u \in Ticks \ {t} : Knows(u)'
  <2>1. \A u \in Ticks : InHand(u) \subseteq Alerts
    BY HandIsAlerts
  <2> QED
    BY <1>2, <1>3, <2>1, OthersKnow DEF Failed
<1>12. Apart'
  BY <1>1, <1>2, <1>10, HandsApart
<1> QED
  BY <1>4, <1>5, <1>10, <1>11, <1>12

\* The steps that find alerts and take them up.
LEMMA DispatchKnows ==
  ASSUME DInv, NEW t \in Ticks, NEW a,
         Detect(t) \/ DropStale(t, a) \/ SaveAndPost(t, a) \/ EndTick(t)
  PROVE  /\ \A u \in Ticks : Knows(u)'
         /\ Untouched' /\ Apart' /\ OneAlive' /\ NoVisibleDuplicate'
<1> USE DeliveryAssumption DEF Goto
<1>1. /\ tick \in [Ticks -> TickState] /\ tick[t] \in TickState
      /\ table \in [Alerts -> Row] /\ Knows(t) /\ Untouched /\ Apart
  BY DEF DInv, IInv, TypeOK
<1>2. /\ UNCHANGED <<msgs, crashes, lost, raced>> /\ tick[t].pc # "confirm"
      /\ detected \subseteq detected'
      /\ \A u \in Ticks \ {t} : tick'[u] = tick[u]
  BY <1>1 DEF Detect, DropStale, SaveAndPost, EndTick
<1>3. /\ \A b \in Alerts : table'[b].wa = table[b].wa
      /\ \A b \in Alerts \ detected' : table'[b].saved = table[b].saved
  <2>1. CASE Detect(t)
    <3>1. PICK new \in SUBSET (Alerts \ detected) :
            table' = [b \in Alerts |-> IF b \in new
                                      THEN [table[b] EXCEPT !.created = clock]
                                      ELSE table[b]]
      BY <2>1 DEF Detect
    <3> QED
      BY <1>1, <3>1 DEF Row
  <2>2. CASE SaveAndPost(t, a)
    <3>1. table' = table \/ table' = [table EXCEPT ![a].saved = TRUE]
      BY <2>2 DEF SaveAndPost
    <3>2. a \in detected /\ detected' = detected /\ a \in Alerts
      BY <1>1, <2>2 DEF SaveAndPost, Knows, TickState
    <3> QED
      BY <1>1, <3>1, <3>2 DEF Row
  <2>3. CASE DropStale(t, a) \/ EndTick(t)
    BY <2>3 DEF DropStale, EndTick
  <2> QED
    BY <2>1, <2>2, <2>3
<1>4. OneAlive' /\ NoVisibleDuplicate'
  BY <1>2, <1>3, QuietMessages
<1>5. Untouched'
  BY <1>1, <1>2, <1>3 DEF Untouched
<1>6. ASSUME Detect(t)
      PROVE  Knows(t)' /\ InHand(t)' \cap detected = {}
  <2>1. PICK new \in SUBSET (Alerts \ detected) :
          /\ detected' = detected \cup new
          /\ tick' = [tick EXCEPT ![t] =
                        IF new = {} THEN Idle
                        ELSE [Idle EXCEPT !.pc = "dispatch", !.todo = new]]
    BY <1>6 DEF Detect
  <2>2. /\ tick'[t].pc \in {"idle", "dispatch"} /\ tick'[t].rows = {}
        /\ tick'[t].todo = new /\ tick'[t].seen = [b \in Alerts |-> "unknown"]
        /\ tick'[t].wa = [b \in Alerts |-> NoMsg] /\ tick'[t].cur = NoAlert
    BY <1>1, <2>1 DEF Idle
  <2>3. InHand(t)' = new
    BY <2>2 DEF InHand
  <2> QED
    BY <1>1, <1>3, <2>1, <2>2, <2>3
       DEF Knows, Retrying, Dispatching, Posting, Untouched
<1>7. ASSUME DropStale(t, a) \/ EndTick(t)
      PROVE  Knows(t)' /\ InHand(t)' \subseteq InHand(t)
  <2>1. CASE DropStale(t, a)
    <3>1. tick' = [tick EXCEPT ![t] = [tick[t] EXCEPT !.todo = tick[t].todo \ {a}]]
      BY <1>1, <2>1 DEF DropStale
    <3>2. tick[t].pc = "dispatch"
      BY <2>1 DEF DropStale
    <3>3. /\ tick'[t].pc = "dispatch" /\ tick'[t].rows = tick[t].rows
          /\ tick'[t].todo = tick[t].todo \ {a}
          /\ tick'[t].seen = tick[t].seen /\ tick'[t].wa = tick[t].wa
          /\ tick'[t].cur = tick[t].cur
      BY <1>1, <3>1, <3>2 DEF TickState
    <3>4. InHand(t)' \subseteq InHand(t)
      BY <3>3 DEF InHand
    <3> QED
      BY <1>1, <1>2, <1>3, <3>2, <3>3, <3>4
         DEF Knows, Retrying, Dispatching, Posting, Failed, TickState
  <2>2. CASE EndTick(t)
    <3>1. /\ tick'[t].pc = "idle" /\ tick'[t].rows = {}
          /\ tick'[t].todo = {} /\ tick'[t].seen = [b \in Alerts |-> "unknown"]
          /\ tick'[t].cur = NoAlert
      BY <1>1, <2>2 DEF EndTick, Idle
    <3>2. InHand(t)' = {}
      BY <3>1 DEF InHand
    <3> QED
      BY <3>1, <3>2 DEF Knows, Retrying, Dispatching, Posting
  <2> QED
    BY <1>7, <2>1, <2>2
<1>8. ASSUME SaveAndPost(t, a) PROVE Knows(t)' /\ InHand(t)' \subseteq InHand(t)
  <2>0. tick[t].pc = "dispatch" /\ a \in tick[t].todo
    BY <1>8 DEF SaveAndPost
  <2>1. \/ tick' = [tick EXCEPT ![t] = [tick[t] EXCEPT
                     !.todo = tick[t].todo \ {a}]]
        \/ tick' = [tick EXCEPT ![t] = [tick[t] EXCEPT
                     !.pc = "post", !.back = "dispatch", !.cur = a,
                     !.todo = tick[t].todo \ {a}]]
    BY <1>1, <1>8 DEF SaveAndPost
  <2>2. /\ tick'[t].rows = tick[t].rows /\ tick'[t].wa = tick[t].wa
        /\ tick'[t].todo = tick[t].todo \ {a} /\ tick'[t].seen = tick[t].seen
        /\ \/ tick'[t].pc = "dispatch" /\ tick'[t].cur = tick[t].cur
           \/ /\ tick'[t].pc = "post" /\ tick'[t].back = "dispatch"
              /\ tick'[t].cur = a
    <3>1. CASE tick' = [tick EXCEPT ![t] = [tick[t] EXCEPT
                          !.todo = tick[t].todo \ {a}]]
      BY <1>1, <2>0, <3>1 DEF TickState
    <3>2. CASE tick' = [tick EXCEPT ![t] = [tick[t] EXCEPT
                          !.pc = "post", !.back = "dispatch", !.cur = a,
                          !.todo = tick[t].todo \ {a}]]
      BY <1>1, <3>2 DEF TickState
    <3> QED
      BY <2>1, <3>1, <3>2
  <2>3. /\ a \notin raced => table[a].wa = NoMsg
        /\ a \in detected /\ a \notin tick[t].rows /\ a \in Alerts
        /\ \A b \in Alerts : tick[t].wa[b] = NoMsg
    BY <1>1, <2>0 DEF Knows, Dispatching, TickState
  <2>4. detected' = detected
    BY <1>8 DEF SaveAndPost
  <2>5. InHand(t)' \subseteq InHand(t)
    BY <2>0, <2>2 DEF InHand
  <2>6. tick[t].cur = NoAlert
    BY <1>1, <2>0 DEF Knows, Posting
  <2> QED
    <3>1. /\ ~Retrying(t)' /\ raced' = raced
          /\ Posting(t)' => tick'[t].cur = a
          /\ tick'[t].cur # NoAlert => Posting(t)'
      BY <1>2, <2>2, <2>6 DEF Retrying, Posting
    <3>3. \A b \in tick[t].todo : b \in Alerts
      BY <1>1 DEF TickState
    <3>4. a \notin raced => Replaceable(a)'
      BY <1>3, <2>3 DEF Replaceable
    <3>5. /\ \A b \in Alerts : tick'[t].seen[b] = "failed" =>
                             tick'[t].wa[b] # NoMsg /\ Failed(tick[t].wa[b])'
          /\ \A b \in Alerts : tick'[t].wa[b] = NoMsg
      BY <1>1, <1>2, <2>2, <2>3 DEF Knows, Failed
    <3>6. /\ \A b \in tick'[t].todo \ raced' : table'[b].wa = NoMsg
          /\ tick'[t].rows \cup tick'[t].todo \subseteq detected'
          /\ tick'[t].rows \cap tick'[t].todo = {}
          /\ a \in detected' \ (tick'[t].rows \cup tick'[t].todo)
      BY <1>1, <1>3, <2>2, <2>3, <2>4, <3>1, <3>3 DEF Knows
    <3> QED
      BY <2>3, <2>5, <3>1, <3>4, <3>5, <3>6 DEF Knows
<1>9. ASSUME NEW u \in Ticks \ {t}
      PROVE  Knows(u)' /\ InHand(t)' \cap InHand(u) \subseteq raced'
  <2>1. InHand(u) \subseteq Alerts /\ InHand(u) \subseteq detected
    <3>1. Knows(u)
      BY DEF DInv
    <3> QED
      BY <3>1, HandIsAlerts DEF Knows, InHand
  <2>2. Knows(u)'
    BY <1>2, <1>3, <2>1, OthersKnow DEF Failed
  <2> QED
    BY <1>1, <1>2, <1>6, <1>7, <1>8, <2>1, <2>2 DEF Apart
<1>10. Apart'
  BY <1>1, <1>2, <1>9, HandsApart
<1> QED
  BY <1>4, <1>5, <1>6, <1>7, <1>8, <1>9, <1>10

\* The POST and the polls for its message.
LEMMA PostKnows ==
  ASSUME DInv, NEW t \in Ticks, PostFails(t) \/ PostAccepted(t)
  PROVE  /\ \A u \in Ticks : Knows(u)'
         /\ Untouched' /\ Apart' /\ OneAlive' /\ NoVisibleDuplicate'
<1> USE DeliveryAssumption DEF Goto
<1>1. /\ tick \in [Ticks -> TickState] /\ tick[t] \in TickState
      /\ GoodTick(tick[t], msgs) /\ msgs \in Msgs
      /\ table \in [Alerts -> Row] /\ Knows(t) /\ Untouched /\ Apart
      /\ lost \in Nat
      /\ \A b \in Alerts : GoodRow(table[b], b, msgs)
  BY DEF DInv, IInv, TypeOK, Msgs, Msg
<1>2. /\ UNCHANGED <<table, detected, crashes, raced>> /\ tick[t].pc = "post"
      /\ \A u \in Ticks \ {t} : tick'[u] = tick[u]
  BY <1>1 DEF PostFails, PostAccepted
<1>3. PICK c \in Alerts : c = tick[t].cur
  BY <1>1, <1>2 DEF GoodTick
<1>4. \/ UNCHANGED msgs
      \/ /\ Len(msgs) < MaxMsgs
         /\ msgs' = Append(msgs, [alert |-> c, status |-> "pending"])
  BY <1>3 DEF PostFails, PostAccepted
<1>5. /\ Len(msgs) \in Nat /\ Len(msgs') \in Nat /\ Len(msgs) <= Len(msgs')
      /\ DOMAIN msgs = 1 .. Len(msgs) /\ DOMAIN msgs' = 1 .. Len(msgs')
      /\ \A m \in 1 .. Len(msgs) : msgs'[m] = msgs[m]
      /\ \A m \in 1 .. Len(msgs) : msgs[m].alert \in Alerts
  <2>1. msgs \in Seq(Msg) /\ \A m \in 1 .. Len(msgs) : msgs[m] \in Msg
    BY <1>1 DEF Msgs
  <2>2. [alert |-> c, status |-> "pending"] \in Msg
    BY DEF Msg, Status
  <2>3. \A m \in 1 .. Len(msgs) : msgs[m].alert \in Alerts
    BY <2>1 DEF Msg
  <2>4. CASE UNCHANGED msgs
    BY <2>1, <2>3, <2>4
  <2>5. CASE msgs' = Append(msgs, [alert |-> c, status |-> "pending"])
    <3> HIDE <1>4
    <3> QED
      BY <2>1, <2>2, <2>3, <2>5
  <2> QED
    BY <1>4, <2>4, <2>5
<1>6. \A b \in Alerts : table[b].wa # NoMsg => table[b].wa \in 1 .. Len(msgs)
  BY <1>1 DEF GoodRow, IdsOf
<1>7. \A b \in Alerts :
        tick[t].wa[b] # NoMsg => tick[t].wa[b] \in 1 .. Len(msgs)
  BY <1>1 DEF GoodTick, IdsOf
<1>8. /\ \/ tick'[t].pc = tick[t].back /\ tick[t].back \notin {"post", "confirm"}
         \/ tick'[t].pc = "confirm" /\ tick'[t].msg = Len(msgs) + 1
      /\ tick'[t].back = tick[t].back /\ tick'[t].rows = tick[t].rows
      /\ tick'[t].wa = tick[t].wa /\ tick'[t].todo = tick[t].todo
      /\ tick'[t].seen = tick[t].seen
      /\ \/ tick'[t].pc = "confirm" /\ tick'[t].cur = c
         \/ tick'[t].pc # "confirm" /\ tick'[t].cur = NoAlert
  <2>1. CASE PostFails(t)
    <3>1. tick' = [tick EXCEPT ![t] = [tick[t] EXCEPT
                     !.pc = tick[t].back, !.cur = NoAlert, !.msg = NoMsg]]
      BY <2>1 DEF PostFails, Done
    <3> QED
      BY <1>1, <3>1 DEF TickState
  <2>2. CASE PostAccepted(t)
    <3>1. tick' = [tick EXCEPT ![t] =
                     [tick[t] EXCEPT !.pc = "confirm", !.msg = Len(msgs) + 1]]
      BY <2>2 DEF PostAccepted
    <3> QED
      BY <1>1, <1>3, <3>1 DEF TickState
  <2> QED
    BY <2>1, <2>2
<1>9. Knows(t)'
  <2>1. Posting(t)
    BY <1>2 DEF Posting
  <2>2. tick[t].back \in {"idle", "retry", "dispatch"}
    BY <1>1 DEF TickState
  <2>3. Retrying(t)' => Retrying(t)
    BY <1>2, <1>8, <2>2 DEF Posting, Retrying
  <2>4. Retrying(t)' => \A a \in tick'[t].rows \ raced' : tick'[t].wa[a] = table'[a].wa
    BY <1>1, <1>2, <1>8, <2>3 DEF Knows
  <2>10. Dispatching(t)' => \A a \in Alerts : tick'[t].wa[a] = NoMsg
    BY <1>1, <1>2, <1>8, <2>1, <2>2 DEF Knows, Dispatching, Posting
  <2>5. \A a \in Alerts : tick'[t].seen[a] = "failed" =>
          tick'[t].wa[a] # NoMsg /\ msgs'[tick'[t].wa[a]].status = "failed"
    <3> SUFFICES ASSUME NEW a \in Alerts, tick[t].seen[a] = "failed"
                 PROVE  tick[t].wa[a] # NoMsg /\ msgs'[tick[t].wa[a]].status = "failed"
      BY <1>8
    <3>1. tick[t].wa[a] # NoMsg /\ msgs[tick[t].wa[a]].status = "failed"
      BY <1>1 DEF Knows, Failed
    <3> QED
      BY <1>5, <1>7, <3>1
  <2>6. /\ \A a \in tick'[t].todo \ raced' : table'[a].wa = NoMsg
        /\ tick'[t].rows \cup tick'[t].todo \subseteq detected'
        /\ tick'[t].rows \cap tick'[t].todo = {}
    BY <1>1, <1>2, <1>8 DEF Knows
  <2>7. /\ c \in detected \ (tick[t].rows \cup tick[t].todo)
        /\ c \notin raced /\ table[c].wa # NoMsg => msgs[table[c].wa].status = "failed"
        /\ tick[t].wa[c] # NoMsg => msgs[tick[t].wa[c]].status = "failed"
    BY <1>1, <1>3, <2>1 DEF Knows, Replaceable, Failed
  <2>8. /\ c \notin raced' /\ table'[c].wa # NoMsg
             => msgs'[table'[c].wa].status = "failed"
        /\ tick'[t].wa[c] # NoMsg => msgs'[tick'[t].wa[c]].status = "failed"
    BY <1>2, <1>5, <1>6, <1>7, <1>8, <2>7
  <2>9. tick'[t].pc \in {"post", "confirm"} =>
          tick'[t].cur = c /\ c \in detected' \ (tick'[t].rows \cup tick'[t].todo)
    BY <1>2, <1>8, <2>2, <2>7
  <2>11. tick'[t].cur # NoAlert => Posting(t)'
    BY <1>8 DEF Posting
  <2> QED
    BY <2>4, <2>5, <2>6, <2>8, <2>9, <2>10, <2>11
       DEF Knows, Posting, Replaceable, Failed
<1>10. Untouched'
  BY <1>1, <1>2 DEF Untouched
<1>11. ASSUME lost' = 0, crashes' = 0
       PROVE  \/ UNCHANGED msgs
              \/ /\ Len(msgs') = Len(msgs) + 1
                 /\ msgs'[Len(msgs) + 1].alert = c
                 /\ PostAccepted(t)
  <2>1. lost' # 0 \/ UNCHANGED msgs \/ PostAccepted(t)
    BY <1>1 DEF PostFails
  <2> QED
    BY <1>11, <1>1, <1>4, <2>1, AppendGrows
<1>12. ASSUME lost' = 0, crashes' = 0
       PROVE  lost = 0 /\ crashes = 0
  BY <1>12, <1>1, <1>2 DEF PostFails, PostAccepted
<1>13. ASSUME NEW u \in Ticks, tick[u].pc = "confirm", msgs[tick[u].msg].alert = c
       PROVE  c \in raced
  <2>1. u # t /\ tick[u].cur = c
    BY <1>2, <1>13 DEF DInv, IInv, GoodTick
  <2>2. c \in InHand(u) \cap InHand(t)
    BY <1>3, <2>1, DeliveryAssumption DEF InHand
  <2> QED
    BY <1>1, <2>1, <2>2 DEF Apart
<1>14. OneAlive'
  <2> SUFFICES ASSUME lost' = 0, crashes' = 0, NEW m \in DOMAIN msgs',
                      msgs'[m].alert \notin raced
               PROVE  Failed(m)' \/ Held(m)'
    BY <1>2 DEF OneAlive
  <2>1. CASE m \in 1 .. Len(msgs)
    <3>1. Failed(m) \/ Held(m)
      BY <1>5, <1>12, <2>1 DEF DInv, OneAlive
    <3>2. ASSUME NEW u \in Ticks, tick[u].pc = "confirm", tick[u].msg = m
          PROVE  tick'[u].pc = "confirm" /\ tick'[u].msg = m
      BY <1>2, <3>2
    <3> QED
      BY <1>2, <1>5, <2>1, <3>1, <3>2 DEF Failed, Held
  <2>2. CASE m \notin 1 .. Len(msgs)
    <3>1. m = Len(msgs) + 1 /\ PostAccepted(t)
      <4>1. m \in 1 .. Len(msgs')
        BY <1>5
      <4>2. msgs' # msgs
        BY <1>5, <2>2
      <4>3. Len(msgs') = Len(msgs) + 1 /\ PostAccepted(t)
        BY <1>11, <4>2
      <4> QED
        BY <1>5, <2>2, <4>1, <4>3
    <3>2. tick'[t].pc = "confirm" /\ tick'[t].msg = m
      BY <1>1, <3>1 DEF PostAccepted, TickState
    <3> QED
      BY <3>2 DEF Held
  <2> QED
    BY <2>1, <2>2
<1>15. NoVisibleDuplicate'
  <2> SUFFICES ASSUME lost' = 0, crashes' = 0,
                      NEW m \in DOMAIN msgs', NEW n \in DOMAIN msgs',
                      msgs'[m].alert = msgs'[n].alert, m < n,
                      msgs'[m].alert \notin raced
               PROVE  msgs'[m].status = "failed"
    BY <1>2 DEF NoVisibleDuplicate
  <2>1. CASE n \in 1 .. Len(msgs)
    <3>1. m \in 1 .. Len(msgs)
      BY <1>5, <2>1
    <3>2. msgs'[m] = msgs[m] /\ msgs'[n] = msgs[n]
      BY <1>5, <2>1, <3>1
    <3> QED
      BY <1>5, <1>12, <2>1, <3>1, <3>2 DEF DInv, NoVisibleDuplicate
  <2>2. CASE n \notin 1 .. Len(msgs)
    <3>1. m \in 1 .. Len(msgs) /\ msgs[m].alert = c
      <4>1. m \in 1 .. Len(msgs') /\ n \in 1 .. Len(msgs')
        BY <1>5
      <4>2. /\ Len(msgs') = Len(msgs) + 1
            /\ msgs'[Len(msgs) + 1].alert = c
        BY <1>5, <1>11, <2>2
      <4>3. n = Len(msgs) + 1 /\ m \in 1 .. Len(msgs)
        BY <1>5, <2>2, <4>1, <4>2
      <4> QED
        BY <1>5, <4>2, <4>3
    <3>c. c \notin raced
      BY <1>5, <3>1
    <3>2. Failed(m) \/ m = table[c].wa
      BY <1>5, <1>12, <1>13, <3>1, <3>c DEF DInv, OneAlive, Held
    <3>3. Replaceable(c)
      BY <1>1, <1>2, <1>3, <3>c DEF Knows, Posting
    <3>4. Failed(m)
      BY <3>1, <3>2, <3>3 DEF Replaceable, NoMsg
    <3> QED
      BY <1>5, <3>1, <3>4 DEF Failed
  <2> QED
    BY <2>1, <2>2
<1>16. \A u \in Ticks \ {t} : Knows(u)'
  <2>1. \A m \in DOMAIN msgs : Failed(m) => Failed(m)'
    BY <1>5 DEF Failed
  <2> QED
    BY <1>2, <2>1, OthersKnow
<1>17. Apart'
  <2>1. InHand(t)' \subseteq InHand(t)
    BY <1>3, <1>8 DEF InHand
  <2> QED
    BY <1>1, <1>2, <2>1, HandsApart DEF Apart
<1> QED
  BY <1>9, <1>10, <1>14, <1>15, <1>16, <1>17

\* The end of the polls: the id recorded is the one in hand.
LEMMA ConfirmKnows ==
  ASSUME DInv, NEW t \in Ticks, Confirm(t)
  PROVE  /\ \A u \in Ticks : Knows(u)'
         /\ Untouched' /\ Apart' /\ OneAlive' /\ NoVisibleDuplicate'
<1> USE DeliveryAssumption DEF Goto
<1>1. /\ tick \in [Ticks -> TickState] /\ tick[t] \in TickState
      /\ GoodTick(tick[t], msgs) /\ msgs \in Msgs
      /\ table \in [Alerts -> Row] /\ Knows(t) /\ Untouched /\ Apart
      /\ lost \in Nat
  BY DEF DInv, IInv, TypeOK, Msgs, Msg
<1>2. /\ UNCHANGED <<msgs, detected, crashes, raced>> /\ tick[t].pc = "confirm"
      /\ \A u \in Ticks \ {t} : tick'[u] = tick[u]
  BY <1>1 DEF Confirm
<1>3. PICK c \in Alerts : c = tick[t].cur
  BY <1>1, <1>2 DEF GoodTick
<1>4. /\ \A b \in Alerts \ {c} : table'[b] = table[b]
      /\ lost' = 0 => table'[c].wa = tick[t].msg /\ lost = 0
  <2>1. PICK recorded \in BOOLEAN, marked \in BOOLEAN :
          /\ lost' = IF recorded THEN lost ELSE lost + 1
          /\ table' = [table EXCEPT
               ![c].wa = IF recorded THEN tick[t].msg ELSE @,
               ![c].sent = @ \/ marked]
    BY <1>3 DEF Confirm
  <2> QED
    BY <1>1, <2>1 DEF Row
<1>5. /\ tick'[t].pc = tick[t].back
      /\ tick'[t].back = tick[t].back /\ tick'[t].rows = tick[t].rows
      /\ tick'[t].wa = tick[t].wa /\ tick'[t].todo = tick[t].todo
      /\ tick'[t].seen = tick[t].seen /\ tick'[t].cur = NoAlert
      /\ tick[t].back \in {"idle", "retry", "dispatch"}
  BY <1>1 DEF Confirm, Done, TickState
<1>6. /\ c \in detected \ (tick[t].rows \cup tick[t].todo)
      /\ c \notin raced => Replaceable(c)
  BY <1>1, <1>2, <1>3 DEF Knows, Posting
<1>7. Knows(t)'
  BY <1>1, <1>2, <1>4, <1>5, <1>6
     DEF Knows, Retrying, Dispatching, Posting, Failed, TickState
<1>hand. ASSUME NEW u \in Ticks \ {t}
         PROVE  c \in InHand(u) => c \in raced
  <2>1. c \in InHand(t)
    BY <1>3, DeliveryAssumption DEF InHand
  <2> QED
    BY <1>1, <2>1 DEF Apart
<1>8. Untouched'
  BY <1>1, <1>2, <1>4, <1>6 DEF Untouched
<1>9. tick[t].msg \in 1 .. Len(msgs) /\ msgs[tick[t].msg].alert = c
  BY <1>1, <1>2, <1>3 DEF GoodTick
<1>10. \A m \in DOMAIN msgs : msgs[m].alert \in Alerts /\ m # NoMsg
  <2>1. \A m \in DOMAIN msgs : msgs[m] \in Msg /\ m # 0
    BY <1>1 DEF Msgs
  <2> QED
    BY <2>1 DEF Msg, NoMsg
<1>11. OneAlive'
  <2> SUFFICES ASSUME lost' = 0, crashes' = 0, NEW m \in DOMAIN msgs,
                      msgs[m].alert \notin raced
               PROVE  Failed(m)' \/ Held(m)'
    BY <1>2 DEF OneAlive
  <2>1. \/ Failed(m) \/ m = table[msgs[m].alert].wa \/ m = tick[t].msg
        \/ \E u \in Ticks \ {t} : tick[u].pc = "confirm" /\ tick[u].msg = m
    BY <1>2, <1>4 DEF DInv, OneAlive, Held
  <2>5. CASE \E u \in Ticks \ {t} : tick[u].pc = "confirm" /\ tick[u].msg = m
    BY <1>2, <2>5 DEF Held
  <2>2. CASE m = tick[t].msg
    BY <1>2, <1>4, <1>9, <2>2 DEF Held
  <2>3. CASE m = table[msgs[m].alert].wa /\ msgs[m].alert = c
    BY <1>2, <1>6, <1>10, <2>3 DEF Replaceable, Failed
  <2>4. CASE m = table[msgs[m].alert].wa /\ msgs[m].alert # c
    BY <1>2, <1>4, <1>10, <2>4 DEF Held
  <2> QED
    BY <1>2, <2>1, <2>2, <2>3, <2>4, <2>5 DEF Failed
<1>12. NoVisibleDuplicate'
  BY <1>2, <1>4 DEF DInv, NoVisibleDuplicate
<1>13. \A u \in Ticks \ {t} : Knows(u)'
  <2>1. ASSUME NEW u \in Ticks \ {t}
        PROVE  \A b \in InHand(u) \ raced : table'[b].wa = table[b].wa
    BY <1>4, <1>hand, HandIsAlerts
  <2> QED
    BY <1>2, <2>1, OthersKnow DEF Failed
<1>14. Apart'
  <2>1. InHand(t)' \subseteq InHand(t)
    BY <1>5 DEF InHand
  <2> QED
    BY <1>1, <1>2, <2>1, HandsApart DEF Apart
<1> QED
  BY <1>7, <1>8, <1>11, <1>12, <1>13, <1>14

\* A step that leaves all they speak of alone.
LEMMA StutterKnows ==
  ASSUME DInv, UNCHANGED <<table, tick, msgs, detected, crashes, lost, raced>>
  PROVE  /\ \A u \in Ticks : Knows(u)'
         /\ Untouched' /\ Apart' /\ OneAlive' /\ NoVisibleDuplicate'
<1>1. \A u \in Ticks : Knows(u)'
  BY OthersKnow DEF Failed
<1>2. Untouched' /\ Apart'
  BY DEF DInv, Untouched, Apart, InHand
<1>3. OneAlive' /\ NoVisibleDuplicate'
  BY DEF DInv, OneAlive, Held, Failed, NoVisibleDuplicate
<1> QED
  BY <1>1, <1>2, <1>3

\* The environment.
LEMMA EnvironmentKnows ==
  ASSUME DInv, (\E m \in MsgId : Deliver(m)) \/ Elapse \/ Crash
  PROVE  /\ \A u \in Ticks : Knows(u)'
         /\ Untouched' /\ Apart' /\ OneAlive' /\ NoVisibleDuplicate'
<1> USE DeliveryAssumption
<1>1. /\ tick \in [Ticks -> TickState]
      /\ (\A t \in Ticks : Knows(t) /\ GoodTick(tick[t], msgs))
      /\ msgs \in Msgs /\ Untouched
      /\ table \in [Alerts -> Row] /\ crashes \in Nat
      /\ \A b \in Alerts : GoodRow(table[b], b, msgs)
  BY DEF DInv, IInv, TypeOK, Msgs, Msg
<1>2. CASE Elapse
  <2>1. UNCHANGED <<table, tick, msgs, detected, crashes, lost, raced>>
    BY <1>2 DEF Elapse
  <2> QED
    BY <2>1, StutterKnows
<1>3. CASE Crash
  <2>1. \A t \in Ticks : Knows(t)'
    BY <1>1, <1>3 DEF Crash, Idle, Knows, Retrying, Dispatching, Posting
  <2>2. crashes' # 0 /\ Untouched' /\ Apart'
    BY <1>1, <1>3 DEF Crash, Idle, Untouched, Apart, InHand
  <2> QED
    BY <2>1, <2>2 DEF OneAlive, NoVisibleDuplicate
<1>4. CASE \E m \in MsgId : Deliver(m)
  <2>1. PICK m \in DOMAIN msgs, s \in {"sent", "failed"} :
          /\ msgs[m].status = "pending"
          /\ msgs' = [msgs EXCEPT ![m].status = s]
          /\ UNCHANGED <<table, tick, detected, crashes, lost, raced>>
    BY <1>4 DEF Deliver
  <2>2. /\ DOMAIN msgs' = DOMAIN msgs
        /\ \A n \in DOMAIN msgs : msgs'[n].alert = msgs[n].alert
        /\ \A n \in DOMAIN msgs :
             msgs[n].status = "failed" => msgs'[n].status = "failed"
    <3>1. \A n \in DOMAIN msgs : msgs[n] \in Msg
      BY <1>1 DEF Msgs
    <3> QED
      BY <2>1, <3>1 DEF Msg
  <2>3. \A u \in Ticks : Knows(u)'
    BY <2>1, <2>2, OthersKnow DEF Failed
  <2>4. Untouched'
    BY <1>1, <2>1 DEF Untouched
  <2>5. OneAlive' /\ NoVisibleDuplicate'
    BY <2>1, <2>2 DEF DInv, OneAlive, Held, Failed, NoVisibleDuplicate
  <2>6. Apart'
    BY <2>1 DEF DInv, Apart, InHand
  <2> QED
    BY <2>3, <2>4, <2>5, <2>6
<1> QED
  BY <1>2, <1>3, <1>4

\* Every step keeps it.
LEMMA StepDInv == DInv /\ [Next]_vars => DInv'
<1> SUFFICES ASSUME DInv, [Next]_vars PROVE DInv'
  OBVIOUS
<1>1. IInv'
  BY StepIInv DEF DInv
<1>2. CASE UNCHANGED vars
  BY <1>1, <1>2, StutterKnows DEF vars, DInv
<1>3. ASSUME NEW t \in Ticks, TickStep(t) PROVE DInv'
  <2>1. /\ \A u \in Ticks : Knows(u)'
        /\ Untouched' /\ Apart' /\ OneAlive' /\ NoVisibleDuplicate'
    <3>1. PICK a : \/ BeginTick(t) \/ FetchStatuses(t) \/ Detect(t) \/ EndTick(t)
                   \/ PostFails(t) \/ PostAccepted(t) \/ Confirm(t)
                   \/ a \in Alerts /\ \/ LateConfirm(t, a) \/ SkipRow(t, a)
                                      \/ Resend(t, a) \/ DropStale(t, a)
                                      \/ SaveAndPost(t, a)
      BY <1>3 DEF TickStep
    <3> QED
      BY <3>1, PostKnows, ConfirmKnows, RetryKnows, DispatchKnows
  <2> QED
    BY <1>1, <2>1 DEF DInv
<1>4. CASE (\E m \in MsgId : Deliver(m)) \/ Elapse \/ Crash
  BY <1>1, <1>4, EnvironmentKnows DEF DInv
<1> QED
  BY <1>2, <1>3, <1>4 DEF Next

\* The invariant holds of every reachable state.
LEMMA AlwaysDInv == Spec => []DInv
  BY InitDInv, StepDInv, PTL DEF Spec

\* Nobody reads an alert twice: no two messages of one alert that dispatchAlert and
\* retryUnsentAlerts have posted are alive, unless two ticks had the alert in hand at
\* once, the answer to a POST was lost or the engine restarted.
THEOREM NoVisibleDuplicateHolds == Spec => []NoVisibleDuplicate
<1>1. DInv => NoVisibleDuplicate
  BY DEF DInv
<1> QED
  BY <1>1, AlwaysDInv, PTL

\* However ticks overlap, answers are lost and the engine restarts,
\* retryUnsentAlerts posts an alert whose message id is on record again only after
\* that message has failed, or over an id recorded since it read the row.
THEOREM ReplacedUnlessOvertakenHolds == Spec => ReplacedUnlessOvertaken
<1> DEFINE Replaces ==
      \A t \in Ticks : Posts(t) /\ table[tick[t].cur].wa = tick[t].wa[tick[t].cur]
                      => FailedOnRecord(tick[t].cur)
<1>1. DInv /\ [Next]_vars => [Replaces]_vars
  BY DEF DInv, Knows, Posting, Posts, FailedOnRecord, Failed
<1>2. Spec => [][Replaces]_vars
  BY <1>1, InitDInv, StepDInv, PTL DEF Spec
<1> QED
  BY <1>2 DEF ReplacedUnlessOvertaken
=============================================================================
