------------------------------ MODULE Consent ------------------------------
(***************************************************************************)
(* What a financial approval promises: an expense is booked only after the *)
(* operator has said yes to it, he can say so only before the question     *)
(* lapses, and nothing he or the service does takes back an answer.        *)
(***************************************************************************)
CONSTANT Receipts

VARIABLES
  answer,  \* per receipt: "open", "yes", "no" or "void"
  lapsed,  \* receipts whose question is past its time
  booked   \* receipts that were classified

vars == <<answer, lapsed, booked>>

Init ==
  /\ answer = [r \in Receipts |-> "open"]
  /\ lapsed = {}
  /\ booked = {}

\* The operator answers in time.
Decide(r) ==
  /\ answer[r] = "open" /\ r \notin lapsed
  /\ \E a \in {"yes", "no"} : answer' = [answer EXCEPT ![r] = a]
  /\ UNCHANGED <<lapsed, booked>>

\* The question is withdrawn: it could not be put, or nobody answered.
Withdraw(R) ==
  /\ \A r \in R : answer[r] = "open"
  /\ answer' = [r \in Receipts |-> IF r \in R THEN "void" ELSE answer[r]]
  /\ UNCHANGED <<lapsed, booked>>

Lapse(r) ==
  /\ lapsed' = lapsed \cup {r}
  /\ UNCHANGED <<answer, booked>>

\* Once: a receipt that is booked is not booked again.
Book(r) ==
  /\ answer[r] = "yes" /\ r \notin booked
  /\ booked' = booked \cup {r}
  /\ UNCHANGED <<answer, lapsed>>

Next ==
  \/ \E r \in Receipts : Decide(r) \/ Lapse(r) \/ Book(r)
  \/ \E R \in SUBSET Receipts : Withdraw(R)

Spec == Init /\ [][Next]_vars
=============================================================================
