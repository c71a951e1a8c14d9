--------------------------- MODULE ContadorMemory ---------------------------
(***************************************************************************)
(* What the accountant asks the group on its own and what it learns from   *)
(* the answers: processRegularizacao, the facts and the open questions of  *)
(* services/support-copilot/lib/contador-runtime.js; answerQuery, aprender *)
(* and regularizacao of lib/contador.js.                                   *)
(*                                                                         *)
(* A timer starts a round of questions every 15 minutes, and nothing stops *)
(* a second round while one is under way.  A turn answers one message of   *)
(* the group; turns are jobs, taken one at a time (ContadorJobs).  A gap   *)
(* is a month with something missing, as the tools report it; it opens and *)
(* closes outside.  Which question or fact it is, the texts and the        *)
(* redaction are left out.  An operator enters the open questions.         *)
(***************************************************************************)
EXTENDS Naturals, FiniteSets

CONSTANTS
  Questions,     \* rows of contador_perguntas_abertas
  Rounds,        \* rounds that may be under way at a time
  AskEvery,      \* CONTADOR_REGULARIZACAO_DIAS
  MaxToolCalls,  \* config.maxToolCalls
  MaxDate,       \* bound on the days
  MaxTurns       \* bound on the turns

ASSUME MemoryAssumption ==
  {AskEvery, MaxToolCalls, MaxDate, MaxTurns} \subseteq Nat \ {0}

VARIABLES
  date,
  gaps,      \* the tools report something missing
  question,  \* Questions -> "absent", "aberta" or "respondida"
  facts,     \* how many facts are recorded
  memory,    \* the workspace file: the facts and questions written to it
  round,     \* Rounds -> how far the round is, and what it read when it began
  lastAsk,   \* id and asked_at of the last row 'sent'; id 0 when there is none
  turn,      \* the turn being answered: its tool calls and what it is doing
  turns,
  asked,     \* history: the questions the group was sent, on which day, and the
             \* last row on record when their round began
  kept       \* history: the day the question of each row was sent

history == <<asked, kept>>
memoryVars ==
  <<date, gaps, question, facts, memory, round, lastAsk, turn, turns, history>>

-----------------------------------------------------------------------------
NoRound == [at |-> "none", begun |-> 0, read |-> 0, sent |-> 0]
NoTurn == [at |-> "none", calls |-> 0]
OpenQuestions == {q \in Questions : question[q] = "aberta"}

MemoryInit ==
  /\ date = 0 /\ gaps \in BOOLEAN
  /\ question = [q \in Questions |-> "absent"]
  /\ facts = 0 /\ memory = [facts |-> 0, open |-> {}]
  /\ round = [r \in Rounds |-> NoRound]
  /\ lastAsk = [id |-> 0, on |-> 0]
  /\ turn = NoTurn /\ turns = 0 /\ asked = {} /\ kept = {}

(* Outside: a day passes, an entry lands or is missed, a question is entered. *)

DatePasses ==
  /\ date < MaxDate /\ date' = date + 1
  /\ UNCHANGED <<gaps, question, facts, memory, round, lastAsk, turn, turns, history>>

GapsChange ==
  /\ gaps' = ~gaps
  /\ UNCHANGED <<date, question, facts, memory, round, lastAsk, turn, turns, history>>

QuestionEntered(q) ==
  /\ question[q] = "absent" /\ question' = [question EXCEPT ![q] = "aberta"]
  /\ UNCHANGED <<date, gaps, facts, memory, round, lastAsk, turn, turns, history>>

-----------------------------------------------------------------------------
(* A round of questions.                                                   *)

AskDue == lastAsk.id # 0 => date >= lastAsk.on + AskEvery

\* begun is the round's now.
BeginRound(r) ==
  /\ round[r] = NoRound /\ AskDue
  /\ round' = [round EXCEPT ![r] =
       [at |-> "gaps", begun |-> date, read |-> lastAsk.id, sent |-> 0]]
  /\ UNCHANGED <<date, gaps, question, facts, memory, lastAsk, turn, turns, history>>

RoundEnds(r) == round' = [round EXCEPT ![r] = NoRound]

\* Without a gap nothing is asked, whatever questions are open; with one the
\* agent writes, and the message is sent before the row says so.
GapsListed(r) ==
  /\ round[r].at = "gaps"
  /\ IF gaps THEN round' = [round EXCEPT ![r].at = "agent"] ELSE RoundEnds(r)
  /\ UNCHANGED <<date, gaps, question, facts, memory, lastAsk, turn, turns, history>>

\* The gateway takes the message; the round awaits its answer.
GroupAsked(r) ==
  /\ round[r].at = "agent" /\ (gaps \/ OpenQuestions # {})
  /\ round' = [round EXCEPT ![r].at = "sent", ![r].sent = date]
  /\ asked' = asked \union {[on |-> date, read |-> round[r].read]}
  /\ UNCHANGED <<date, gaps, question, facts, memory, lastAsk, turn, turns, kept>>

\* Defect: the row is dated with the round's now.
RowOfBegin(r) == [id |-> lastAsk.id + 1, on |-> round[r].begun]

Row(r) == [id |-> lastAsk.id + 1, on |-> date]

RoundRecorded(r) ==
  /\ round[r].at = "sent" /\ RoundEnds(r)
  /\ lastAsk' = Row(r)
  /\ kept' = kept \union {[on |-> round[r].sent, row |-> lastAsk.id + 1]}
  /\ UNCHANGED <<date, gaps, question, facts, memory, turn, turns, asked>>

\* No row 'sent': the agent stays silent, the gaps and questions are gone, or the
\* round fails, perhaps after the gateway has taken the message.
RoundUnrecorded(r) ==
  /\ round[r].at # "none" /\ RoundEnds(r)
  /\ UNCHANGED <<date, gaps, question, facts, memory, lastAsk, turn, turns, history>>

-----------------------------------------------------------------------------
(* A turn: tools, then one reply, then what was learnt from it.            *)

BeginTurn ==
  /\ turn = NoTurn /\ turns < MaxTurns /\ turns' = turns + 1
  /\ turn' = [at |-> "agent", calls |-> 1]
  /\ UNCHANGED <<date, gaps, question, facts, memory, round, lastAsk, history>>

\* The last call is followed by a prompt that allows no tool.
ToolCalled ==
  /\ turn.at = "agent" /\ turn.calls < MaxToolCalls
  /\ turn' = [turn EXCEPT !.calls = @ + 1]
  /\ UNCHANGED <<date, gaps, question, facts, memory, round, lastAsk, turns, history>>

\* A reply, or a draft resolved as the quoted message says, or refused.
Replies ==
  /\ turn.at = "agent"
  /\ turn' \in {[turn EXCEPT !.at = "replied"], NoTurn}
  /\ UNCHANGED <<date, gaps, question, facts, memory, round, lastAsk, turns, history>>

Projection(f, q) == [facts |-> f, open |-> {x \in Questions : q[x] = "aberta"}]

\* aprender: the questions the reply answers and the facts it states, each a
\* transaction that then rewrites the workspace file, best-effort.
Learns(answered, new) ==
  /\ turn.at = "replied" /\ turn' = NoTurn
  /\ answered \subseteq OpenQuestions
  /\ question' = [q \in Questions |-> IF q \in answered THEN "respondida" ELSE question[q]]
  /\ facts' = IF new THEN facts + 1 ELSE facts
  /\ IF answered # {} \/ new
     THEN memory' \in {memory, Projection(facts', question')}
     ELSE UNCHANGED memory
  /\ UNCHANGED <<date, gaps, round, lastAsk, turns, history>>

\* Rounds and turns are in memory; a turn that had replied is not taken again.
MemoryRestart ==
  /\ turn' = NoTurn
  /\ round' = [r \in Rounds |-> NoRound]
  /\ UNCHANGED <<date, gaps, question, facts, memory, lastAsk, turns, history>>

-----------------------------------------------------------------------------
RoundStep(r) ==
  \/ BeginRound(r) \/ GapsListed(r) \/ GroupAsked(r) \/ RoundRecorded(r) \/ RoundUnrecorded(r)

TurnStep ==
  \/ BeginTurn \/ ToolCalled \/ Replies
  \/ \E answered \in SUBSET Questions, new \in BOOLEAN : Learns(answered, new)

MemoryNext ==
  \/ DatePasses \/ GapsChange \/ (\E q \in Questions : QuestionEntered(q))
  \/ (\E r \in Rounds : RoundStep(r)) \/ TurnStep \/ MemoryRestart

MemorySpec == MemoryInit /\ [][MemoryNext]_memoryVars

-----------------------------------------------------------------------------
MemoryTypeOK ==
  /\ date \in 0..MaxDate /\ gaps \in BOOLEAN /\ facts \in 0..MaxTurns
  /\ question \in [Questions -> {"absent", "aberta", "respondida"}]
  /\ memory.facts <= facts /\ memory.open \subseteq Questions
  /\ \A r \in Rounds : round[r].at \in {"none", "gaps", "agent", "sent"}
  /\ turn.at \in {"none", "agent", "replied"} /\ turn.calls \in 0..MaxToolCalls

\* docs/CONTADOR.md: "it only asks again after CONTADOR_REGULARIZACAO_DIAS".
\* Two questions reach the group within the days only if the round of the later
\* one began while the earlier one was not on record: its own round was still
\* under way, or ended after the send without a row.
AskedOncePerInterval ==
  \A a \in kept, b \in asked : a.row <= b.read => a.on + AskEvery <= b.on
=============================================================================
