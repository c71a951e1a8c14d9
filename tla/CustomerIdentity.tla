-------------------------- MODULE CustomerIdentity --------------------------
(***************************************************************************)
(* Which conversation a customer's message belongs to.  WhatsApp names a   *)
(* customer by a telephone number or by an internal one (a LID), and the   *)
(* same customer may come under both: routes/ingest-evolution.js looks a   *)
(* conversation up by either, creates one, and merges two that turn out to *)
(* be one customer's; routes/conversations.js lets an operator bind a      *)
(* number to a conversation, or merge two.                                 *)
(*                                                                         *)
(* From the lookup to the insertion of the message the webhook has no      *)
(* await, but each statement commits by itself, so the process may die     *)
(* between two.  mergeConversations is one transaction.  Left out: the     *)
(* brand, which follows the instance of the latest message and is not part *)
(* of the lookup; the lookup by pending_validation_phone, a column nothing *)
(* writes; the reopening of a closed conversation (CopilotConversation);   *)
(* groups; and the echo of a message sent from the dashboard, which is in  *)
(* OperatorReplies.                                                        *)
(***************************************************************************)
EXTENDS Naturals, FiniteSets

CONSTANTS
  Mails,             \* messages of WhatsApp, by their external ids
  Phones, Lids,      \* what remoteJid names a customer by
  PushNames,             \* pushName; outbound it may be the contact's
  NoPhone, NoName, Unreceived, Challenge,
  MaxConversations,  \* bound on the conversations created
  MaxBindings        \* bound on the numbers operators bind

ASSUME IdentityAssumption ==
  /\ MaxConversations \in Nat /\ MaxBindings \in Nat
  /\ Phones \intersect Lids = {} /\ NoPhone \notin Phones \union Lids
  /\ NoName \notin PushNames /\ Challenge \notin Mails

Identifiers == Phones \union Lids
Envelopes == [from : Identifiers, direction : {"inbound", "outbound"}, name : PushNames \union {NoName}]

ASSUME EnvelopeAssumption == Unreceived \notin Envelopes

VARIABLES
  threads,      \* the conversations, by id
  born,      \* how many have been created: ids are not used again
  filed,     \* the messages, each with the id of its conversation
  envelope,  \* what a message says of itself, whenever it is delivered
  bindings,  \* numbers being bound, while WhatsApp is bound for their form
  bound,     \* how many were bound
  rebound    \* history: a number was bound to a second conversation, or in
             \* place of another, or the process died before a merge

identityVars == <<threads, born, filed, envelope, bindings, bound, rebound>>

IdentityInit ==
  /\ threads = [c \in {} |-> 0] /\ born = 0 /\ filed = {}
  /\ envelope = [m \in Mails |-> Unreceived]
  /\ bindings = {} /\ bound = 0 /\ rebound = FALSE

-----------------------------------------------------------------------------
\* findConvByPhoneOrAlias; which of several rows it returns is not fixed.
Matching(db, id) == {c \in DOMAIN db : db[c].phone = id \/ id \in db[c].aliases}

MessagesOf(c) == Cardinality({f \in filed : f.in = c})

Aliases(row) == row.aliases \union ({row.phone} \ {NoPhone})

\* Defect: the identifiers of the merged conversation are forgotten.
AbsorbedAlone(target, source) ==
  [target EXCEPT !.name = IF @ = NoName THEN source.name ELSE @]

\* Everything that identifies either identifies the one that is kept.
Absorbed(target, source) ==
  LET phone == IF target.phone # NoPhone THEN target.phone ELSE source.phone
  IN  [phone |-> phone,
       aliases |-> (Aliases(target) \union Aliases(source)) \ {phone},
       name |-> IF target.name # NoName THEN target.name ELSE source.name]

\* What the webhook leaves behind: the rows, where the messages are, and the
\* conversation it goes on with.
Outcome(db, mails, c) == [threads |-> db, filed |-> mails, into |-> c]

\* mergeConversations
Merged(db, target, source) ==
  Outcome([c \in DOMAIN db \ {source} |->
          IF c = target THEN Absorbed(db[target], db[source]) ELSE db[c]],
       {IF f.in = source THEN [f EXCEPT !.in = target] ELSE f : f \in filed},
       target)

Renamed(left, c, e) ==
  IF e.direction = "inbound" /\ e.name # NoName /\ c \in DOMAIN left.threads
  THEN [left EXCEPT !.threads[c].name = e.name]
  ELSE left

\* A conversation that has no number yet takes this one; of it and another that
\* has the number, the one with more messages is kept.
NumberGiven(c, e) ==
  LET db == [threads EXCEPT ![c].phone = e.from]
      twins == Matching(db, e.from) \ {c}
  IN  IF twins = {} THEN {Outcome(db, filed, c)}
      ELSE {IF MessagesOf(d) > MessagesOf(c) THEN Merged(db, d, c) ELSE Merged(db, c, d) :
              d \in twins}

\* A LID becomes an alias of the number; another conversation under it is merged.
Aliased(c, e) ==
  LET db == [threads EXCEPT ![c].aliases = @ \union {e.from}]
      twins == Matching(db, e.from) \ {c}
  IN  IF twins = {} THEN {Outcome(db, filed, c)} ELSE {Merged(db, c, d) : d \in twins}

Continued(c, e) ==
  {Renamed(left, c, e) :
     left \in CASE e.from \in Phones /\ threads[c].phone = NoPhone -> NumberGiven(c, e)
                [] e.from \in Lids /\ threads[c].phone # NoPhone -> Aliased(c, e)
                [] OTHER -> {Outcome(threads, filed, c)}}

\* -- No conversation is found.
NewRow(e) ==
  LET name == IF e.direction = "inbound" THEN e.name ELSE NoName
  IN  IF e.from \in Lids
      THEN [phone |-> NoPhone, aliases |-> {e.from}, name |-> name]
      ELSE [phone |-> e.from, aliases |-> {}, name |-> name]

With(e) == [c \in DOMAIN threads \union {born + 1} |-> IF c = born + 1 THEN NewRow(e) ELSE threads[c]]

\* Our message to a number: a conversation that only a LID names, with the
\* contact's name, is taken to be the same customer's.
Namesakes(e) ==
  IF e.direction = "outbound" /\ e.from \in Phones /\ e.name # NoName
  THEN {c \in DOMAIN threads : threads[c].phone = NoPhone /\ threads[c].name = e.name}
  ELSE {}

Numbered(e, d) == [With(e) EXCEPT ![d].phone = e.from, ![d].aliases = @ \union {e.from}]

Opened(e) ==
  IF Namesakes(e) = {} THEN {Outcome(With(e), filed, born + 1)}
  ELSE {IF MessagesOf(d) > 0 THEN Merged(Numbered(e, d), d, born + 1)
        ELSE Merged(Numbered(e, d), born + 1, d) : d \in Namesakes(e)}

-----------------------------------------------------------------------------
Enveloped(m, e) ==
  /\ envelope[m] \in {Unreceived, e}
  /\ envelope' = [envelope EXCEPT ![m] = e]

\* Ours, to a LID that names nobody.
Skipped(e) == Matching(threads, e.from) = {} /\ e.direction = "outbound" /\ e.from \in Lids

Creates(e) == Matching(threads, e.from) = {} /\ ~Skipped(e)

Room(e) == Creates(e) => born < MaxConversations

Outcomes(e) ==
  IF Creates(e) THEN Opened(e) ELSE UNION {Continued(c, e) : c \in Matching(threads, e.from)}

\* The message is filed unless this conversation has it.
Delivered1to1(m, e) ==
  /\ Enveloped(m, e) /\ ~Skipped(e) /\ Room(e)
  /\ \E left \in Outcomes(e) :
       /\ threads' = left.threads
       /\ filed' = left.filed \union {[mail |-> m, in |-> left.into]}
  /\ born' = IF Creates(e) THEN born + 1 ELSE born
  /\ UNCHANGED <<bindings, bound, rebound>>

\* The process dies before the message is stored: after a merge, or before it,
\* with the number on both conversations.  Who was binding a number gets an error.
DiesDelivering(m, e) ==
  /\ Enveloped(m, e) /\ ~Skipped(e) /\ Room(e)
  /\ \/ \E left \in Outcomes(e) :
          threads' = left.threads /\ filed' = left.filed /\ UNCHANGED rebound
     \/ Creates(e) /\ threads' = With(e) /\ UNCHANGED <<filed, rebound>>
     \/ /\ Creates(e) /\ \E d \in Namesakes(e) : threads' = Numbered(e, d)
        /\ rebound' = TRUE /\ UNCHANGED filed
  /\ born' = IF Creates(e) THEN born + 1 ELSE born
  /\ bindings' = {} /\ UNCHANGED bound

\* PATCH /:id/phone, up to the question to WhatsApp and from its answer on.
BindBegun(c, p) ==
  /\ bound < MaxBindings /\ bound' = bound + 1
  /\ c \in DOMAIN threads
  /\ bindings' = bindings \union {[to |-> c, phone |-> p]}
  /\ UNCHANGED <<threads, born, filed, envelope, rebound>>

\* The conversation may have been merged away meanwhile; the challenge is
\* stored under its id, and sent, all the same.
BindFinished(b) ==
  /\ bindings' = bindings \ {b}
  /\ filed' = filed \union {[mail |-> Challenge, in |-> b.to]}
  /\ IF b.to \in DOMAIN threads
     THEN /\ threads' = [threads EXCEPT ![b.to].phone = b.phone]
          /\ rebound' = \/ rebound
                        \/ threads[b.to].phone \notin {NoPhone, b.phone}
                        \/ Matching(threads, b.phone) \ {b.to} # {}
     ELSE UNCHANGED <<threads, rebound>>
  /\ UNCHANGED <<born, envelope, bound>>

\* POST /:id/merge
OperatorMerges(target, source) ==
  /\ {target, source} \subseteq DOMAIN threads /\ target # source
  /\ threads' = Merged(threads, target, source).threads
  /\ filed' = Merged(threads, target, source).filed
  /\ UNCHANGED <<born, envelope, bindings, bound, rebound>>

IdentityNext ==
  \/ \E m \in Mails, e \in Envelopes : Delivered1to1(m, e) \/ DiesDelivering(m, e)
  \/ \E c \in 1..MaxConversations, p \in Phones : BindBegun(c, p)
  \/ \E b \in bindings : BindFinished(b)
  \/ \E t, s \in 1..MaxConversations : OperatorMerges(t, s)

IdentitySpec == IdentityInit /\ [][IdentityNext]_identityVars

-----------------------------------------------------------------------------
IdentityTypeOK ==
  /\ born \in 0..MaxConversations /\ DOMAIN threads \subseteq 1..born
  /\ \A c \in DOMAIN threads :
       /\ threads[c].phone \in Phones \union {NoPhone}
       /\ threads[c].aliases \subseteq Identifiers
       /\ threads[c].name \in PushNames \union {NoName}
  /\ filed \subseteq [mail : Mails \union {Challenge}, in : 1..born]
  /\ envelope \in [Mails -> Envelopes \union {Unreceived}]
  /\ bindings \subseteq [to : 1..born, phone : Phones]
  /\ bound \in 0..MaxBindings /\ rebound \in BOOLEAN

\* A message lies in the one conversation that its sender's identifier leads
\* to, so that whoever opens the customer's conversation sees it and a
\* redelivery finds it, whatever merges and restarts come between, unless a
\* number was bound over another or a death left it on two conversations.
FiledWhereFound ==
  ~rebound => \A f \in filed :
    f.mail \in Mails => Matching(threads, envelope[f.mail].from) = {f.in}
=============================================================================
