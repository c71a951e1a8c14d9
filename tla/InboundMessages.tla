-------------------------- MODULE InboundMessages --------------------------
(***************************************************************************)
(* What the parts of the support copilot share: the WhatsApp messages they *)
(* keep their rows by, and who owns the conversation the messages are in.  *)
(***************************************************************************)
EXTENDS Naturals, FiniteSets

CONSTANT Messages  \* inbound messages of one conversation

ASSUME MessagesAssumption == IsFiniteSet(Messages)
=============================================================================
