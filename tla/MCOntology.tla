----------------------------- MODULE MCOntology -----------------------------
(* Instances of Ontology for TLC.                                          *)
EXTENDS Ontology, TLC

CONSTANTS n1, n2

\* A label with a strong verb, and a canonical reason, which no verb row matches.
LabelVerbs == [wire_transfer |-> "pay", dual_control_required |-> "plain"]
TwoLabels == DOMAIN LabelVerbs
LabelReasons ==
  [wire_transfer |-> NoReason, dual_control_required |-> "dual_control_required"]
VerbLabels == {"wire_transfer"}

TwoReasons == {"dual_control_required", "approval_required"}

NameSymmetry == Permutations(Names)
=============================================================================
