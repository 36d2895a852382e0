----------------------------- MODULE MCAdoption -----------------------------
(* An instance of Adoption for TLC.                                        *)
EXTENDS Adoption

\* A strong verb, a label only _PROPOSED_FOR_UNMATCHED knows, three strong verbs
\* that YAML takes for a syntax error, for a mapping and for a comment, the id
\* that then stands for the name, and the label of generated gates.
LabelVerbs == [wire |-> "pay", exec |-> "plain", wire_to |-> "pay", wire_map |-> "pay",
               commented |-> "pay", cap_wire |-> "pay", policy |-> "plain"]
LabelSlugs == [wire |-> "wire", exec |-> "exec", wire_to |-> "wire", wire_map |-> "wire",
               commented |-> "wire", cap_wire |-> "cap_wire", policy |-> "allow"]
LabelProposals ==
  [l \in DOMAIN LabelVerbs |-> IF l = "exec" THEN "approval_required" ELSE NoReason]
AllLabels == DOMAIN LabelVerbs
YamlNames ==
  [x \in Ids \X AllLabels |->
     CASE x[2] = "wire_to"   -> Malformed
       [] x[2] = "wire_map"  -> NotText
       [] x[2] = "commented" -> "cap_wire"
       [] OTHER              -> x[2]]

AllNames == {"wire", "cap_wire", "exec", "deny", "deny2", "allow"}
DenyNames == [r \in Reasons |-> IF r = "approval_required" THEN "deny2" ELSE "deny"]

RiskyWords == {"wire", "cap_wire", "wire_to", "wire_map", "commented"}

\* What people write: actions under their own name and under another one, with
\* and without a reason, in three buckets; one id is there twice, and another
\* three times, with different labels.
Item(bucket, name, label, reason) ==
  [id |-> <<bucket, name>>, label |-> label, reason |-> reason]
PeopleItems ==
  { Item("capabilities", "wire", "commented", NoReason),
    Item("capabilities", "wire", "exec", NoReason),
    Item("gates",        "exec", "wire", "high_blast_needs_named_approver"),
    Item("actions",      "wire", "wire", NoReason),
    Item("actions",      "wire", "wire_map", NoReason),
    Item("actions",      "wire", "wire_to", NoReason) }
=============================================================================
