----------------------------- MODULE Crosswalk -----------------------------
(***************************************************************************)
(* openagentontology/crosswalk.py: the canonical reason-to-control table   *)
(* and map_action.  A control is a pair <<framework, id>>.  A label is     *)
(* reduced to its verb: the first row of HEURISTICS whose pattern occurs   *)
(* in it ("weak" for the last row), or "plain" when no row matches.        *)
(***************************************************************************)
EXTENDS Naturals

NIST  == "NIST SP 800-53r5"
EU    == "EU AI Act"
OWASP == "OWASP LLM Top 10 (2025)"
RMF   == "NIST AI RMF"
MITRE == "MITRE ATT&CK"
ALLOWED_FRAMEWORKS == {NIST, EU, OWASP, RMF, MITRE, "OCSF", "NICE"}

\* The controls ASSERTED_TABLE lists for a reason with confidence "asserted".
Asserted == [
  dual_control_required |->
    {<<NIST, "AC-5">>, <<EU, "Art 14">>, <<OWASP, "LLM06">>},
  over_threshold |->
    {<<NIST, "AC-3">>, <<NIST, "AC-6">>, <<EU, "Art 14">>, <<OWASP, "LLM06">>},
  beneficiary_unverified |->
    {<<NIST, "AC-3">>, <<EU, "Art 10">>, <<OWASP, "LLM06">>},
  human_review_required |->
    {<<EU, "Art 14">>, <<OWASP, "LLM06">>},
  classification_above_ceiling |->
    {<<NIST, "RA-2">>, <<NIST, "AC-4">>, <<EU, "Art 10">>, <<OWASP, "LLM02">>},
  out_of_scope_domain |->
    {<<NIST, "AC-6">>, <<NIST, "AC-3">>, <<OWASP, "LLM06">>},
  regulated_egress_blocked |->
    {<<NIST, "AC-4">>, <<NIST, "SC-7">>, <<EU, "Art 10">>, <<OWASP, "LLM02">>},
  change_freeze_active |->
    {<<NIST, "CM-3">>, <<NIST, "CM-5">>, <<OWASP, "LLM06">>},
  approval_required |->
    {<<NIST, "CM-3">>, <<EU, "Art 14">>, <<OWASP, "LLM06">>},
  high_blast_needs_named_approver |->
    {<<NIST, "CM-4">>, <<NIST, "AC-5">>, <<EU, "Art 14">>} ]

\* Its advisory rows, the _MITRE_ATTACK enrichment included.
Advisory == [
  dual_control_required           |-> {<<RMF, "MANAGE">>, <<MITRE, "T1078">>},
  over_threshold                  |-> {<<MITRE, "T1078">>},
  beneficiary_unverified          |-> {<<MITRE, "T1078">>},
  human_review_required           |-> {<<RMF, "MEASURE">>, <<MITRE, "T1059">>},
  classification_above_ceiling    |-> {<<MITRE, "T1530">>},
  out_of_scope_domain             |-> {<<MITRE, "T1098">>},
  regulated_egress_blocked        |-> {<<MITRE, "TA0010">>, <<MITRE, "T1048">>},
  change_freeze_active            |-> {<<MITRE, "T1485">>},
  approval_required               |-> {<<MITRE, "T1543">>},
  high_blast_needs_named_approver |-> {<<MITRE, "T1490">>} ]

Reasons == DOMAIN Asserted
AssertedPairs == UNION {Asserted[r] : r \in Reasons}

\* HEURISTICS: the reason whose controls a strong row downgrades.
StrongVerbs == [
  pay     |-> "dual_control_required",
  export  |-> "regulated_egress_blocked",
  secret  |-> "classification_above_ceiling",
  delete  |-> "change_freeze_active",
  deploy  |-> "approval_required",
  approve |-> "human_review_required",
  scope   |-> "out_of_scope_domain" ]
Verbs == DOMAIN StrongVerbs \cup {"weak", "plain"}

Mapped(controls, conf) == {[control |-> c, confidence |-> conf] : c \in controls}
TableRows(reason) ==
  Mapped(Asserted[reason], "asserted") \cup Mapped(Advisory[reason], "advisory")

\* Seeded fault: a heuristic hit keeps the confidence of the table.
Downgrade_verbatim(reason) == TableRows(reason)

\* _downgrade: asserted rows become inferred, advisory rows ride along.
Downgrade(reason) ==
  Mapped(Asserted[reason], "inferred") \cup Mapped(Advisory[reason], "advisory")

AmbiguousStub == Mapped({<<OWASP, "LLM06">>}, "ambiguous")

ActionMap(via, mappings) == [matched_via |-> via, mappings |-> mappings]

\* Seeded fault: an empty lookup passes for a match of the asserted table.
map_action_claims(verb, reason) ==
  IF reason \in Reasons THEN ActionMap("asserted_table", TableRows(reason))
  ELSE ActionMap("asserted_table", {})

map_action(verb, reason) ==
  CASE reason \in Reasons -> ActionMap("asserted_table", TableRows(reason))
    [] reason \notin Reasons /\ verb \in DOMAIN StrongVerbs ->
         ActionMap("heuristic", Downgrade(StrongVerbs[verb]))
    [] reason \notin Reasons /\ verb = "weak" ->
         ActionMap("heuristic", AmbiguousStub)
    [] OTHER -> ActionMap("none", {})

HasAsserted(am)   == \E m \in am.mappings : m.confidence = "asserted"
HasAnyMapping(am) == am.mappings # {}
=============================================================================
