------------------------------- MODULE PrGate -------------------------------
(***************************************************************************)
(* ci/pr_check.py: the verdict of the pull-request gate over the --json    *)
(* payload of the head scan and, when there is one, of the base scan.      *)
(*                                                                         *)
(* A payload keeps the fields the gate reads: the top level, summary and   *)
(* profile as functions of the keys they have, and the action maps with    *)
(* the label of each.                                                      *)
(***************************************************************************)
EXTENDS Scan

CONSTANTS
  HighRisk,    \* names and labels with a word of _HIGH_RISK
  Oversight,   \* names and labels with a word of _OVERSIGHT
  NoPayload    \* a scan that left no payload, or an unreadable one

\* Every word of _OVERSIGHT is one of _HIGH_RISK, and every word of _HIGH_RISK
\* is one of a strong row of HEURISTICS.
ASSUME GateAssumption ==
  /\ HighRisk \subseteq Names \cup Labels /\ Oversight \subseteq HighRisk
  /\ \A l \in Labels : l \in HighRisk => VerbOf[l] \in DOMAIN StrongVerbs

Nothing == [k \in {} |-> FALSE]

\* cli.py: the payload of a scan that ran.
_json_payload(r) ==
  LET d    == generate(r)
      tier == ProfileOf(d).tier
  IN
  [top     |-> Nothing,
   summary |-> [ok |-> validate(d), tier |-> tier],
   profile |-> [tier |-> tier],
   maps    |-> [i \in DOMAIN d.maps |-> [label       |-> r.label[i],
                                         matched_via |-> d.maps[i].matched_via,
                                         mapped      |-> HasAnyMapping(d.maps[i])]]]

\* agent-governance.yml: what stands for a head scan that left no payload.
FallbackPayload ==
  [top |-> [ok |-> FALSE, tier |-> "UNGOVERNED"], summary |-> Nothing,
   profile |-> Nothing, maps |-> Nothing]

\* The top level wins, then summary, then profile.
_field(p, key, default) ==
  IF key \in DOMAIN p.top THEN p.top[key]
  ELSE IF key \in DOMAIN p.summary THEN p.summary[key]
  ELSE IF key \in DOMAIN p.profile THEN p.profile[key]
  ELSE default

_is_ungoverned(am) == am.matched_via = "none" \/ ~am.mapped

\* The words are looked for in the id and in the label.
Mentions(words, p, i) == i[2] \in words \/ p.maps[i].label \in words

_ungoverned_high_risk(p) ==
  {i \in DOMAIN p.maps : _is_ungoverned(p.maps[i]) /\ Mentions(HighRisk, p, i)}
_art14_gaps(p) ==
  {i \in DOMAIN p.maps : _is_ungoverned(p.maps[i]) /\ Mentions(Oversight, p, i)}

_TIER_RANK == [SOVEREIGN |-> 0, HARDENED |-> 1, DEVELOPING |-> 2, UNGOVERNED |-> 3]
_tier(p) == _TIER_RANK[_field(p, "tier", "UNGOVERNED")]

\* The gaps the base has already; none without a base.
base_ung(base)  == IF base = NoPayload THEN {} ELSE _ungoverned_high_risk(base)
base_gaps(base) == IF base = NoPayload THEN {} ELSE _art14_gaps(base)

\* Seeded fault: without a base nothing is compared.
passed_without_base(head, base) ==
  /\ _field(head, "ok", FALSE)
  /\ base # NoPayload =>
       /\ _ungoverned_high_risk(head) \subseteq base_ung(base)
       /\ _art14_gaps(head) \subseteq base_gaps(base)
       /\ _tier(head) <= _tier(base)

\* Seeded fault: ranks count from the best tier, and the comparison is not turned.
passed_rank_turned(head, base) ==
  /\ _field(head, "ok", FALSE)
  /\ _ungoverned_high_risk(head) \subseteq base_ung(base)
  /\ _art14_gaps(head) \subseteq base_gaps(base)
  /\ base # NoPayload => _tier(head) >= _tier(base)

\* evaluate: validation, no new gap of either kind, no lower tier.
passed(head, base) ==
  /\ _field(head, "ok", FALSE)
  /\ _ungoverned_high_risk(head) \subseteq base_ung(base)
  /\ _art14_gaps(head) \subseteq base_gaps(base)
  /\ base # NoPayload => _tier(head) <= _tier(base)
=============================================================================
