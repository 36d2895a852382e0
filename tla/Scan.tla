-------------------------------- MODULE Scan --------------------------------
(***************************************************************************)
(* What a scan computes from the files it read: ingest.py merges the flat  *)
(* records of the files, and generate.py, validate.py and trust_profile.py *)
(* turn the merged record into an ontology document, a verdict and a       *)
(* score.                                                                  *)
(*                                                                         *)
(* A flat record maps an id to the label of the item that carries it       *)
(* (NoLabel when there is none) and to its entry in rec["reasons"]: Unset, *)
(* a canonical reason, or NoReason for the None a gate without a canonical *)
(* reason leaves there.  An id is the bucket and the slug of the name; the *)
(* adapters prefix it by bucket, so ids of two buckets never meet.  The    *)
(* item's own "reason" field repeats rec["reasons"] and is not kept.       *)
(***************************************************************************)
EXTENDS Crosswalk, TrustScore, FiniteSets

CONSTANTS
  Names,          \* the slugs of the names the files use
  Labels,         \* the action labels
  VerbOf,         \* the verb the crosswalk finds in a label
  NoLabel, Unset, NoReason

ASSUME ScanAssumption ==
  /\ VerbOf \in [Labels -> Verbs]
  /\ NoLabel \notin Labels
  /\ Unset \notin Reasons /\ NoReason \notin Reasons /\ Unset # NoReason

Buckets == {"capabilities", "decisions", "gates", "actions"}
Ids == Buckets \X Names
Bucket(id) == id[1]

Record  == [label  : [Ids -> Labels \cup {NoLabel}],
            reason : [Ids -> Reasons \cup {NoReason, Unset}]]

_empty == [label |-> [i \in Ids |-> NoLabel], reason |-> [i \in Ids |-> Unset]]
Items(r)    == {i \in Ids : r.label[i] # NoLabel}
_has_facts(r) == Items(r) # {}

-----------------------------------------------------------------------------
(* ingest.py: _add and _merge_record.                                      *)

\* The first item of an id stays; only a gate leaves an entry without a reason.
_add(r, m) ==
  IF m.id \in Items(r) THEN r
  ELSE [label  |-> [r.label EXCEPT ![m.id] = m.label],
        reason |-> IF m.reason \in Reasons
                   THEN [r.reason EXCEPT ![m.id] = m.reason]
                   ELSE IF Bucket(m.id) = "gates" /\ r.reason[m.id] = Unset
                   THEN [r.reason EXCEPT ![m.id] = NoReason]
                   ELSE r.reason]

\* _add of each item of one declaration; their ids differ.
_add_all(r, ms) ==
  LET At(i) == IF \E m \in ms : m.id = i THEN _add(r, CHOOSE m \in ms : m.id = i) ELSE r
  IN  [label  |-> [i \in Ids |-> At(i).label[i]],
       reason |-> [i \in Ids |-> At(i).reason[i]]]

\* Seeded fault: only the reasons of new items are folded in.
_merge_record_new_items(a, r) ==
  [label  |-> [i \in Ids |-> IF a.label[i] # NoLabel THEN a.label[i] ELSE r.label[i]],
   reason |-> [i \in Ids |-> IF a.label[i] # NoLabel THEN a.reason[i] ELSE r.reason[i]]]

\* Seeded fault: reasons.update instead of setdefault.
_merge_record_last_wins(a, r) ==
  [label  |-> [i \in Ids |-> IF a.label[i] # NoLabel THEN a.label[i] ELSE r.label[i]],
   reason |-> [i \in Ids |-> IF r.reason[i] # Unset THEN r.reason[i] ELSE a.reason[i]]]

\* The first item and, separately, the first reasons entry of an id win.
_merge_record(a, r) ==
  [label  |-> [i \in Ids |-> IF a.label[i] # NoLabel THEN a.label[i] ELSE r.label[i]],
   reason |-> [i \in Ids |-> IF a.reason[i] # Unset THEN a.reason[i] ELSE r.reason[i]]]

-----------------------------------------------------------------------------
(* generate.py: the nodes, the action maps and the asserted frameworks.    *)

\* _record_to_facts: a synthesized Agent root, linked to every item.
agent_root == <<"Agent", "root">>
Nodes(r)   == Items(r) \cup {agent_root}
Edges(r)   == {agent_root} \X Items(r)

CapabilityLabels(r) == {r.label[i] : i \in {j \in Items(r) : Bucket(j) = "capabilities"}}
\* Seeded fault: no Task is mapped.
Governed_types_only(r) == {i \in Items(r) : Bucket(i) # "actions"}

\* Seeded fault: whatever has the label of a Capability counts as its mirror.
Governed_mirrors_all(r) ==
  {i \in Items(r) : Bucket(i) # "capabilities" => r.label[i] \notin CapabilityLabels(r)}

\* A Task with the label of a Capability mirrors it and is not mapped again.
Governed(r) ==
  {i \in Items(r) : Bucket(i) = "actions" => r.label[i] \notin CapabilityLabels(r)}
ActionMaps(r) == [i \in Governed(r) |-> map_action(VerbOf[r.label[i]], r.reason[i])]

Mappings(maps) == UNION {maps[i].mappings : i \in DOMAIN maps}
Frameworks(maps) ==
  {m.control[1] : m \in {n \in Mappings(maps) : n.confidence = "asserted"}}

generate(r) ==
  LET maps == ActionMaps(r)
  IN  [nodes |-> Nodes(r), edges |-> Edges(r), maps |-> maps,
       frameworks |-> Frameworks(maps)]
NoDoc == [nodes |-> {}, edges |-> {}, maps |-> [i \in {} |-> {}], frameworks |-> {}]

-----------------------------------------------------------------------------
(* validate.py: no error-level finding.  The node types, the link types    *)
(* and the ASCII text are fixed by the adapters and left out.              *)

validate(d) ==
  /\ d.nodes # {}
  /\ \A e \in d.edges : e[1] \in d.nodes /\ e[2] \in d.nodes
  /\ \A i \in DOMAIN d.maps :
       /\ d.maps[i].matched_via = "asserted_table" => HasAnyMapping(d.maps[i])
       /\ \A m \in d.maps[i].mappings :
            /\ m.control[1] \in ALLOWED_FRAMEWORKS
            /\ m.confidence = "asserted" => m.control \in AssertedPairs

(* trust_profile.py: score.                                                *)
Covered(d)   == {i \in DOMAIN d.maps : HasAsserted(d.maps[i])}
AnyMapped(d) == {i \in DOMAIN d.maps : HasAnyMapping(d.maps[i])}
ScoreOf(d) ==
  Score(Cardinality(DOMAIN d.maps), Cardinality(AnyMapped(d)), Cardinality(Covered(d)),
        Cardinality(d.frameworks \cap ALLOWED_FRAMEWORKS),
        Structure(TRUE, d.edges # {}, Cardinality(d.nodes)))
ProfileOf(d) == LET score == ScoreOf(d) IN [score |-> score, tier |-> TierFor(score)]
NoProfile == [score |-> 0, tier |-> "UNGOVERNED"]
=============================================================================
