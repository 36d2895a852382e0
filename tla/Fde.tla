-------------------------------- MODULE Fde --------------------------------
(***************************************************************************)
(* openagentontology/fde.py: what AgentFDE makes of a scanned record.  It  *)
(* proposes a canonical reason for each action without an asserted one,    *)
(* scores the document as if the reasons were declared already, and writes *)
(* a declaration and a policy that a later scan reads.                     *)
(*                                                                         *)
(* A remediation carries the id of its action, but the scan names a        *)
(* declared capability after the `name:` field.  That field is the label,  *)
(* written without quotes, and reads back as what YAML takes it for: the   *)
(* same text, a text cut at a comment, nothing (null, no, 0: then the id   *)
(* stands for it), no text at all, or a syntax error.                      *)
(***************************************************************************)
EXTENDS Scan

CONSTANTS
  SlugOf,       \* the slug of a label, as a name
  ProposedOf,   \* the default reason proposed for a label, or NoReason
  ReadBack,     \* the name an action's declaration gives, by id and label
  Malformed,    \* ... a label YAML takes for a syntax error
  NotText,      \* ... a mapping, a list, a number, true or a date
  GateName,     \* the slug of a deny key of the generated policy, by reason
  AllowName,    \* the slug of that policy's own `allow` rule
  PolicyLabel   \* the label of the gates of the generated policy

ASSUME FdeAssumption ==
  /\ SlugOf \in [Labels -> Names]
  /\ ProposedOf \in [Labels -> Reasons \cup {NoReason}]
  /\ ReadBack \in [Ids \X Labels -> Labels \cup {Malformed, NotText}]
  /\ Malformed \notin Labels /\ NotText \notin Labels /\ Malformed # NotText
  /\ GateName \in [Reasons -> Names]
  /\ AllowName \in Names /\ PolicyLabel \in Labels
  /\ VerbOf[PolicyLabel] = "plain"
  /\ \A r \in Reasons : GateName[r] # AllowName

-----------------------------------------------------------------------------
(* triage.                                                                 *)

_verb_reason(label) ==
  IF VerbOf[label] \in DOMAIN StrongVerbs THEN StrongVerbs[VerbOf[label]] ELSE NoReason

Unasserted(maps) == {i \in DOMAIN maps : maps[i].matched_via # "asserted_table"}

Remediation(r, maps, i) ==
  LET label    == r.label[i]
      inferred == maps[i].matched_via = "heuristic" /\ _verb_reason(label) \in Reasons
  IN  [id |-> i, label |-> label,
       reason     |-> IF inferred THEN _verb_reason(label) ELSE ProposedOf[label],
       confidence |-> IF inferred THEN "auto" ELSE "proposed"]

triage(r) ==
  LET maps == ActionMaps(r)
      all  == {Remediation(r, maps, i) : i \in Unasserted(maps)}
  IN  [remediations |-> {x \in all : x.reason \in Reasons},
       still_open   |-> {x.id : x \in {y \in all : y.reason \notin Reasons}}]

-----------------------------------------------------------------------------
(* _remediated_doc: the document as it would score.                        *)

Remediated(rem) == {x.id : x \in rem}
ReasonFor(rem, i) == (CHOOSE x \in rem : x.id = i).reason
RemediatedMaps(d, rem) ==
  [i \in DOMAIN d.maps |->
     IF i \in Remediated(rem)
     THEN ActionMap("asserted_table", TableRows(ReasonFor(rem, i)))
     ELSE d.maps[i]]

\* Seeded fault: the frameworks of the scanned document are kept.
_remediated_doc_stale(d, rem) == [d EXCEPT !.maps = RemediatedMaps(d, rem)]

\* Seeded fault: only the frameworks the remediations bring are counted.
_remediated_doc_new_only(d, rem) ==
  LET maps == RemediatedMaps(d, rem)
  IN  [d EXCEPT !.maps = maps,
                !.frameworks = Frameworks([i \in Remediated(rem) |-> maps[i]])]

_remediated_doc(d, rem) ==
  LET maps == RemediatedMaps(d, rem)
  IN  [d EXCEPT !.maps = maps, !.frameworks = Frameworks(maps)]

-----------------------------------------------------------------------------
(* The generated files, as the records the adapters read back from them.   *)

\* The labels a declaration gives back unchanged.
Plain == {l \in Labels : \A i \in Ids : ReadBack[<<i, l>>] = l}

NameOf(x) == ReadBack[<<x.id, x.label>>]
Readable(rem) == \A x \in rem : NameOf(x) \in Labels

\* `first` is the remediation listed first among those of one slug.
Declared(rem, first) ==
  LET slugs == {SlugOf[NameOf(x)] : x \in rem}
      isDeclared(i) == Bucket(i) = "capabilities" /\ i[2] \in slugs
  IN  [label  |-> [i \in Ids |-> IF isDeclared(i) THEN NameOf(first[i[2]]) ELSE NoLabel],
       reason |-> [i \in Ids |-> IF isDeclared(i) THEN first[i[2]].reason ELSE Unset]]

FirstOfSlug(rem) ==
  {f \in [{SlugOf[NameOf(x)] : x \in rem} -> rem] :
     \A s \in DOMAIN f : SlugOf[NameOf(f[s])] = s}

\* Nothing is read from a declaration with a name that is not readable.
generate_agentdef(rem) ==
  IF Readable(rem)
  THEN {Declared(rem, first) : first \in FirstOfSlug(rem)}
  ELSE {_empty}

\* _add encodes every name, which a value that is no text does not survive:
\* the scan that reads the file raises.  A syntax error is caught (_safe_yaml)
\* and leaves the whole file unread.
Raises(rem) ==
  /\ \E x \in rem : NameOf(x) = NotText
  /\ \A x \in rem : NameOf(x) # Malformed

\* A gate per deny key and one for the allow rule, which names no reason.
PolicyGates(rem) ==
  {<<"gates", GateName[x.reason]>> : x \in rem} \cup {<<"gates", AllowName>>}

generate_rego(rem) ==
  [label  |-> [i \in Ids |-> IF i \in PolicyGates(rem) THEN PolicyLabel ELSE NoLabel],
   reason |-> [i \in Ids |->
     IF i \notin PolicyGates(rem) THEN Unset
     ELSE IF \E x \in rem : i[2] = GateName[x.reason]
     THEN (CHOOSE x \in rem : i[2] = GateName[x.reason]).reason
     ELSE NoReason]]
=============================================================================
