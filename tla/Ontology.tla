------------------------------ MODULE Ontology ------------------------------
(***************************************************************************)
(* The scan: ingest.py reads a directory file by file into flat records,   *)
(* merges them, and run_pipeline turns the merged record into an ontology  *)
(* document, a verdict and a score (the operators of Scan).                *)
(*                                                                         *)
(* Each file goes to one adapter.  An adapter walks the declarations of    *)
(* its file (a rego key, a route, a tool, a test, a block entry, a def)    *)
(* and adds the items each one stands for.  What the files declare is      *)
(* open: any slug, any label; the reason is open only where the adapter    *)
(* reads one from the source.                                              *)
(***************************************************************************)
EXTENDS Scan

CONSTANTS
  SourceReasons,  \* the canonical reasons the files name
  CanonReason,    \* _canon_reason of a label: the reason it is, or NoReason
  ActionLabels,   \* the labels that start with a verb of _ACTION_VERBS
  MaxFiles,       \* bound: files of the directory that hold facts
  MaxAdds         \* bound: declarations the adapters read over all the files

ASSUME ConstantsAssumption ==
  /\ SourceReasons \subseteq Reasons
  /\ CanonReason \in [Labels -> SourceReasons \cup {NoReason}]
  /\ ActionLabels \subseteq Labels
  /\ MaxFiles \in Nat /\ MaxAdds \in Nat

VARIABLES
  kind,      \* the kind of the file being read ("none": no file is open)
  rec,       \* its flat record
  agg,       \* the aggregate of the files already read
  files,     \* how many were read
  adds,      \* how many declarations the adapters read
  scanning,  \* the directory walk is not over
  doc,       \* the OntologyDoc
  ok,        \* validate's verdict
  profile,   \* score's TrustProfile
  mentions,  \* history: every item an adapter emitted, the dropped ones too
  merged     \* history: every <<id, reasons entry>> of a merged record
vars == <<kind, rec, agg, files, adds, scanning, doc, ok, profile, mentions, merged>>

Mention == [id : Ids, label : Labels, reason : SourceReasons \cup {NoReason}]
Item(bucket, n, lb, reason) == [id |-> <<bucket, n>>, label |-> lb, reason |-> reason]

-----------------------------------------------------------------------------
(* The adapters: the items of one declaration.                             *)

\* _first_canon_token of a text that starts with the label: the label when it
\* is a canonical reason, else whatever the rest of the text names.
FirstCanonToken(lb) ==
  IF CanonReason[lb] # NoReason THEN {CanonReason[lb]} ELSE SourceReasons \cup {NoReason}

\* A deny key or an allow rule is a gate whose reason is the key itself.
_from_rego == {{Item("gates", n, lb, CanonReason[lb])} : n \in Names, lb \in Labels}

\* A route is a Task without a reason; a write method is also a capability
\* of the same label.
_from_openapi ==
  UNION {{{Item(b, n, lb, NoReason) : b \in bs} :
             bs \in {{"actions"}, {"actions", "capabilities"}}} :
           n \in Names, lb \in Labels}

\* A tool is a capability; its name and description may hold a reason.
_from_mcp ==
  UNION {{{Item("capabilities", n, lb, r)} : r \in FirstCanonToken(lb)} :
           n \in Names, lb \in Labels}

\* A test is a capability with any reason its block names; an acceptance line
\* is a gate.
_from_speckit ==
  UNION {{{Item("capabilities", n, lb, r)} : r \in SourceReasons \cup {NoReason}}
         \cup {{Item("gates", n, lb, r)} : r \in FirstCanonToken(lb)} :
           n \in Names, lb \in Labels}

\* An entry may state its action and its reason apart from its name; the
\* reason of a task is not read.
_from_agentdef ==
  {{Item(b, n, lb, r)} : b \in Buckets \ {"actions"}, n \in Names, lb \in Labels,
                         r \in SourceReasons \cup {NoReason}}
  \cup {{Item("actions", n, lb, NoReason)} : n \in Names, lb \in Labels}

\* A def is one item for each kind of decorator it has, all of them with the
\* reason its name or docstring names; without decorators it is a Task when
\* its name starts with a verb.
Decorated(n, lb) ==
  {{Item(b, n, lb, r) : b \in bs} :
     bs \in (SUBSET (Buckets \ {"actions"})) \ {{}}, r \in FirstCanonToken(lb)}
VerbNamed == {{Item("actions", n, lb, NoReason)} : n \in Names, lb \in ActionLabels}
_from_python == (UNION {Decorated(n, lb) : n \in Names, lb \in Labels}) \cup VerbNamed

\* _extract_file: the adapter of a kind.
Adapters ==
  [rego |-> _from_rego, openapi |-> _from_openapi, mcp |-> _from_mcp,
   speckit |-> _from_speckit, agentdef |-> _from_agentdef, python |-> _from_python]
Kinds == DOMAIN Adapters

-----------------------------------------------------------------------------
Init ==
  /\ kind = "none"
  /\ rec = _empty /\ agg = _empty
  /\ files = 0 /\ adds = 0
  /\ scanning = TRUE
  /\ doc = NoDoc /\ ok = FALSE /\ profile = NoProfile
  /\ mentions = {} /\ merged = {}

\* The items of one declaration have different ids: they go in in any order.
AddItems(ms) ==
  /\ scanning
  /\ files < MaxFiles /\ adds < MaxAdds
  /\ rec' = _add_all(rec, ms)
  /\ adds' = adds + 1
  /\ mentions' = mentions \cup ms
  /\ UNCHANGED <<agg, files, scanning, doc, ok, profile, merged>>

\* The adapter of the file reads its next declaration.
Declare(k, ms) ==
  /\ kind \in {"none", k}
  /\ kind' = k
  /\ AddItems(ms)

\* A policy without any key or allow rule is one gate, named for its package
\* and without a reason; _from_rego returns.
RegoPackage(n, lb) ==
  /\ kind = "none"
  /\ kind' = "read"
  /\ AddItems({Item("gates", n, lb, NoReason)})

\* Seeded fault: the record of a file is folded in again and again.
EndFile_keeps_record ==
  /\ scanning
  /\ _has_facts(rec)
  /\ agg' = _merge_record(agg, rec)
  /\ files' = files + 1
  /\ merged' = merged \cup {<<i, rec.reason[i]>> : i \in Ids}
  /\ kind' = "none"
  /\ UNCHANGED <<rec, adds, scanning, doc, ok, profile, mentions>>

\* _extract_dir folds the record of the file into the aggregate.
EndFile ==
  /\ scanning
  /\ _has_facts(rec)
  /\ agg' = _merge_record(agg, rec)
  /\ kind' = "none" /\ rec' = _empty
  /\ files' = files + 1
  /\ merged' = merged \cup {<<i, rec.reason[i]>> : i \in Ids}
  /\ UNCHANGED <<adds, scanning, doc, ok, profile, mentions>>

\* run_pipeline after ingest: generate, validate, score.
RunPipeline ==
  /\ scanning
  /\ ~ _has_facts(rec)
  /\ scanning' = FALSE
  /\ doc' = generate(agg)
  /\ ok' = validate(generate(agg))
  /\ profile' = ProfileOf(generate(agg))
  /\ UNCHANGED <<kind, rec, agg, files, adds, mentions, merged>>

Next ==
  \/ \E k \in Kinds : \E ms \in Adapters[k] : Declare(k, ms)
  \/ \E n \in Names, lb \in Labels : RegoPackage(n, lb)
  \/ EndFile
  \/ RunPipeline

Spec == Init /\ [][Next]_vars

-----------------------------------------------------------------------------
(* Properties.                                                             *)

\* Every variable keeps its type.
TypeOK ==
  /\ kind \in Kinds \cup {"none", "read"}
  /\ rec \in Record /\ agg \in Record
  /\ files \in 0..MaxFiles /\ adds \in 0..MaxAdds
  /\ scanning \in BOOLEAN /\ ok \in BOOLEAN
  /\ mentions \subseteq Mention
  /\ merged \subseteq Ids \X (Reasons \cup {NoReason, Unset})
  /\ DOMAIN doc.maps \subseteq Ids
  /\ profile.score \in 0..100 /\ profile.tier \in TIERS

\* An asserted control of an action is one the canonical table gives for a
\* reason that some file named for that very action: nothing found by a verb,
\* by a merge or for another id is ever presented as asserted.
AssertedIsSourceNamed ==
  \A i \in DOMAIN doc.maps : \A m \in doc.maps[i].mappings :
    m.confidence = "asserted" =>
      \E n \in mentions : /\ n.id = i
                          /\ n.reason \in Reasons
                          /\ m.control \in Asserted[n.reason]

\* A finished scan hides no action: whatever any file declares is mapped under
\* its id, or is a Task whose label a mapped Capability carries.
NothingHidden ==
  ~scanning => \A n \in mentions :
    \/ n.id \in DOMAIN doc.maps
    \/ /\ Bucket(n.id) = "actions"
       /\ \E i \in DOMAIN doc.maps : /\ Bucket(i) = "capabilities"
                                     /\ agg.label[i] = agg.label[n.id]

\* A reason that survives its own file reaches the document whatever the order
\* of the files, unless a file declares the same gate without a reason.
NamedReasonReachesDoc ==
  ~scanning => \A p \in merged :
    p[2] \in Reasons /\ <<p[1], NoReason>> \notin merged =>
      doc.maps[p[1]].matched_via = "asserted_table"

\* The pipeline's own document always validates: run_pipeline never has to
\* report an error-level finding about what generate produced.
ValidatorAccepts == ~scanning => ok

\* The tier is honest about coverage: no tier above UNGOVERNED without an
\* asserted action, none above DEVELOPING unless at least half of the governed
\* actions are asserted, and no SOVEREIGN with less than four fifths.
TierIsEarned ==
  LET governed == Cardinality(DOMAIN doc.maps)
      covered  == Cardinality(Covered(doc))
  IN  /\ profile.tier # "UNGOVERNED" => covered > 0
      /\ profile.tier \in {"HARDENED", "SOVEREIGN"} => 2 * covered >= governed
      /\ profile.tier = "SOVEREIGN" => 5 * covered >= 4 * governed

\* Reading one more file never takes back a reason the aggregate holds nor
\* relabels an action it holds: later files only add.
LaterFilesOnlyAdd ==
  [][ \A i \in Ids :
        /\ agg.reason[i] \in Reasons => agg'.reason[i] = agg.reason[i]
        /\ i \in Items(agg) => agg'.label[i] = agg.label[i] ]_vars

\* What SPEC.md 2.3 says: when the source names a canonical reason for an
\* action, the action is matched by the asserted table.  The code keeps the
\* None of a gate's first file, and the reason a later file names is lost.
SourceNamedReasonAsserted ==
  ~scanning => \A p \in merged :
    p[2] \in Reasons => doc.maps[p[1]].matched_via = "asserted_table"
=============================================================================
