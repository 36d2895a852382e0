------------------------------ MODULE Adoption ------------------------------
(***************************************************************************)
(* A repository adopts the tool: people edit its agents, run AgentFDE      *)
(* (fde.py, onboard) on it, and merge pull requests through the gate       *)
(* (agent-governance.yml and ci/pr_check.py).  AgentFDE writes into the    *)
(* very tree the next scan reads: .cwn-fde is not among the directories    *)
(* the scan skips.  People's files are one chunk of the sorted walk, which *)
(* lies before .cwn-fde (.agents, .claude), after governance.agent.yaml or *)
(* between the two.                                                        *)
(*                                                                         *)
(* The gate is modelled for a repository that merges one pull request      *)
(* after the other, each checked against the branch it is merged into.     *)
(***************************************************************************)
EXTENDS Fde, PrGate

CONSTANTS
  OwnItems,      \* the items people write: [id, label, reason]
  MaxEdits,      \* bound: edits by people
  MaxOnboards,   \* bound: runs of AgentFDE
  MaxMerges,     \* bound: merged pull requests
  NoReport

\* The onboarding report, with its declaration read as a record.
Profiles == [score : 0..100, tier : TIERS]
Report ==
  [inside : BOOLEAN, apply : BOOLEAN,
   remediations : SUBSET [id : Ids, label : Labels, reason : Reasons,
                          confidence : {"auto", "proposed"}],
   declaration : Record, before : Profiles, after : Profiles,
   valid : BOOLEAN, first : BOOLEAN]

\* People's names are text.  Nobody names a gate after the allow rule of the
\* generated policy; a Task comes without a reason.
ASSUME AdoptionAssumption ==
  /\ OwnItems \subseteq [id : Ids, label : Labels, reason : Reasons \cup {NoReason}]
  /\ \A m \in OwnItems : /\ m.id # <<"gates", AllowName>>
                         /\ Bucket(m.id) = "actions" => m.reason = NoReason
  /\ MaxEdits \in Nat /\ MaxOnboards \in Nat /\ MaxMerges \in Nat
  /\ NoReport \notin Report

VARIABLES
  own,        \* the flat record of the files people wrote
  ownAt,      \* where those files are in the walk
  outDecl,    \* .cwn-fde/governance.agent.yaml, as the scan reads it
  outRego,    \* .cwn-fde/governance.rego
  rootDecl,   \* governance.agent.yaml next to the agent (--apply)
  outRaises,  \* a scan that reads .cwn-fde/governance.agent.yaml raises
  rootRaises, \* a scan that reads governance.agent.yaml raises
  step,       \* what the running onboarding does next
  report,     \* the onboarding that runs, or ran last with no edit since
  main,       \* the payload of the branch pull requests are merged into
  origin,     \* history: main when the gate was installed
  compared,   \* history: every merge since was compared with its base
  edits, onboards, merges

files  == <<outDecl, outRego, rootDecl, outRaises, rootRaises>>
tree   == <<own, ownAt, files>>
gate   == <<main, origin, compared, merges>>
vars   == <<tree, step, report, gate, edits, onboards>>

Steps == {"idle", "decl", "rego", "rest", "apply"}

Places == {"first", "between", "last"}
ScanRaises == outRaises \/ rootRaises

\* _extract_dir: the sorted walk, folding each file into the aggregate.
Fold(a, b, c, d) == _merge_record(_merge_record(_merge_record(a, b), c), d)
Scanned ==
  CASE ownAt = "first"   -> Fold(own, outDecl, outRego, rootDecl)
    [] ownAt = "between" -> Fold(outDecl, outRego, own, rootDecl)
    [] OTHER             -> Fold(outDecl, outRego, rootDecl, own)

Init ==
  /\ own = _empty /\ ownAt \in Places
  /\ outDecl = _empty /\ outRego = _empty /\ rootDecl = _empty
  /\ outRaises = FALSE /\ rootRaises = FALSE
  /\ step = "idle" /\ report = NoReport
  /\ main = NoPayload /\ origin = NoPayload /\ compared = TRUE
  /\ edits = 0 /\ onboards = 0 /\ merges = 0

-----------------------------------------------------------------------------
(* People.                                                                 *)

Edit ==
  /\ step = "idle" /\ edits < MaxEdits
  /\ edits' = edits + 1
  /\ report' = NoReport
  /\ UNCHANGED <<ownAt, step, gate, onboards>>

\* People add one more item to their files.
AddItem(m) ==
  /\ Edit
  /\ m.id \notin Items(own)
  /\ own' = _add(own, m)
  /\ UNCHANGED files

RemoveItem(i) ==
  /\ Edit
  /\ i \in Items(own)
  /\ own' = [label  |-> [own.label EXCEPT ![i] = NoLabel],
             reason |-> [own.reason EXCEPT ![i] = Unset]]
  /\ UNCHANGED files

\* The generated files are rejected in review.
Discard ==
  /\ Edit
  /\ \/ /\ outDecl' = _empty /\ outRaises' = FALSE /\ outRego' = _empty
        /\ UNCHANGED <<rootDecl, rootRaises>>
     \/ /\ rootDecl' = _empty /\ rootRaises' = FALSE
        /\ UNCHANGED <<outDecl, outRaises, outRego>>
  /\ UNCHANGED own

-----------------------------------------------------------------------------
(* fde.py, onboard: scan, triage, project, then write one file after the   *)
(* other.  `inside` is the default output directory.  Two fields of the    *)
(* report are history: the projected document validates, and the scan saw  *)
(* no generated file.  Where the scan raises, nothing is written.          *)

Onboard(inside, apply) ==
  /\ step = "idle" /\ onboards < MaxOnboards /\ ~ScanRaises
  /\ onboards' = onboards + 1
  /\ LET scanned == Scanned
         doc   == generate(scanned)
         rem   == triage(scanned).remediations
         after == _remediated_doc(doc, rem)
     IN  \E declaration \in generate_agentdef(rem) :
           report' = [inside |-> inside, apply |-> apply,
                      remediations |-> rem, declaration |-> declaration,
                      before |-> ProfileOf(doc), after |-> ProfileOf(after),
                      valid |-> validate(after), first |-> scanned = own]
  /\ step' = "decl"
  /\ UNCHANGED <<tree, gate, edits>>

WriteDecl ==
  /\ step = "decl"
  /\ outDecl' = IF report.inside THEN report.declaration ELSE outDecl
  /\ outRaises' = IF report.inside THEN Raises(report.remediations) ELSE outRaises
  /\ step' = "rego"
  /\ UNCHANGED <<own, ownAt, outRego, rootDecl, rootRaises>>
  /\ UNCHANGED <<report, gate, edits, onboards>>

WriteRego ==
  /\ step = "rego"
  /\ outRego' = IF report.inside THEN generate_rego(report.remediations) ELSE outRego
  /\ step' = "rest"
  /\ UNCHANGED <<own, ownAt, outDecl, outRaises, rootDecl, rootRaises>>
  /\ UNCHANGED <<report, gate, edits, onboards>>

\* ONBOARDING.md and receipt.json hold nothing a scan reads.
WriteRest ==
  /\ step = "rest"
  /\ step' = IF report.apply THEN "apply" ELSE "idle"
  /\ UNCHANGED <<tree, report, gate, edits, onboards>>

Apply ==
  /\ step = "apply"
  /\ rootDecl' = report.declaration
  /\ rootRaises' = Raises(report.remediations)
  /\ step' = "idle"
  /\ UNCHANGED <<own, ownAt, outDecl, outRaises, outRego>>
  /\ UNCHANGED <<report, gate, edits, onboards>>

\* A write raises or the process dies; the open file may be left truncated.
Fail ==
  /\ step # "idle"
  /\ step' = "idle"
  /\ report' = NoReport
  /\ \/ UNCHANGED tree
     \/ /\ step = "decl" /\ report.inside
        /\ outDecl' = _empty /\ outRaises' = FALSE
        /\ UNCHANGED <<own, ownAt, outRego, rootDecl, rootRaises>>
     \/ /\ step = "rego" /\ report.inside
        /\ outRego' = _empty
        /\ UNCHANGED <<own, ownAt, outDecl, outRaises, rootDecl, rootRaises>>
     \/ /\ step = "apply"
        /\ rootDecl' = _empty /\ rootRaises' = FALSE
        /\ UNCHANGED <<own, ownAt, outDecl, outRaises, outRego>>
  /\ UNCHANGED <<gate, edits, onboards>>

-----------------------------------------------------------------------------
(* agent-governance.yml.                                                   *)

\* A scan that raises, or is cut short, leaves no payload.
HeadPayloads == {FallbackPayload} \cup (IF ScanRaises THEN {} ELSE {_json_payload(Scanned)})

InstallGate ==
  /\ step = "idle" /\ main = NoPayload /\ ~ScanRaises
  /\ main' = _json_payload(Scanned)
  /\ origin' = main'
  /\ UNCHANGED <<tree, step, report, compared, edits, onboards, merges>>

\* A check of what the branch holds now; the scan of the base may leave no
\* payload either.
Merge ==
  /\ step = "idle" /\ main # NoPayload /\ merges < MaxMerges
  /\ \E head \in HeadPayloads, base \in {main, NoPayload} :
       /\ passed(head, base)
       /\ main' = head
       /\ compared' = (compared /\ base # NoPayload)
  /\ merges' = merges + 1
  /\ UNCHANGED <<tree, step, report, origin, edits, onboards>>

Next ==
  \/ \E m \in OwnItems : AddItem(m)
  \/ \E i \in Ids : RemoveItem(i)
  \/ Discard
  \/ \E inside, apply \in BOOLEAN : Onboard(inside, apply)
  \/ WriteDecl \/ WriteRego \/ WriteRest \/ Apply \/ Fail
  \/ InstallGate \/ Merge

Spec == Init /\ [][Next]_vars

-----------------------------------------------------------------------------
(* Properties.                                                             *)

\* Every variable keeps its type.
TypeOK ==
  /\ {own, outDecl, outRego, rootDecl} \subseteq Record
  /\ ownAt \in Places /\ {outRaises, rootRaises, compared} \subseteq BOOLEAN
  /\ step \in Steps
  /\ report \in Report \cup {NoReport}
  /\ step # "idle" => report # NoReport
  /\ main # NoPayload => DOMAIN main.maps \subseteq Ids
  /\ edits \in 0..MaxEdits /\ onboards \in 0..MaxOnboards /\ merges \in 0..MaxMerges

\* The projection never promises less than there is: declaring the proposed
\* reasons lowers no score, and the projected document validates.
ProjectionNeverLowers ==
  report # NoReport =>
    report.after.score >= report.before.score /\ report.valid

DeclaredId(x) == <<"capabilities", SlugOf[x.label]>>

\* What it takes for a declaration to stand for the actions it was made for:
\* each is a capability under its own name or a Task nothing else is named
\* after, its label survives YAML, and no two share a declared name.
ReadsAsProjected(r, rem) ==
  /\ \A x \in rem : /\ x.label \in Plain
                    /\ \/ DeclaredId(x) = x.id
                       \/ Bucket(x.id) = "actions" /\ DeclaredId(x) \notin Items(r)
  /\ \A x, y \in rem : DeclaredId(x) = DeclaredId(y) => x = y

Finished == report # NoReport /\ step = "idle"

\* The projected tier is the tier of the next scan (fde.py:103), which does not
\* raise, for a first onboarding that is applied, writes its other files
\* elsewhere and declares what ReadsAsProjected asks.
ProjectionIsReal ==
  /\ Finished /\ report.apply
  /\ report.first /\ outDecl = _empty /\ outRego = _empty
  /\ ReadsAsProjected(own, report.remediations)
  => ~ScanRaises /\ ProfileOf(generate(Scanned)) = report.after

\* The actions a scan matches by the asserted table.
ReadAsserted ==
  LET maps == ActionMaps(Scanned) IN DOMAIN maps \ Unasserted(maps)

\* What a generated declaration declares reads asserted in every later scan that
\* ends, whatever people wrote under the same name; and after an onboarding all
\* of whose labels YAML gives back the scan does end, with every remediation
\* declared.
DeclaredReadsAsserted ==
  /\ ~ScanRaises => Items(outDecl) \cup Items(rootDecl) \subseteq ReadAsserted
  /\ Finished /\ (\A x \in report.remediations : x.label \in Plain)
     => /\ ~ScanRaises
        /\ report.inside \/ report.apply =>
             \A x \in report.remediations :
               DeclaredId(x) \in Items(outDecl) \cup Items(rootDecl)

\* In every scan that ends, no generated file, whole, truncated or unread, takes
\* the asserted reading away from an action whose reason people named themselves.
OwnReasonsStay ==
  ~ScanRaises => {i \in Ids : own.reason[i] \in Reasons} \subseteq ReadAsserted

\* "Never raises on a missing / unreadable / malformed path" (ingest.py:546): no
\* tree that people edit and AgentFDE writes into makes a scan raise.
ScanNeverRaises == ~ScanRaises

\* No chain of merges, not even one with a missing base, brings in an
\* ungoverned high-risk action that was not there when the gate was installed.
RiskRatchet ==
  main # NoPayload => _ungoverned_high_risk(main) \subseteq _ungoverned_high_risk(origin)

\* As long as every merge had its base to compare with, the tier of the branch
\* is never below the one it had when the gate was installed.
TierRatchet == main # NoPayload /\ compared => _tier(main) <= _tier(origin)
=============================================================================
