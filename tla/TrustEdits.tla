----------------------------- MODULE TrustEdits -----------------------------
(***************************************************************************)
(* What edits of the scanned source do to the trust score between two      *)
(* scans.  The score sees an ontology as the number of its governed        *)
(* actions that carry asserted controls (counted by the set of frameworks  *)
(* those controls come from), only heuristic ones, or none.                *)
(***************************************************************************)
EXTENDS Crosswalk, TrustScore

CONSTANT MaxActions   \* bound: governed actions of the ontology

ASSUME MaxActionsAssumption == MaxActions \in Nat

VARIABLES
  asserted,    \* asserted actions, by the frameworks their reason maps to
  heuristic,   \* actions with inferred or ambiguous controls only
  ungoverned,  \* actions with matched_via "none"
  score        \* the score of the last scan
vars == <<asserted, heuristic, ungoverned, score>>

FrameworksOf(reason) == {c[1] : c \in Asserted[reason]}
FrameworkSets == {FrameworksOf(r) : r \in Reasons}

Covered(a) == a[{NIST, EU, OWASP}] + a[{NIST, OWASP}] + a[{EU, OWASP}] + a[{NIST, EU}]
\* generate: the distinct asserted frameworks of the document.
Frameworks(a) == UNION {f \in FrameworkSets : a[f] > 0}
FwCount(a) == LET fws == Frameworks(a) IN
  (IF NIST \in fws THEN 1 ELSE 0) + (IF EU \in fws THEN 1 ELSE 0)
  + (IF OWASP \in fws THEN 1 ELSE 0)

\* One Agent root and one node and one edge per action.
StructureOf(actions) == Structure(TRUE, actions > 0, actions + 1)

score_of(a, h, u) ==
  LET all == Covered(a) + h + u
  IN  Score(all, Covered(a) + h, Covered(a), FwCount(a), StructureOf(all))

Actions == Covered(asserted) + heuristic + ungoverned

Rescan == score' = score_of(asserted', heuristic', ungoverned')

-----------------------------------------------------------------------------
Init ==
  /\ asserted = [f \in FrameworkSets |-> 0]
  /\ heuristic = 0 /\ ungoverned = 0
  /\ score = score_of(asserted, heuristic, ungoverned)

\* The source gains an action that names reason r.
AddAsserted(r) ==
  /\ Actions < MaxActions
  /\ asserted' = [asserted EXCEPT ![FrameworksOf(r)] = @ + 1]
  /\ UNCHANGED <<heuristic, ungoverned>>
  /\ Rescan

AddHeuristic ==
  /\ Actions < MaxActions
  /\ heuristic' = heuristic + 1
  /\ UNCHANGED <<asserted, ungoverned>>
  /\ Rescan

AddUngoverned ==
  /\ Actions < MaxActions
  /\ ungoverned' = ungoverned + 1
  /\ UNCHANGED <<asserted, heuristic>>
  /\ Rescan

\* An action that only had heuristic controls, or none, gets reason r.
NameReason(r) ==
  /\ asserted' = [asserted EXCEPT ![FrameworksOf(r)] = @ + 1]
  /\ \/ /\ heuristic > 0
        /\ heuristic' = heuristic - 1
        /\ UNCHANGED ungoverned
     \/ /\ ungoverned > 0
        /\ ungoverned' = ungoverned - 1
        /\ UNCHANGED heuristic
  /\ Rescan

\* An action leaves the source.
Remove ==
  /\ \/ /\ heuristic > 0
        /\ heuristic' = heuristic - 1
        /\ UNCHANGED <<asserted, ungoverned>>
     \/ /\ ungoverned > 0
        /\ ungoverned' = ungoverned - 1
        /\ UNCHANGED <<asserted, heuristic>>
     \/ \E f \in FrameworkSets :
          /\ asserted[f] > 0
          /\ asserted' = [asserted EXCEPT ![f] = @ - 1]
          /\ UNCHANGED <<heuristic, ungoverned>>
  /\ Rescan

Next == \/ \E r \in Reasons : AddAsserted(r) \/ NameReason(r)
        \/ AddHeuristic
        \/ AddUngoverned
        \/ Remove

Spec == Init /\ [][Next]_vars

-----------------------------------------------------------------------------
Lost(v)   == v' < v
Gained(v) == v' > v
SameAsserted == asserted' = asserted

TypeOK ==
  /\ asserted \in [FrameworkSets -> 0..MaxActions]
  /\ heuristic \in 0..MaxActions /\ ungoverned \in 0..MaxActions
  /\ score \in 0..100

\* Naming a reason for an action never lowers the score, whatever rounding and
\* the shrinking of the other two groups do.
NamingNeverLowers ==
  [][ (Gained(Covered(asserted)) /\ (Lost(heuristic) \/ Lost(ungoverned)))
      => score' >= score ]_vars

\* Once something is governed, one more action without a source-named reason
\* never raises the score.
UnnamedNeverRaises ==
  [][ (SameAsserted /\ Actions > 0 /\ Gained(Actions)) => score' <= score ]_vars

\* Taking an asserted action out of the source never raises the score.
HidingAssertedNeverPays ==
  [][ Lost(Covered(asserted)) => score' <= score ]_vars

\* An ontology without one asserted action is UNGOVERNED however much of it
\* the heuristics match; SOVEREIGN takes 84 percent of the actions asserted.
TierIsEarned ==
  /\ Covered(asserted) = 0 => TierFor(score) = "UNGOVERNED"
  /\ TierFor(score) = "SOVEREIGN" => 100 * Covered(asserted) >= 84 * Actions
=============================================================================
