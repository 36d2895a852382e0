-------------------------- MODULE TrustEditsProofs --------------------------
(***************************************************************************)
(* What an edit of the source does to the trust score, for ontologies of   *)
(* any size.                                                               *)
(*                                                                         *)
(* The score is a function of the counts (ScoreInv), so every claim about  *)
(* an edit compares two documents: cross-multiplied shares, frameworks and *)
(* structure, which is what ScoreMonotone asks for.                        *)
(***************************************************************************)
EXTENDS TrustEdits, ScoreProofs

Counted(a, h, u) == /\ a \in [FrameworkSets -> Nat]
                    /\ h \in Nat /\ u \in Nat

ScoreInv == score = score_of(asserted, heuristic, ungoverned)

IInv == /\ Counted(asserted, heuristic, ungoverned)
        /\ Actions <= MaxActions
        /\ ScoreInv

-----------------------------------------------------------------------------
(* The framework sets of the table.                                        *)

\* The reasons of the table come from four sets of frameworks, the ones that
\* Covered adds up.
LEMMA TableSets ==
  FrameworkSets = {{NIST, EU, OWASP}, {NIST, OWASP}, {EU, OWASP}, {NIST, EU}}
<1>1. \A r, F : HasRow(r, F) => FrameworksOf(r) = F
  BY DEF HasRow, FrameworksOf
<1>. QED BY <1>1, AllReasons, TableFrameworks DEF FrameworkSets

\* The four sets differ.
LEMMA SetsDiffer ==
  /\ {NIST, EU, OWASP} # {NIST, OWASP}
  /\ {NIST, EU, OWASP} # {EU, OWASP}
  /\ {NIST, EU, OWASP} # {NIST, EU}
  /\ {NIST, OWASP} # {EU, OWASP}
  /\ {NIST, OWASP} # {NIST, EU}
  /\ {EU, OWASP} # {NIST, EU}
<1>1. NIST # EU /\ NIST # OWASP /\ EU # OWASP
  BY DEF NIST, EU, OWASP
<1>2. \A n, e, o : n # e /\ n # o /\ e # o =>
        /\ {n, e, o} # {n, o} /\ {n, e, o} # {e, o} /\ {n, e, o} # {n, e}
        /\ {n, o} # {e, o} /\ {n, o} # {n, e} /\ {e, o} # {n, e}
  OBVIOUS
<1>. QED BY <1>1, <1>2

\* One asserted action more or less is one more or less in the sum.
LEMMA CoveredSteps ==
  ASSUME NEW a \in [FrameworkSets -> Nat], NEW f \in FrameworkSets
  PROVE  /\ Covered(a) \in Nat
         /\ Covered([a EXCEPT ![f] = @ + 1]) = Covered(a) + 1
         /\ a[f] > 0 => Covered([a EXCEPT ![f] = @ - 1]) = Covered(a) - 1
<1>. DEFINE w == {NIST, EU, OWASP}
            x == {NIST, OWASP}
            y == {EU, OWASP}
            z == {NIST, EU}
<1>1. /\ FrameworkSets = {w, x, y, z}
      /\ w # x /\ w # y /\ w # z /\ x # y /\ x # z /\ y # z
  BY TableSets, SetsDiffer
<1>2. \A b : Covered(b) = b[w] + b[x] + b[y] + b[z]
  BY DEF Covered
<1>. HIDE DEF w, x, y, z
<1>3. a[w] \in Nat /\ a[x] \in Nat /\ a[y] \in Nat /\ a[z] \in Nat
  BY <1>1
<1>4. f = w \/ f = x \/ f = y \/ f = z
  BY <1>1
<1>5. Covered(a) \in Nat
  BY <1>2, <1>3
<1>6. Covered([a EXCEPT ![f] = @ + 1]) = Covered(a) + 1
  <2>. DEFINE b == [a EXCEPT ![f] = @ + 1]
  <2>1. b[f] = a[f] + 1 /\ \A g \in FrameworkSets : g # f => b[g] = a[g]
    OBVIOUS
  <2>. HIDE DEF b
  <2>2. Covered(b) = Covered(a) + 1
    BY <1>1, <1>2, <1>3, <1>4, <2>1
  <2>. QED BY <2>2 DEF b
<1>7. ASSUME a[f] > 0 PROVE Covered([a EXCEPT ![f] = @ - 1]) = Covered(a) - 1
  <2>. DEFINE b == [a EXCEPT ![f] = @ - 1]
  <2>1. b[f] = a[f] - 1 /\ \A g \in FrameworkSets : g # f => b[g] = a[g]
    OBVIOUS
  <2>. HIDE DEF b
  <2>2. Covered(b) = Covered(a) - 1
    BY <1>1, <1>2, <1>3, <1>4, <2>1
  <2>. QED BY <2>2 DEF b
<1>. QED BY <1>5, <1>6, <1>7

\* Taking away asserted actions brings in no framework; there are three.
LEMMA FrameworkCounts ==
  ASSUME NEW a \in [FrameworkSets -> Nat], NEW b \in [FrameworkSets -> Nat],
         \A f \in FrameworkSets : a[f] <= b[f]
  PROVE  FwCount(a) \in 0..3 /\ FwCount(a) <= FwCount(b)
<1>1. Frameworks(a) \subseteq Frameworks(b)
  BY DEF Frameworks
<1>. QED BY <1>1 DEF FwCount

\* A first action connects the document; more of them change nothing.
LEMMA StructureGrows ==
  ASSUME NEW m \in Nat, NEW n \in Nat, m <= n
  PROVE  /\ StructureOf(m) \in 0..100
         /\ StructureOf(m) <= StructureOf(n)
         /\ m > 0 => StructureOf(m) = StructureOf(n)
BY DEF StructureOf, Structure

-----------------------------------------------------------------------------
(* The invariant.                                                          *)

\* The counts of a document of this model are counts the score is defined for.
LEMMA DocumentCounts ==
  ASSUME NEW a, NEW h, NEW u, Counted(a, h, u)
  PROVE  /\ Counts(Covered(a) + h + u, Covered(a) + h, Covered(a))
         /\ FwCount(a) \in 0..3
         /\ StructureOf(Covered(a) + h + u) \in 0..100
<1>1. h \in Nat /\ u \in Nat /\ a \in [FrameworkSets -> Nat]
  BY DEF Counted
<1>2. Covered(a) \in Nat
  <2>1. {NIST, EU, OWASP} \in FrameworkSets
    BY TableSets
  <2>. QED BY <1>1, <2>1, CoveredSteps
<1>3. FwCount(a) \in 0..3
  BY <1>1, FrameworkCounts
<1>4. StructureOf(Covered(a) + h + u) \in 0..100
  BY <1>1, <1>2, StructureGrows
<1>. QED BY <1>1, <1>2, <1>3, <1>4 DEF Counts

\* The score of such a document is a percentage.
LEMMA ScoreIsPercentage ==
  ASSUME NEW a, NEW h, NEW u, Counted(a, h, u)
  PROVE  score_of(a, h, u) \in 0..100
<1>. DEFINE c == Covered(a)
            f == FwCount(a)
            s == StructureOf(c + h + u)
<1>1. Counts(c + h + u, c + h, c) /\ f \in Nat /\ s \in 0..100
  BY DocumentCounts
<1>2. score_of(a, h, u) = Score(c + h + u, c + h, c, f, s)
  BY DEF score_of
<1>. HIDE DEF c, f, s
<1>. QED BY <1>1, <1>2, ScoreBounds

\* No count is above the total.
LEMMA CountsFit ==
  ASSUME IInv PROVE TypeOK
<1>3. score \in 0..100
  BY ScoreIsPercentage DEF IInv, ScoreInv
<1>4. /\ asserted \in [FrameworkSets -> Nat] /\ heuristic \in Nat /\ ungoverned \in Nat
      /\ Covered(asserted) + heuristic + ungoverned <= MaxActions
      /\ Covered(asserted) \in Nat
  BY DocumentCounts DEF IInv, Counted, Actions, Counts
<1>5. \A f \in FrameworkSets : asserted[f] <= Covered(asserted)
  <2>. DEFINE w == {NIST, EU, OWASP}
              x == {NIST, OWASP}
              y == {EU, OWASP}
              z == {NIST, EU}
  <2>1. FrameworkSets = {w, x, y, z}
    BY TableSets
  <2>2. Covered(asserted) = asserted[w] + asserted[x] + asserted[y] + asserted[z]
    BY DEF Covered
  <2>. HIDE DEF w, x, y, z
  <2>3. asserted[w] \in Nat /\ asserted[x] \in Nat /\ asserted[y] \in Nat
        /\ asserted[z] \in Nat
    BY <1>4, <2>1
  <2>. QED BY <2>1, <2>2, <2>3
<1>6. MaxActions \in Nat
  BY MaxActionsAssumption
<1>7. /\ heuristic \in 0..MaxActions /\ ungoverned \in 0..MaxActions
      /\ \A f \in FrameworkSets : asserted[f] \in 0..MaxActions
  BY <1>4, <1>5, <1>6
<1>. QED BY <1>3, <1>4, <1>7 DEF TypeOK

\* An empty source is a document.
LEMMA InitInv == Init => IInv
<1>. SUFFICES ASSUME Init PROVE IInv
  OBVIOUS
<1>1. Counted(asserted, heuristic, ungoverned)
  BY DEF Init, Counted
<1>2. Covered(asserted) = 0
  BY TableSets DEF Init, Covered
<1>3. Actions <= MaxActions
  BY <1>2, MaxActionsAssumption DEF Init, Actions
<1>. QED BY <1>1, <1>3 DEF IInv, ScoreInv, Init

\* What each edit does to the counts.
LEMMA EditSteps ==
  ASSUME IInv, Next
  PROVE  /\ Counted(asserted, heuristic, ungoverned)'
         /\ LET c == Covered(asserted)
            IN  \/ /\ Covered(asserted)' = c + 1 /\ Actions < MaxActions
                   /\ UNCHANGED <<heuristic, ungoverned>>
                \/ /\ UNCHANGED asserted /\ Actions < MaxActions
                   /\ heuristic' = heuristic + 1 /\ UNCHANGED ungoverned
                \/ /\ UNCHANGED asserted /\ Actions < MaxActions
                   /\ ungoverned' = ungoverned + 1 /\ UNCHANGED heuristic
                \/ /\ Covered(asserted)' = c + 1
                   /\ \A f \in FrameworkSets : asserted[f] <= asserted'[f]
                   /\ heuristic > 0 /\ heuristic' = heuristic - 1 /\ UNCHANGED ungoverned
                \/ /\ Covered(asserted)' = c + 1
                   /\ \A f \in FrameworkSets : asserted[f] <= asserted'[f]
                   /\ ungoverned > 0 /\ ungoverned' = ungoverned - 1
                   /\ UNCHANGED heuristic
                \/ /\ UNCHANGED asserted
                   /\ heuristic > 0 /\ heuristic' = heuristic - 1 /\ UNCHANGED ungoverned
                \/ /\ UNCHANGED asserted
                   /\ ungoverned > 0 /\ ungoverned' = ungoverned - 1
                   /\ UNCHANGED heuristic
                \/ /\ c > 0 /\ Covered(asserted)' = c - 1
                   /\ \A f \in FrameworkSets : asserted'[f] <= asserted[f]
                   /\ UNCHANGED <<heuristic, ungoverned>>
<1>. DEFINE c == Covered(asserted)
<1>0. /\ asserted \in [FrameworkSets -> Nat] /\ heuristic \in Nat /\ ungoverned \in Nat
  BY DEF IInv, Counted
<1>1. ASSUME NEW f \in FrameworkSets, asserted' = [asserted EXCEPT ![f] = @ + 1]
      PROVE  /\ asserted' \in [FrameworkSets -> Nat]
             /\ Covered(asserted)' = c + 1
             /\ \A g \in FrameworkSets : asserted[g] <= asserted'[g]
  <2>1. asserted' \in [FrameworkSets -> Nat]
    BY <1>0, <1>1
  <2>2. Covered(asserted') = c + 1
    BY <1>0, <1>1, CoveredSteps
  <2>3. Covered(asserted)' = Covered(asserted')
    BY DEF Covered
  <2>4. \A g \in FrameworkSets : asserted[g] <= asserted'[g]
    BY <1>0, <1>1
  <2>. QED BY <2>1, <2>2, <2>3, <2>4
<1>2. ASSUME NEW f \in FrameworkSets, asserted[f] > 0,
             asserted' = [asserted EXCEPT ![f] = @ - 1]
      PROVE  /\ asserted' \in [FrameworkSets -> Nat]
             /\ c > 0 /\ Covered(asserted)' = c - 1
             /\ \A g \in FrameworkSets : asserted'[g] <= asserted[g]
  <2>1. asserted' \in [FrameworkSets -> Nat]
    BY <1>0, <1>2
  <2>2. Covered(asserted') = c - 1
    BY <1>0, <1>2, CoveredSteps
  <2>3. Covered(asserted)' = Covered(asserted')
    BY DEF Covered
  <2>4. \A g \in FrameworkSets : asserted'[g] <= asserted[g]
    BY <1>0, <1>2
  <2>5. Covered(asserted') \in Nat /\ c \in Nat
    BY <1>0, <2>1, CoveredSteps
  <2>. QED BY <2>1, <2>2, <2>3, <2>4, <2>5
<1>3. \A r \in Reasons : FrameworksOf(r) \in FrameworkSets
  BY DEF FrameworkSets
<1>. HIDE DEF c
<1>4. ASSUME NEW r \in Reasons, AddAsserted(r)
      PROVE  /\ Counted(asserted, heuristic, ungoverned)'
             /\ Covered(asserted)' = c + 1 /\ Actions < MaxActions
             /\ UNCHANGED <<heuristic, ungoverned>>
  <2>1. /\ asserted' = [asserted EXCEPT ![FrameworksOf(r)] = @ + 1]
        /\ Actions < MaxActions /\ heuristic' = heuristic /\ ungoverned' = ungoverned
    BY <1>4 DEF AddAsserted
  <2>. QED BY <1>0, <1>1, <1>3, <2>1 DEF Counted
<1>5. ASSUME NEW r \in Reasons, NameReason(r)
      PROVE  /\ Counted(asserted, heuristic, ungoverned)'
             /\ Covered(asserted)' = c + 1
             /\ \A f \in FrameworkSets : asserted[f] <= asserted'[f]
             /\ \/ heuristic > 0 /\ heuristic' = heuristic - 1 /\ UNCHANGED ungoverned
                \/ ungoverned > 0 /\ ungoverned' = ungoverned - 1 /\ UNCHANGED heuristic
  <2>1. asserted' = [asserted EXCEPT ![FrameworksOf(r)] = @ + 1]
    BY <1>5 DEF NameReason
  <2>2. \/ heuristic > 0 /\ heuristic' = heuristic - 1 /\ UNCHANGED ungoverned
        \/ ungoverned > 0 /\ ungoverned' = ungoverned - 1 /\ UNCHANGED heuristic
    BY <1>5 DEF NameReason
  <2>3. heuristic' \in Nat /\ ungoverned' \in Nat
    BY <1>0, <2>2
  <2>. QED BY <1>1, <1>3, <2>1, <2>2, <2>3 DEF Counted
<1>6. ASSUME AddHeuristic \/ AddUngoverned
      PROVE  /\ Counted(asserted, heuristic, ungoverned)'
             /\ UNCHANGED asserted /\ Actions < MaxActions
             /\ \/ heuristic' = heuristic + 1 /\ UNCHANGED ungoverned
                \/ ungoverned' = ungoverned + 1 /\ UNCHANGED heuristic
  BY <1>0, <1>6 DEF AddHeuristic, AddUngoverned, Counted
<1>7. ASSUME Remove
      PROVE  /\ Counted(asserted, heuristic, ungoverned)'
             /\ \/ /\ UNCHANGED asserted
                   /\ heuristic > 0 /\ heuristic' = heuristic - 1 /\ UNCHANGED ungoverned
                \/ /\ UNCHANGED asserted
                   /\ ungoverned > 0 /\ ungoverned' = ungoverned - 1
                   /\ UNCHANGED heuristic
                \/ /\ c > 0 /\ Covered(asserted)' = c - 1
                   /\ \A f \in FrameworkSets : asserted'[f] <= asserted[f]
                   /\ UNCHANGED <<heuristic, ungoverned>>
  <2>1. CASE /\ heuristic > 0
             /\ heuristic' = heuristic - 1
             /\ UNCHANGED <<asserted, ungoverned>>
    BY <1>0, <2>1 DEF Counted
  <2>2. CASE /\ ungoverned > 0
             /\ ungoverned' = ungoverned - 1
             /\ UNCHANGED <<asserted, heuristic>>
    BY <1>0, <2>2 DEF Counted
  <2>3. CASE \E f \in FrameworkSets :
               /\ asserted[f] > 0
               /\ asserted' = [asserted EXCEPT ![f] = @ - 1]
               /\ UNCHANGED <<heuristic, ungoverned>>
    <3>1. PICK f \in FrameworkSets :
               /\ asserted[f] > 0
               /\ asserted' = [asserted EXCEPT ![f] = @ - 1]
               /\ UNCHANGED <<heuristic, ungoverned>>
      BY <2>3
    <3>. QED BY <1>0, <1>2, <3>1 DEF Counted
  <2>. QED BY <1>7, <2>1, <2>2, <2>3 DEF Remove
<1>. QED BY <1>4, <1>5, <1>6, <1>7 DEF Next, c

\* Every edit leaves a document and rescans it.
LEMMA NextInv == IInv /\ [Next]_vars => IInv'
<1>. SUFFICES ASSUME IInv, [Next]_vars PROVE IInv'
  OBVIOUS
<1>1. CASE UNCHANGED vars
  BY <1>1 DEF IInv, Counted, Actions, ScoreInv, score_of, Covered, FwCount,
              Frameworks, vars
<1>2. CASE Next
  <2>1. ScoreInv'
    BY <1>2 DEF Next, AddAsserted, NameReason, AddHeuristic, AddUngoverned, Remove,
                Rescan, ScoreInv
  <2>2. Counted(asserted, heuristic, ungoverned)'
    BY <1>2, EditSteps
  <2>3. Covered(asserted) \in Nat /\ heuristic \in Nat /\ ungoverned \in Nat
    BY DocumentCounts DEF IInv, Counts, Counted
  <2>4. Covered(asserted)' = Covered(asserted')
    BY DEF Covered
  <2>5. Covered(asserted') \in Nat /\ heuristic' \in Nat /\ ungoverned' \in Nat
    BY <2>2, DocumentCounts DEF Counts, Counted
  <2>6. UNCHANGED asserted => Covered(asserted') = Covered(asserted)
    OBVIOUS
  <2>7. Actions' = Covered(asserted') + heuristic' + ungoverned'
        /\ Actions = Covered(asserted) + heuristic + ungoverned
        /\ Actions <= MaxActions /\ MaxActions \in Nat
    BY <2>4, MaxActionsAssumption DEF Actions, IInv
  <2>8. Actions' <= MaxActions
    BY <1>2, EditSteps, <2>3, <2>4, <2>5, <2>6, <2>7
  <2>. QED BY <2>1, <2>2, <2>8 DEF IInv
<1>. QED BY <1>1, <1>2

\* The score of the last scan is the score of the source as it is.
THEOREM Invariance == Spec => []IInv
BY InitInv, NextInv, PTL DEF Spec

\* The counts stay in bounds and the score is a percentage.
THEOREM TypeCorrect == Spec => []TypeOK
<1>1. IInv => TypeOK
  BY CountsFit
<1>. QED BY <1>1, Invariance, PTL

\* TierIsEarned: a tier is bought by asserted actions alone.
THEOREM TierEarned == Spec => []TierIsEarned
<1>1. IInv => TierIsEarned
  <2>. SUFFICES ASSUME IInv PROVE TierIsEarned
    OBVIOUS
  <2>. DEFINE a == Covered(asserted)
              m == Covered(asserted) + heuristic
              f == FwCount(asserted)
              s == StructureOf(Actions)
  <2>1. Counts(Actions, m, a) /\ f \in 0..3 /\ s \in 0..100
    BY DocumentCounts DEF IInv, Actions
  <2>2. score = Score(Actions, m, a, f, s)
    BY DEF IInv, ScoreInv, score_of, Actions
  <2>3. a \in Nat /\ Actions \in Nat
    BY <2>1 DEF Counts
  <2>. HIDE DEF a, m, f, s
  <2>4. /\ a = 0 => TierFor(score) = "UNGOVERNED"
        /\ TierFor(score) = "SOVEREIGN" => 1000 * a >= 845 * Actions
    BY <2>1, <2>2, TierTakesCoverage
  <2>5. TierFor(score) = "SOVEREIGN" => 100 * a >= 84 * Actions
    BY <2>3, <2>4
  <2>. QED BY <2>4, <2>5 DEF TierIsEarned, a
<1>. QED BY <1>1, Invariance, PTL

-----------------------------------------------------------------------------
(* What an edit does to the score.                                         *)

\* Two documents compared: shares, frameworks and structure.
LEMMA ScoreSteps ==
  ASSUME NEW a1, NEW h1, NEW u1, Counted(a1, h1, u1),
         NEW a2, NEW h2, NEW u2, Counted(a2, h2, u2),
         LET c1 == Covered(a1)
             c2 == Covered(a2)
         IN  /\ c1 * (c2 + h2 + u2) <= c2 * (c1 + h1 + u1)
             /\ c1 * (c2 + h2) <= c2 * (c1 + h1)
             /\ c2 + h2 = 0 => c1 = 0
             /\ StructureOf(c1 + h1 + u1) <= StructureOf(c2 + h2 + u2),
         \A f \in FrameworkSets : a1[f] <= a2[f]
  PROVE  score_of(a1, h1, u1) <= score_of(a2, h2, u2)
<1>. DEFINE c1 == Covered(a1)
            c2 == Covered(a2)
            m1 == c1 + h1
            m2 == c2 + h2
            g1 == c1 + h1 + u1
            g2 == c2 + h2 + u2
            f1 == FwCount(a1)
            f2 == FwCount(a2)
            s1 == StructureOf(g1)
            s2 == StructureOf(g2)
<1>1. Counts(g1, m1, c1) /\ f1 \in Nat /\ s1 \in 0..100
  BY DocumentCounts
<1>2. Counts(g2, m2, c2) /\ f2 \in Nat /\ s2 \in 0..100
  BY DocumentCounts
<1>3. f1 <= f2
  BY FrameworkCounts DEF Counted
<1>4. /\ c1 * g2 <= c2 * g1
      /\ c1 * m2 <= c2 * m1
      /\ m2 = 0 => c1 = 0
      /\ s1 <= s2
  OBVIOUS
<1>5. /\ score_of(a1, h1, u1) = Score(g1, m1, c1, f1, s1)
      /\ score_of(a2, h2, u2) = Score(g2, m2, c2, f2, s2)
  BY DEF score_of
<1>. HIDE DEF c1, c2, m1, m2, g1, g2, f1, f2, s1, s2
<1>6. Score(g1, m1, c1, f1, s1) <= Score(g2, m2, c2, f2, s2)
  BY <1>1, <1>2, <1>3, <1>4, ScoreMonotone
<1>. QED BY <1>5, <1>6

\* The facts of a step that the three properties share: the counts on both
\* sides are natural numbers and the score follows them.
LEMMA StepFacts ==
  ASSUME IInv, Next
  PROVE  /\ Counted(asserted, heuristic, ungoverned)
         /\ Counted(asserted', heuristic', ungoverned')
         /\ Covered(asserted)' = Covered(asserted')
         /\ Covered(asserted) \in Nat /\ Covered(asserted') \in Nat
         /\ heuristic \in Nat /\ heuristic' \in Nat
         /\ ungoverned \in Nat /\ ungoverned' \in Nat
         /\ score = score_of(asserted, heuristic, ungoverned)
         /\ score' = score_of(asserted', heuristic', ungoverned')
         /\ score \in Int /\ score' \in Int
<1>1. IInv'
  BY NextInv
<1>2. Counted(asserted', heuristic', ungoverned')
  BY <1>1 DEF IInv, Counted
<1>3. Counted(asserted, heuristic, ungoverned)
  BY DEF IInv
<1>4. Covered(asserted) \in Nat /\ Covered(asserted') \in Nat
  BY <1>2, <1>3, DocumentCounts DEF Counts
<1>5. Covered(asserted)' = Covered(asserted')
  BY DEF Covered
<1>6. score = score_of(asserted, heuristic, ungoverned)
  BY DEF IInv, ScoreInv
<1>7. score' = score_of(asserted', heuristic', ungoverned')
  BY DEF Next, AddAsserted, NameReason, AddHeuristic, AddUngoverned, Remove, Rescan
<1>8. score \in Int /\ score' \in Int
  BY <1>2, <1>3, <1>6, <1>7, ScoreIsPercentage
<1>. QED BY <1>2, <1>3, <1>4, <1>5, <1>6, <1>7, <1>8 DEF Counted

\* What the structure subscore of two documents compares: their actions.
LEMMA StructureSteps ==
  ASSUME NEW m \in Nat, NEW n \in Nat
  PROVE  /\ m <= n => StructureOf(m) <= StructureOf(n)
         /\ m > 0 /\ n > 0 => StructureOf(m) = StructureOf(n)
<1>1. m > 0 /\ n > 0 => StructureOf(m) = StructureOf(n)
  BY DEF StructureOf, Structure
<1>. QED BY <1>1, StructureGrows

\* One more in the part, and one less beside it: of the whole, the share grows.
LEMMA NamedShare ==
  ASSUME NEW c \in Nat, NEW h \in Nat, NEW u \in Nat, NEW i \in Nat, NEW v \in Nat,
         \/ i = h - 1 /\ v = u
         \/ i = h /\ v = u - 1
  PROVE  /\ (c + 1) + i + v = c + h + u
         /\ c * ((c + 1) + i + v) <= (c + 1) * (c + h + u)
         /\ c * ((c + 1) + i) <= (c + 1) * (c + h)
<1>1. (c + 1) + i + v = c + h + u
  OBVIOUS
<1>2. \A k \in Nat : c * k <= (c + 1) * k
  OBVIOUS
<1>3. c + h \in Nat /\ c + h + u \in Nat /\ (c + 1) + i \in Nat
  OBVIOUS
<1>4. c * ((c + 1) + i) <= (c + 1) * (c + h)
  <2>1. (c + 1) + i = c + h \/ (c + 1) + i = (c + h) + 1
    OBVIOUS
  <2>2. c * ((c + h) + 1) = c * (c + h) + c /\ (c + 1) * (c + h) = c * (c + h) + (c + h)
    BY <1>3
  <2>3. c * (c + h) \in Nat
    BY <1>3
  <2>. QED BY <2>1, <2>2, <2>3
<1>. QED BY <1>1, <1>2, <1>3, <1>4

\* The same part of a larger whole.
LEMMA DilutedShare ==
  ASSUME NEW c \in Nat, NEW n \in Nat, NEW m \in Nat, m <= n
  PROVE  c * m <= c * n
OBVIOUS

\* One less in the part and in the whole.
LEMMA HiddenShare ==
  ASSUME NEW c \in Nat, NEW d \in Nat, d < c, NEW k \in Nat
  PROVE  d * (c + k) <= c * (d + k)
<1>1. d * (c + k) = c * d + d * k /\ c * (d + k) = c * d + c * k
  OBVIOUS
<1>2. d * k <= c * k /\ d * k \in Nat /\ c * k \in Nat /\ c * d \in Nat
  OBVIOUS
<1>. QED BY <1>1, <1>2

\* NamingNeverLowers: the named action moves from the whole into the part, of
\* coverage and of rigor; nothing else changes, and no framework goes.
THEOREM NamingPays == Spec => NamingNeverLowers
<1>. DEFINE P == (Gained(Covered(asserted)) /\ (Lost(heuristic) \/ Lost(ungoverned)))
                 => score' >= score
<1>1. ASSUME IInv, Next, Gained(Covered(asserted)), Lost(heuristic) \/ Lost(ungoverned)
      PROVE  score' >= score
  <2>. DEFINE c == Covered(asserted)
              d == Covered(asserted')
              i == heuristic'
              v == ungoverned'
  <2>1. /\ Counted(asserted, heuristic, ungoverned)
        /\ Counted(asserted', i, v)
        /\ score = score_of(asserted, heuristic, ungoverned)
        /\ score' = score_of(asserted', i, v)
        /\ score \in Int /\ score' \in Int
    BY <1>1, StepFacts
  <2>2. /\ Covered(asserted)' = d
        /\ c \in Nat /\ d \in Nat
        /\ heuristic \in Nat /\ i \in Nat
        /\ ungoverned \in Nat /\ v \in Nat
    BY <1>1, StepFacts
  <2>3. d > c /\ (i < heuristic \/ v < ungoverned)
    BY <1>1, <2>2 DEF Gained, Lost
  <2>4. UNCHANGED asserted => d = c
    OBVIOUS
  <2>5. /\ d = c + 1
        /\ \/ i = heuristic - 1 /\ v = ungoverned
           \/ i = heuristic /\ v = ungoverned - 1
    BY <1>1, EditSteps, <2>2, <2>3, <2>4
  <2>6. \A f \in FrameworkSets : asserted[f] <= asserted'[f]
    BY <1>1, EditSteps, <2>2, <2>3, <2>4
  <2>. HIDE DEF c, d, i, v
  <2>7. /\ d + i + v = c + heuristic + ungoverned
        /\ c * (d + i + v) <= d * (c + heuristic + ungoverned)
        /\ c * (d + i) <= d * (c + heuristic)
    BY <2>2, <2>5, NamedShare
  <2>8. d + i # 0 /\ c + heuristic + ungoverned \in Nat
    BY <2>2, <2>5
  <2>9. StructureOf(c + heuristic + ungoverned) <= StructureOf(d + i + v)
    BY <2>7, <2>8, StructureSteps
  <2>10. score_of(asserted, heuristic, ungoverned)
           <= score_of(asserted', i, v)
    BY <2>1, <2>6, <2>7, <2>8, <2>9, ScoreSteps DEF c, d
  <2>. QED BY <2>1, <2>10
<1>2. IInv /\ [Next]_vars => [P]_vars
  BY <1>1
<1>. QED BY <1>2, Invariance, PTL DEF NamingNeverLowers, Spec

\* UnnamedNeverRaises: the whole grows and the part does not; the structure of
\* a document with an action is complete already.
THEOREM UnnamedPaysNothing == Spec => UnnamedNeverRaises
<1>. DEFINE P == (SameAsserted /\ Actions > 0 /\ Gained(Actions)) => score' <= score
<1>1. ASSUME IInv, Next, SameAsserted, Actions > 0, Gained(Actions)
      PROVE  score' <= score
  <2>. DEFINE c == Covered(asserted)
              i == heuristic'
              v == ungoverned'
              m == c + heuristic + ungoverned
              n == c + i + v
  <2>1. /\ Counted(asserted, heuristic, ungoverned)
        /\ Counted(asserted', i, v)
        /\ score = score_of(asserted, heuristic, ungoverned)
        /\ score' = score_of(asserted', i, v)
        /\ score \in Int /\ score' \in Int
        /\ asserted' = asserted
    BY <1>1, StepFacts DEF SameAsserted
  <2>2. /\ c \in Nat
        /\ heuristic \in Nat /\ i \in Nat
        /\ ungoverned \in Nat /\ v \in Nat
    BY <1>1, StepFacts
  <2>3. Covered(asserted') = c /\ Covered(asserted)' = c
    BY <1>1, <2>1, StepFacts
  <2>4. Actions = m /\ Actions' = n
    BY <2>3 DEF Actions
  <2>5. n > m /\ m > 0
    BY <1>1, <2>4 DEF Gained
  <2>6. \/ i = heuristic + 1 /\ v = ungoverned
        \/ i = heuristic /\ v = ungoverned + 1
    <3>. HIDE DEF c, i, v
    <3>1. c + 1 # c /\ (c > 0 => c - 1 # c)
          /\ (heuristic > 0 => ~(i = heuristic - 1 /\ v = ungoverned))
          /\ (ungoverned > 0 => ~(v = ungoverned - 1 /\ i = heuristic))
      BY <2>2, <2>5
    <3>. QED BY <1>1, EditSteps, <2>3, <3>1 DEF c, i, v
  <2>. HIDE DEF c, i, v
  <2>7. /\ m \in Nat /\ n \in Nat
        /\ c + heuristic \in Nat /\ c + i \in Nat
        /\ m <= n /\ n > 0 /\ c + heuristic <= c + i
        /\ c + heuristic = 0 => c = 0
    BY <2>2, <2>5, <2>6
  <2>8. c * m <= c * n /\ c * (c + heuristic) <= c * (c + i)
    <3>. HIDE DEF m, n
    <3>. QED BY <2>2, <2>7, DilutedShare
  <2>. HIDE DEF m, n
  <2>9. StructureOf(n) \in 0..100 /\ StructureOf(n) = StructureOf(m)
    BY <2>5, <2>7, StructureGrows, StructureSteps
  <2>10. StructureOf(n) <= StructureOf(m)
    BY <2>9
  <2>11. \A f \in FrameworkSets : asserted'[f] <= asserted[f]
    BY <2>1 DEF Counted
  <2>12. score_of(asserted', i, v)
           <= score_of(asserted, heuristic, ungoverned)
    BY <2>1, <2>3, <2>7, <2>8, <2>10, <2>11, ScoreSteps DEF c, m, n
  <2>. QED BY <2>1, <2>12
<1>2. IInv /\ [Next]_vars => [P]_vars
  BY <1>1
<1>. QED BY <1>2, Invariance, PTL DEF UnnamedNeverRaises, Spec

\* HidingAssertedNeverPays: taking one from the part and one from the whole
\* makes the share smaller, unless it was everything, and then there is nothing.
THEOREM HidingPaysNothing == Spec => HidingAssertedNeverPays
<1>. DEFINE P == Lost(Covered(asserted)) => score' <= score
<1>1. ASSUME IInv, Next, Lost(Covered(asserted))
      PROVE  score' <= score
  <2>. DEFINE c == Covered(asserted)
              d == Covered(asserted')
  <2>1. /\ Counted(asserted, heuristic, ungoverned)
        /\ Counted(asserted', heuristic', ungoverned')
        /\ score = score_of(asserted, heuristic, ungoverned)
        /\ score' = score_of(asserted', heuristic', ungoverned')
        /\ score \in Int /\ score' \in Int
    BY <1>1, StepFacts
  <2>2. /\ Covered(asserted)' = d
        /\ c \in Nat /\ d \in Nat
        /\ heuristic \in Nat /\ ungoverned \in Nat
    BY <1>1, StepFacts
  <2>3. d < c
    BY <1>1, <2>2 DEF Lost
  <2>4. UNCHANGED asserted => d = c
    OBVIOUS
  <2>5. /\ d = c - 1 /\ c > 0
        /\ \A f \in FrameworkSets : asserted'[f] <= asserted[f]
        /\ heuristic' = heuristic /\ ungoverned' = ungoverned
    BY <1>1, EditSteps, <2>2, <2>3, <2>4
  <2>. HIDE DEF c, d
  <2>6. heuristic + ungoverned \in Nat
        /\ c + heuristic + ungoverned = c + (heuristic + ungoverned)
        /\ d + heuristic + ungoverned = d + (heuristic + ungoverned)
    BY <2>2
  <2>7. /\ d * (c + heuristic + ungoverned) <= c * (d + heuristic + ungoverned)
        /\ d * (c + heuristic) <= c * (d + heuristic)
    BY <2>2, <2>3, <2>6, HiddenShare
  <2>8. c + heuristic + ungoverned \in Nat /\ d + heuristic + ungoverned \in Nat
        /\ d + heuristic + ungoverned <= c + heuristic + ungoverned
        /\ c + heuristic # 0
    BY <2>2, <2>3
  <2>9. StructureOf(d + heuristic + ungoverned) <= StructureOf(c + heuristic + ungoverned)
    BY <2>8, StructureSteps
  <2>10. score_of(asserted', heuristic', ungoverned')
           <= score_of(asserted, heuristic, ungoverned)
    BY <2>1, <2>5, <2>7, <2>8, <2>9, ScoreSteps DEF c, d
  <2>. QED BY <2>1, <2>10
<1>2. IInv /\ [Next]_vars => [P]_vars
  BY <1>1
<1>. QED BY <1>2, Invariance, PTL DEF HidingAssertedNeverPays, Spec
=============================================================================
