----------------------------- MODULE ScoreProofs -----------------------------
(***************************************************************************)
(* Lemmas about the arithmetic of the trust score and the frameworks of    *)
(* the canonical table, cited by the proofs about scans, edits and         *)
(* onboardings.                                                            *)
(*                                                                         *)
(* Three ratios are rounded, weighted and rounded again.  The way through *)
(* is that rounding is monotone on fractions (RoundMonotone), although it *)
(* goes to even in the middle: two roundings that would cross there are   *)
(* consecutive integers, and one of them is odd.                          *)
(***************************************************************************)
EXTENDS Crosswalk, TrustScore, TLAPS

-----------------------------------------------------------------------------
(* Rounding.                                                               *)

\* Division with remainder.
LEMMA DivMod ==
  ASSUME NEW n \in Nat, NEW d \in Nat \ {0}
  PROVE  /\ n \div d \in Nat /\ n % d \in Nat
         /\ n = d * (n \div d) + (n % d)
         /\ n % d < d
OBVIOUS

\* Rounding is to a nearest integer, and in the middle to an even one.
LEMMA RoundNearest ==
  ASSUME NEW num \in Nat, NEW den \in Nat \ {0}
  PROVE  /\ Round(num, den) \in Nat
         /\ (2 * Round(num, den) - 1) * den <= 2 * num
         /\ 2 * num <= (2 * Round(num, den) + 1) * den
         /\ Round(num, den) % 2 = 1 =>
              /\ (2 * Round(num, den) - 1) * den < 2 * num
              /\ 2 * num < (2 * Round(num, den) + 1) * den
<1>. DEFINE q == num \div den
            r == num % den
<1>1. q \in Nat /\ r \in Nat /\ num = den * q + r /\ r < den
  BY DivMod
<1>2. Round(num, den) = IF 2 * r > den \/ (2 * r = den /\ q % 2 = 1) THEN q + 1 ELSE q
  BY DEF Round
<1>. HIDE DEF q, r
<1>3. /\ (2 * q - 1) * den = 2 * (den * q) - den
      /\ (2 * q + 1) * den = 2 * (den * q) + den
      /\ (2 * (q + 1) - 1) * den = 2 * (den * q) + den
      /\ (2 * (q + 1) + 1) * den = 2 * (den * q) + 3 * den
  BY <1>1
<1>4. (q % 2 = 1 => (q + 1) % 2 = 0) /\ q % 2 \in {0, 1}
  BY <1>1
<1>5. den * q \in Nat
  BY <1>1
<1>6. CASE 2 * r > den \/ (2 * r = den /\ q % 2 = 1)
  <2>1. Round(num, den) = q + 1
    BY <1>2, <1>6
  <2>2. 2 * num = 2 * (den * q) + 2 * r
    BY <1>1, <1>5
  <2>3. /\ (2 * (q + 1) - 1) * den <= 2 * num
        /\ 2 * num <= (2 * (q + 1) + 1) * den
        /\ 2 * num < (2 * (q + 1) + 1) * den
        /\ 2 * r > den => (2 * (q + 1) - 1) * den < 2 * num
    BY <1>1, <1>3, <1>5, <1>6, <2>2
  <2>4. (q + 1) % 2 = 1 => 2 * r > den
    BY <1>4, <1>6, <1>1
  <2>. QED BY <1>1, <2>1, <2>3, <2>4
<1>7. CASE ~(2 * r > den \/ (2 * r = den /\ q % 2 = 1))
  <2>1. Round(num, den) = q
    BY <1>2, <1>7
  <2>2. 2 * num = 2 * (den * q) + 2 * r
    BY <1>1, <1>5
  <2>3. /\ (2 * q - 1) * den <= 2 * num
        /\ (2 * q - 1) * den < 2 * num
        /\ 2 * num <= (2 * q + 1) * den
        /\ 2 * r < den => 2 * num < (2 * q + 1) * den
    BY <1>1, <1>3, <1>5, <1>7, <2>2
  <2>4. q % 2 = 1 => 2 * r < den
    BY <1>4, <1>7, <1>1
  <2>. QED BY <1>1, <2>1, <2>3, <2>4
<1>. QED BY <1>6, <1>7

\* Of two fractions the larger one does not round to less.
LEMMA RoundMonotone ==
  ASSUME NEW n1 \in Nat, NEW d1 \in Nat \ {0}, NEW n2 \in Nat, NEW d2 \in Nat \ {0},
         n1 * d2 <= n2 * d1
  PROVE  Round(n1, d1) <= Round(n2, d2)
<1>. DEFINE r1 == Round(n1, d1)
            r2 == Round(n2, d2)
<1>1. /\ r1 \in Nat /\ r2 \in Nat
      /\ (2 * r1 - 1) * d1 <= 2 * n1
      /\ 2 * n2 <= (2 * r2 + 1) * d2
      /\ r1 % 2 = 1 => (2 * r1 - 1) * d1 < 2 * n1
      /\ r2 % 2 = 1 => 2 * n2 < (2 * r2 + 1) * d2
  BY RoundNearest
<1>. HIDE DEF r1, r2
<1>. SUFFICES ASSUME r1 > r2 PROVE FALSE
  BY <1>1 DEF r1, r2
<1>. DEFINE a == 2 * r1 - 1
            b == 2 * r2 + 1
            D == d1 * d2
<1>2. a \in Int /\ b \in Int /\ D \in Nat \ {0} /\ b <= a
  BY <1>1
<1>3. (a * d1) * d2 <= (2 * n1) * d2
  BY <1>1, <1>2
<1>4. (2 * n2) * d1 <= (b * d2) * d1
  BY <1>1, <1>2
<1>5. (a * d1) * d2 = a * D /\ (b * d2) * d1 = b * D
  BY <1>2
<1>6. (2 * n1) * d2 <= (2 * n2) * d1
  OBVIOUS
<1>7. b * D <= a * D
  BY <1>2
<1>8. a * D = b * D /\ (2 * n1) * d2 = a * D /\ (2 * n2) * d1 = b * D
  BY <1>2, <1>3, <1>4, <1>5, <1>6, <1>7
<1>9. a = b
  BY <1>2, <1>8
<1>10. r1 = r2 + 1
  BY <1>1, <1>9
<1>11. r1 % 2 = 1 \/ r2 % 2 = 1
  BY <1>1, <1>10
<1>12. CASE r1 % 2 = 1
  <2>1. a * d1 < 2 * n1
    BY <1>1, <1>12
  <2>2. (a * d1) * d2 < (2 * n1) * d2
    BY <2>1, <1>2
  <2>. QED BY <1>2, <1>5, <1>8, <2>2
<1>13. CASE r2 % 2 = 1
  <2>1. 2 * n2 < b * d2
    BY <1>1, <1>13
  <2>2. (2 * n2) * d1 < (b * d2) * d1
    BY <2>1, <1>2
  <2>. QED BY <1>2, <1>5, <1>8, <2>2
<1>. QED BY <1>11, <1>12, <1>13

-----------------------------------------------------------------------------
(* The subscores.                                                          *)

\* A share of a whole is a percentage; nothing of it is none.
LEMMA PercentBounds ==
  ASSUME NEW part \in Nat, NEW whole \in Nat, part <= whole
  PROVE  /\ Percent(part, whole) \in 0..100
         /\ part = 0 => Percent(part, whole) = 0
<1>1. CASE whole = 0
  BY <1>1 DEF Percent
<1>2. CASE whole # 0
  <2>. DEFINE p == Round(100 * part, whole)
  <2>1. /\ p \in Nat
        /\ (2 * p - 1) * whole <= 2 * (100 * part)
        /\ p % 2 = 1 => (2 * p - 1) * whole < 2 * (100 * part)
    BY <1>2, RoundNearest
  <2>. HIDE DEF p
  <2>2. p <= 100
    <3>. SUFFICES ASSUME p > 100 PROVE FALSE
      BY <2>1
    <3>1. 201 * whole <= (2 * p - 1) * whole
      BY <2>1, <1>2
    <3>. QED BY <2>1, <3>1, <1>2
  <2>3. part = 0 => p = 0
    <3>. SUFFICES ASSUME part = 0, p > 0 PROVE FALSE
      BY <2>1
    <3>1. 1 * whole <= (2 * p - 1) * whole
      BY <2>1, <1>2
    <3>. QED BY <2>1, <3>1, <1>2
  <2>4. Percent(part, whole) = p
    BY <1>2 DEF Percent, p
  <2>. QED BY <2>1, <2>2, <2>3, <2>4
<1>. QED BY <1>1, <1>2

\* The larger share has no smaller percentage.
LEMMA PercentMonotone ==
  ASSUME NEW p1 \in Nat, NEW w1 \in Nat, p1 <= w1,
         NEW p2 \in Nat, NEW w2 \in Nat, p2 <= w2,
         p1 * w2 <= p2 * w1, w2 = 0 => p1 = 0
  PROVE  Percent(p1, w1) <= Percent(p2, w2)
<1>1. /\ Percent(p1, w1) \in 0..100 /\ Percent(p2, w2) \in 0..100
      /\ p1 = 0 => Percent(p1, w1) = 0
  BY PercentBounds
<1>2. CASE w1 = 0 \/ w2 = 0
  BY <1>1, <1>2
<1>3. CASE w1 # 0 /\ w2 # 0
  <2>1. (100 * p1) * w2 <= (100 * p2) * w1
    <3>1. (100 * p1) * w2 = 100 * (p1 * w2) /\ (100 * p2) * w1 = 100 * (p2 * w1)
      OBVIOUS
    <3>. QED BY <3>1
  <2>2. Round(100 * p1, w1) <= Round(100 * p2, w2)
    BY <1>3, <2>1, RoundMonotone
  <2>. QED BY <1>3, <2>2 DEF Percent
<1>. QED BY <1>2, <1>3

\* A percentage is at most half a point more than the share.
LEMMA PercentEarned ==
  ASSUME NEW part \in Nat, NEW whole \in Nat, part <= whole,
         NEW k \in Nat \ {0}, Percent(part, whole) >= k
  PROVE  (2 * k - 1) * whole <= 200 * part
<1>1. CASE whole = 0
  BY <1>1 DEF Percent
<1>2. CASE whole # 0
  <2>. DEFINE p == Round(100 * part, whole)
  <2>0. 100 * part \in Nat /\ whole \in Nat \ {0}
    BY <1>2
  <2>1. p \in Nat /\ (2 * p - 1) * whole <= 2 * (100 * part)
    BY <2>0, RoundNearest
  <2>2. p >= k
    BY <1>2 DEF Percent
  <2>. HIDE DEF p
  <2>3. (2 * k - 1) * whole <= (2 * p - 1) * whole
    BY <2>1, <2>2
  <2>. QED BY <2>1, <2>3
<1>. QED BY <1>1, <1>2

\* Breadth grows with the frameworks, and three of them are three quarters.
LEMMA BreadthValues ==
  ASSUME NEW n \in Nat
  PROVE  Breadth(n) = IF n < 4 THEN 25 * n ELSE 100
<1>1. n = 0 \/ n = 1 \/ n = 2 \/ n = 3 \/ n >= 4
  OBVIOUS
<1>. QED BY <1>1 DEF Breadth, BreadthCeiling, Percent, Round

\* The structure subscore is a percentage.
LEMMA StructureBounds ==
  ASSUME NEW typed \in BOOLEAN, NEW connected \in BOOLEAN, NEW nodes \in Nat
  PROVE  Structure(typed, connected, nodes) \in 0..100
BY DEF Structure

-----------------------------------------------------------------------------
(* The total.                                                              *)

\* The weighted sum of percentages is one.
LEMMA TotalBounds ==
  ASSUME NEW c \in 0..100, NEW r \in 0..100, NEW b \in 0..100, NEW s \in 0..100
  PROVE  /\ Total(c, r, b, s) \in 0..100
         /\ (2 * Total(c, r, b, s) - 1) * 50 <= 45 * c + 25 * r + 15 * b + 15 * s
<1>. DEFINE n == 45 * c + 25 * r + 15 * b + 15 * s
            t == Round(n, 100)
<1>1. n \in Nat /\ n <= 10000
  OBVIOUS
<1>. HIDE DEF n
<1>2. t \in Nat /\ (2 * t - 1) * 100 <= 2 * n
  BY <1>1, RoundNearest
<1>3. Total(c, r, b, s) = t
  BY DEF Total, n
<1>. HIDE DEF t
<1>4. t <= 100 /\ (2 * t - 1) * 50 <= n
  BY <1>1, <1>2
<1>. QED BY <1>2, <1>3, <1>4 DEF n

\* No subscore grows while the total falls.
LEMMA TotalMonotone ==
  ASSUME NEW c1 \in 0..100, NEW r1 \in 0..100, NEW b1 \in 0..100, NEW s1 \in 0..100,
         NEW c2 \in 0..100, NEW r2 \in 0..100, NEW b2 \in 0..100, NEW s2 \in 0..100,
         c1 <= c2, r1 <= r2, b1 <= b2, s1 <= s2
  PROVE  Total(c1, r1, b1, s1) <= Total(c2, r2, b2, s2)
<1>. DEFINE n1 == 45 * c1 + 25 * r1 + 15 * b1 + 15 * s1
            n2 == 45 * c2 + 25 * r2 + 15 * b2 + 15 * s2
<1>1. n1 \in Nat /\ n2 \in Nat /\ n1 * 100 <= n2 * 100
  OBVIOUS
<1>2. Total(c1, r1, b1, s1) = Round(n1, 100) /\ Total(c2, r2, b2, s2) = Round(n2, 100)
  BY DEF Total
<1>. HIDE DEF n1, n2
<1>. QED BY <1>1, <1>2, RoundMonotone

-----------------------------------------------------------------------------
(* The score.                                                              *)

\* Counts the code can have: the asserted actions are mapped, the mapped ones
\* governed.
Counts(governed, mapped, asserted) ==
  /\ governed \in Nat /\ mapped \in Nat /\ asserted \in Nat
  /\ asserted <= mapped /\ mapped <= governed

\* Coverage and rigor are percentages, and none without an asserted action.
LEMMA ShareBounds ==
  ASSUME NEW g, NEW m, NEW a, Counts(g, m, a)
  PROVE  /\ Percent(a, g) \in 0..100 /\ Percent(a, m) \in 0..100
         /\ a = 0 => Percent(a, g) = 0 /\ Percent(a, m) = 0
<1>1. a \in Nat /\ g \in Nat /\ m \in Nat /\ a <= g /\ a <= m
  BY DEF Counts
<1>2. Percent(a, g) \in 0..100 /\ (a = 0 => Percent(a, g) = 0)
  BY <1>1, PercentBounds
<1>3. Percent(a, m) \in 0..100 /\ (a = 0 => Percent(a, m) = 0)
  BY <1>1, PercentBounds
<1>. QED BY <1>2, <1>3

\* The score of any such document is one of 0..100.
LEMMA ScoreBounds ==
  ASSUME NEW g, NEW m, NEW a, Counts(g, m, a), NEW f \in Nat, NEW s \in 0..100
  PROVE  Score(g, m, a, f, s) \in 0..100
<1>1. Percent(a, g) \in 0..100 /\ Percent(a, m) \in 0..100
  BY ShareBounds
<1>2. Breadth(f) \in 0..100
  BY BreadthValues
<1>. QED BY <1>1, <1>2, TotalBounds DEF Score

\* A document with at least the shares, the frameworks and the structure of
\* another one has at least its score, whatever the rounding does.
LEMMA ScoreMonotone ==
  ASSUME NEW g1, NEW m1, NEW a1, Counts(g1, m1, a1), NEW f1 \in Nat, NEW s1 \in 0..100,
         NEW g2, NEW m2, NEW a2, Counts(g2, m2, a2), NEW f2 \in Nat, NEW s2 \in 0..100,
         a1 * g2 <= a2 * g1, a1 * m2 <= a2 * m1, m2 = 0 => a1 = 0,
         f1 <= f2, s1 <= s2
  PROVE  Score(g1, m1, a1, f1, s1) <= Score(g2, m2, a2, f2, s2)
<1>1. /\ Percent(a1, g1) \in 0..100 /\ Percent(a1, m1) \in 0..100
      /\ Percent(a2, g2) \in 0..100 /\ Percent(a2, m2) \in 0..100
  BY ShareBounds
<1>2. /\ Breadth(f1) \in 0..100 /\ Breadth(f2) \in 0..100
      /\ Breadth(f1) <= Breadth(f2)
  BY BreadthValues
<1>3. Percent(a1, g1) <= Percent(a2, g2)
  <2>1. a1 <= g1 /\ a2 <= g2 /\ (g2 = 0 => a1 = 0)
    BY DEF Counts
  <2>. QED BY <2>1, PercentMonotone DEF Counts
<1>4. Percent(a1, m1) <= Percent(a2, m2)
  BY PercentMonotone DEF Counts
<1>. QED BY <1>1, <1>2, <1>3, <1>4, TotalMonotone DEF Score

\* The bands of the score.
LEMMA TierBands ==
  ASSUME NEW score \in 0..100
  PROVE  /\ TierFor(score) \in TIERS
         /\ TierFor(score) # "UNGOVERNED" => score >= 50
         /\ TierFor(score) \in {"HARDENED", "SOVEREIGN"} => score >= 75
         /\ TierFor(score) = "SOVEREIGN" => score >= 90
BY DEF TierFor, TIERS

\* With the three frameworks the table asserts, a tier is earned by coverage:
\* no asserted action, no tier; HARDENED takes half of the actions asserted, and
\* SOVEREIGN, with the percentage rounded up, 84.5 percent of them.
LEMMA TierTakesCoverage ==
  ASSUME NEW g, NEW m, NEW a, Counts(g, m, a), NEW f \in 0..3, NEW s \in 0..100
  PROVE  LET tier == TierFor(Score(g, m, a, f, s))
         IN  /\ a = 0 => tier = "UNGOVERNED"
             /\ tier \in {"HARDENED", "SOVEREIGN"} => 2 * a >= g
             /\ tier = "SOVEREIGN" => 1000 * a >= 845 * g
<1>. DEFINE c == Percent(a, g)
            r == Percent(a, m)
            b == Breadth(f)
            score == Total(c, r, b, s)
            tier == TierFor(score)
<1>1. /\ c \in 0..100 /\ r \in 0..100
      /\ a = 0 => c = 0 /\ r = 0
  BY ShareBounds
<1>2. b \in 0..75 /\ b \in 0..100
  BY BreadthValues
<1>. HIDE DEF c, r, b
<1>. HIDE DEF score
<1>3. /\ score \in 0..100
      /\ (2 * score - 1) * 50 <= 45 * c + 25 * r + 15 * b + 15 * s
  <2>1. score = Total(c, r, b, s)
    BY DEF score
  <2>2. c \in 0..100 /\ r \in 0..100 /\ b \in 0..100 /\ s \in 0..100
    BY <1>1, <1>2
  <2>3. Total(c, r, b, s) \in 0..100
    BY <2>2, TotalBounds
  <2>4. (2 * Total(c, r, b, s) - 1) * 50 <= 45 * c + 25 * r + 15 * b + 15 * s
    BY <2>2, TotalBounds
  <2>. QED BY <2>1, <2>3, <2>4
<1>4. /\ tier \in TIERS
      /\ tier # "UNGOVERNED" => score >= 50
      /\ tier \in {"HARDENED", "SOVEREIGN"} => score >= 75
      /\ tier = "SOVEREIGN" => score >= 90
  BY <1>3, TierBands
<1>. HIDE DEF tier
<1>5. /\ a = 0 => score < 50
      /\ score >= 75 => c >= 52
      /\ score >= 90 => c >= 85
  BY <1>1, <1>2, <1>3
<1>6. a \in Nat /\ g \in Nat /\ a <= g
  BY DEF Counts
<1>7. ASSUME c >= 52 PROVE 2 * a >= g
  <2>1. (2 * 52 - 1) * g <= 200 * a
    BY <1>6, <1>7, PercentEarned DEF c
  <2>. QED BY <1>6, <2>1
<1>8. ASSUME c >= 85 PROVE 1000 * a >= 845 * g
  <2>1. (2 * 85 - 1) * g <= 200 * a
    BY <1>6, <1>8, PercentEarned DEF c
  <2>. QED BY <1>6, <2>1
<1>9. /\ a = 0 => tier = "UNGOVERNED"
      /\ tier \in {"HARDENED", "SOVEREIGN"} => 2 * a >= g
      /\ tier = "SOVEREIGN" => 1000 * a >= 845 * g
  BY <1>3, <1>4, <1>5, <1>7, <1>8
<1>. QED BY <1>9 DEF Score, tier, score, c, r, b
-----------------------------------------------------------------------------
(* The frameworks of the table.                                            *)

\* The framework of a control is its first component.
LEMMA FirstOfPair == \A f, id, c : c = <<f, id>> => c[1] = f
OBVIOUS

\* The asserted controls of reason r come from the frameworks of F.
HasRow(r, F) == /\ \A c \in Asserted[r] : c[1] \in F
                /\ \A f \in F : \E c \in Asserted[r] : c[1] = f

LEMMA HasFramework ==
  ASSUME NEW r, NEW f, NEW id, <<f, id>> \in Asserted[r]
  PROVE  \E c \in Asserted[r] : c[1] = f
BY FirstOfPair

\* The ten reasons of the table.
LEMMA AllReasons ==
  Reasons =
    {"dual_control_required", "over_threshold", "beneficiary_unverified",
     "human_review_required", "classification_above_ceiling", "out_of_scope_domain",
     "regulated_egress_blocked", "change_freeze_active", "approval_required",
     "high_blast_needs_named_approver"}
BY DEF Reasons, Asserted

\* Each row of the table asserts controls of two or three frameworks.
LEMMA TableFrameworks ==
  /\ HasRow("dual_control_required", {NIST, EU, OWASP})
  /\ HasRow("over_threshold", {NIST, EU, OWASP})
  /\ HasRow("beneficiary_unverified", {NIST, EU, OWASP})
  /\ HasRow("human_review_required", {EU, OWASP})
  /\ HasRow("classification_above_ceiling", {NIST, EU, OWASP})
  /\ HasRow("out_of_scope_domain", {NIST, OWASP})
  /\ HasRow("regulated_egress_blocked", {NIST, EU, OWASP})
  /\ HasRow("change_freeze_active", {NIST, OWASP})
  /\ HasRow("approval_required", {NIST, EU, OWASP})
  /\ HasRow("high_blast_needs_named_approver", {NIST, EU})
<1>1. HasRow("dual_control_required", {NIST, EU, OWASP})
  <2>1. Asserted["dual_control_required"] =
          {<<NIST, "AC-5">>, <<EU, "Art 14">>, <<OWASP, "LLM06">>}
    BY DEF Asserted
  <2>2. \A c \in Asserted["dual_control_required"] : c[1] \in {NIST, EU, OWASP}
    BY <2>1, FirstOfPair
  <2>3. /\ <<NIST, "AC-5">> \in Asserted["dual_control_required"]
        /\ <<EU, "Art 14">> \in Asserted["dual_control_required"]
        /\ <<OWASP, "LLM06">> \in Asserted["dual_control_required"]
    BY <2>1
  <2>. QED BY <2>2, <2>3, HasFramework DEF HasRow
<1>2. HasRow("over_threshold", {NIST, EU, OWASP})
  <2>1. Asserted["over_threshold"] =
          {<<NIST, "AC-3">>, <<NIST, "AC-6">>, <<EU, "Art 14">>, <<OWASP, "LLM06">>}
    BY DEF Asserted
  <2>2. \A c \in Asserted["over_threshold"] : c[1] \in {NIST, EU, OWASP}
    BY <2>1, FirstOfPair
  <2>3. /\ <<NIST, "AC-3">> \in Asserted["over_threshold"]
        /\ <<EU, "Art 14">> \in Asserted["over_threshold"]
        /\ <<OWASP, "LLM06">> \in Asserted["over_threshold"]
    BY <2>1
  <2>. QED BY <2>2, <2>3, HasFramework DEF HasRow
<1>3. HasRow("beneficiary_unverified", {NIST, EU, OWASP})
  <2>1. Asserted["beneficiary_unverified"] =
          {<<NIST, "AC-3">>, <<EU, "Art 10">>, <<OWASP, "LLM06">>}
    BY DEF Asserted
  <2>2. \A c \in Asserted["beneficiary_unverified"] : c[1] \in {NIST, EU, OWASP}
    BY <2>1, FirstOfPair
  <2>3. /\ <<NIST, "AC-3">> \in Asserted["beneficiary_unverified"]
        /\ <<EU, "Art 10">> \in Asserted["beneficiary_unverified"]
        /\ <<OWASP, "LLM06">> \in Asserted["beneficiary_unverified"]
    BY <2>1
  <2>. QED BY <2>2, <2>3, HasFramework DEF HasRow
<1>4. HasRow("human_review_required", {EU, OWASP})
  <2>1. Asserted["human_review_required"] =
          {<<EU, "Art 14">>, <<OWASP, "LLM06">>}
    BY DEF Asserted
  <2>2. \A c \in Asserted["human_review_required"] : c[1] \in {EU, OWASP}
    BY <2>1, FirstOfPair
  <2>3. /\ <<EU, "Art 14">> \in Asserted["human_review_required"]
        /\ <<OWASP, "LLM06">> \in Asserted["human_review_required"]
    BY <2>1
  <2>. QED BY <2>2, <2>3, HasFramework DEF HasRow
<1>5. HasRow("classification_above_ceiling", {NIST, EU, OWASP})
  <2>1. Asserted["classification_above_ceiling"] =
          {<<NIST, "RA-2">>, <<NIST, "AC-4">>, <<EU, "Art 10">>, <<OWASP, "LLM02">>}
    BY DEF Asserted
  <2>2. \A c \in Asserted["classification_above_ceiling"] : c[1] \in {NIST, EU, OWASP}
    BY <2>1, FirstOfPair
  <2>3. /\ <<NIST, "RA-2">> \in Asserted["classification_above_ceiling"]
        /\ <<EU, "Art 10">> \in Asserted["classification_above_ceiling"]
        /\ <<OWASP, "LLM02">> \in Asserted["classification_above_ceiling"]
    BY <2>1
  <2>. QED BY <2>2, <2>3, HasFramework DEF HasRow
<1>6. HasRow("out_of_scope_domain", {NIST, OWASP})
  <2>1. Asserted["out_of_scope_domain"] =
          {<<NIST, "AC-6">>, <<NIST, "AC-3">>, <<OWASP, "LLM06">>}
    BY DEF Asserted
  <2>2. \A c \in Asserted["out_of_scope_domain"] : c[1] \in {NIST, OWASP}
    BY <2>1, FirstOfPair
  <2>3. /\ <<NIST, "AC-6">> \in Asserted["out_of_scope_domain"]
        /\ <<OWASP, "LLM06">> \in Asserted["out_of_scope_domain"]
    BY <2>1
  <2>. QED BY <2>2, <2>3, HasFramework DEF HasRow
<1>7. HasRow("regulated_egress_blocked", {NIST, EU, OWASP})
  <2>1. Asserted["regulated_egress_blocked"] =
          {<<NIST, "AC-4">>, <<NIST, "SC-7">>, <<EU, "Art 10">>, <<OWASP, "LLM02">>}
    BY DEF Asserted
  <2>2. \A c \in Asserted["regulated_egress_blocked"] : c[1] \in {NIST, EU, OWASP}
    BY <2>1, FirstOfPair
  <2>3. /\ <<NIST, "AC-4">> \in Asserted["regulated_egress_blocked"]
        /\ <<EU, "Art 10">> \in Asserted["regulated_egress_blocked"]
        /\ <<OWASP, "LLM02">> \in Asserted["regulated_egress_blocked"]
    BY <2>1
  <2>. QED BY <2>2, <2>3, HasFramework DEF HasRow
<1>8. HasRow("change_freeze_active", {NIST, OWASP})
  <2>1. Asserted["change_freeze_active"] =
          {<<NIST, "CM-3">>, <<NIST, "CM-5">>, <<OWASP, "LLM06">>}
    BY DEF Asserted
  <2>2. \A c \in Asserted["change_freeze_active"] : c[1] \in {NIST, OWASP}
    BY <2>1, FirstOfPair
  <2>3. /\ <<NIST, "CM-3">> \in Asserted["change_freeze_active"]
        /\ <<OWASP, "LLM06">> \in Asserted["change_freeze_active"]
    BY <2>1
  <2>. QED BY <2>2, <2>3, HasFramework DEF HasRow
<1>9. HasRow("approval_required", {NIST, EU, OWASP})
  <2>1. Asserted["approval_required"] =
          {<<NIST, "CM-3">>, <<EU, "Art 14">>, <<OWASP, "LLM06">>}
    BY DEF Asserted
  <2>2. \A c \in Asserted["approval_required"] : c[1] \in {NIST, EU, OWASP}
    BY <2>1, FirstOfPair
  <2>3. /\ <<NIST, "CM-3">> \in Asserted["approval_required"]
        /\ <<EU, "Art 14">> \in Asserted["approval_required"]
        /\ <<OWASP, "LLM06">> \in Asserted["approval_required"]
    BY <2>1
  <2>. QED BY <2>2, <2>3, HasFramework DEF HasRow
<1>10. HasRow("high_blast_needs_named_approver", {NIST, EU})
  <2>1. Asserted["high_blast_needs_named_approver"] =
          {<<NIST, "CM-4">>, <<NIST, "AC-5">>, <<EU, "Art 14">>}
    BY DEF Asserted
  <2>2. \A c \in Asserted["high_blast_needs_named_approver"] : c[1] \in {NIST, EU}
    BY <2>1, FirstOfPair
  <2>3. /\ <<NIST, "CM-4">> \in Asserted["high_blast_needs_named_approver"]
        /\ <<EU, "Art 14">> \in Asserted["high_blast_needs_named_approver"]
    BY <2>1
  <2>. QED BY <2>2, <2>3, HasFramework DEF HasRow
<1>. QED BY <1>1, <1>2, <1>3, <1>4, <1>5, <1>6, <1>7, <1>8, <1>9, <1>10

\* Whatever is asserted comes from one of three frameworks.
LEMMA AssertedFrameworks ==
  ASSUME NEW r \in Reasons, NEW c \in Asserted[r]
  PROVE  c[1] \in {NIST, EU, OWASP}
BY AllReasons, TableFrameworks DEF HasRow

=============================================================================
