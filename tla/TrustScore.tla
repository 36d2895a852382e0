----------------------------- MODULE TrustScore -----------------------------
(***************************************************************************)
(* openagentontology/trust_profile.py, score(): the arithmetic of the      *)
(* trust profile, as a function of how many actions are governed, mapped   *)
(* to anything and asserted, of the asserted frameworks, and of the        *)
(* structure subscore.                                                     *)
(***************************************************************************)
EXTENDS Integers

\* Python's round() of num/den, for num \in Nat and den > 0: half to even.
\* (The weights are floats in the code; over every combination of subscores
\* their sum rounds like the exact fraction, and the final clamp to 0..100 is
\* left out because nothing reaches it.)
Round(num, den) ==
  LET q == num \div den
      r == num % den
  IN  IF 2 * r > den \/ (2 * r = den /\ q % 2 = 1) THEN q + 1 ELSE q

Percent(part, whole) == IF whole = 0 THEN 0 ELSE Round(100 * part, whole)

BreadthCeiling == 4
Breadth(fwCount) ==
  Percent(IF fwCount < BreadthCeiling THEN fwCount ELSE BreadthCeiling,
          BreadthCeiling)

Structure(typed, connected, nodes) ==
  IF nodes = 0 THEN 0
  ELSE (IF typed THEN 40 ELSE 0) + (IF connected THEN 40 ELSE 0)
       + (IF nodes > 1 THEN 20 ELSE 0)

Total(coverage, rigor, breadth, structure) ==
  Round(45 * coverage + 25 * rigor + 15 * breadth + 15 * structure, 100)

\* Seeded fault: rigor divides the wrong way round.
Score_rigor_swapped(governed, mapped, asserted, fwCount, structure) ==
  Total(Percent(asserted, governed), Percent(mapped, asserted),
        Breadth(fwCount), structure)

\* Seeded fault: coverage leaves the ungoverned actions out of the total.
Score_of_mapped_only(governed, mapped, asserted, fwCount, structure) ==
  Total(Percent(asserted, mapped), Percent(asserted, mapped),
        Breadth(fwCount), structure)

\* Seeded fault: any mapping counts, and rigor counts the heuristic ones.
Score_any_mapping(governed, mapped, asserted, fwCount, structure) ==
  Total(Percent(mapped, governed), Percent(mapped - asserted, mapped),
        Breadth(fwCount), structure)

Score(governed, mapped, asserted, fwCount, structure) ==
  Total(Percent(asserted, governed), Percent(asserted, mapped),
        Breadth(fwCount), structure)

TierFor(score) == CASE score >= 90 -> "SOVEREIGN"
                    [] score >= 75 /\ score < 90 -> "HARDENED"
                    [] score >= 50 /\ score < 75 -> "DEVELOPING"
                    [] OTHER -> "UNGOVERNED"
TIERS == {"SOVEREIGN", "HARDENED", "DEVELOPING", "UNGOVERNED"}
=============================================================================
