--------------------------- MODULE AdoptionProofs ---------------------------
(***************************************************************************)
(* What holds of every history of edits, onboardings and merges.           *)
(*                                                                         *)
(* The two ratchets need no more than what a passed check compares.  That  *)
(* declared and named reasons keep reading as asserted rests on who may    *)
(* leave an entry without a reason in the merged record: only gates do,    *)
(* and of the generated files only the `allow` gate of the policy.         *)
(***************************************************************************)
EXTENDS Adoption, ScanProofs

AllowGate == <<"gates", AllowName>>

\* What people wrote: only gates have an entry without a reason, and no item
\* with a reason is a Task or lies under the policy's allow gate.
OwnSound ==
  /\ own \in Record
  /\ \A i \in Ids :
       /\ own.reason[i] = NoReason => Bucket(i) = "gates"
       /\ own.reason[i] \in Reasons =>
            i \in Items(own) /\ Bucket(i) # "actions" /\ i # AllowGate

\* A declaration holds capabilities, each with its reason.
DeclSound(d) ==
  /\ d \in Record
  /\ \A i \in Ids :
       /\ d.reason[i] # NoReason
       /\ i \in Items(d) => Bucket(i) = "capabilities" /\ d.reason[i] \in Reasons

\* Of a generated policy only the allow gate has no reason.
RegoSound(d) ==
  /\ d \in Record
  /\ \A i \in Ids : d.reason[i] = NoReason => i = AllowGate

TreeInv == OwnSound /\ DeclSound(outDecl) /\ DeclSound(rootDecl) /\ RegoSound(outRego)

Typed(rem) ==
  \A x \in rem : x.id \in Ids /\ x.label \in Labels /\ x.reason \in Reasons

\* What an onboarding writes is what its report declares, and it has written it
\* once it is past the step that does; it has made no scan raise whose names are
\* all readable.
ReportInv ==
  report # NoReport \/ step # "idle" =>
    /\ Typed(report.remediations)
    /\ report.declaration \in generate_agentdef(report.remediations)
    /\ report.inside /\ step # "decl" => outDecl = report.declaration
    /\ report.apply /\ step = "idle" => rootDecl = report.declaration
    /\ ~Raises(report.remediations) => ~ScanRaises

IInv == TreeInv /\ ReportInv /\ step \in Steps

-----------------------------------------------------------------------------
(* The files AgentFDE generates.                                           *)

\* triage proposes canonical reasons for labels of the record.
LEMMA TriageTyped ==
  ASSUME NEW r \in Record PROVE Typed(triage(r).remediations)
<1>. SUFFICES ASSUME NEW x \in triage(r).remediations
              PROVE  x.id \in Ids /\ x.label \in Labels /\ x.reason \in Reasons
  BY DEF Typed
<1>1. x \in {Remediation(r, ActionMaps(r), i) : i \in Unasserted(ActionMaps(r))}
      /\ x.reason \in Reasons
  BY DEF triage
<1>2. PICK i \in Unasserted(ActionMaps(r)) : x = Remediation(r, ActionMaps(r), i)
  BY <1>1
<1>3. i \in Items(r)
  BY DEF Unasserted, ActionMaps, Governed
<1>4. x.id = i /\ x.label = r.label[i]
  BY <1>2 DEF Remediation
<1>. QED BY <1>1, <1>3, <1>4 DEF Items, Record

\* Labels that a declaration gives back unchanged are readable, and no scan
\* raises over them.
LEMMA PlainNames ==
  ASSUME NEW rem, Typed(rem), \A x \in rem : x.label \in Plain
  PROVE  Readable(rem) /\ ~Raises(rem) /\ \A x \in rem : NameOf(x) = x.label
<1>1. \A x \in rem : NameOf(x) = x.label /\ x.label \in Labels
  BY DEF Typed, Plain, NameOf
<1>. QED BY <1>1, FdeAssumption DEF Readable, Raises

\* The declaration of remediations reads back as capabilities with reasons.
LEMMA DeclarationSound ==
  ASSUME NEW rem, Typed(rem), NEW d \in generate_agentdef(rem)
  PROVE  DeclSound(d)
<1>1. CASE d = _empty
  BY <1>1, EmptyRecord, ScanAssumption DEF DeclSound
<1>2. CASE Readable(rem) /\ d \in {Declared(rem, first) : first \in FirstOfSlug(rem)}
  <2>1. PICK first \in FirstOfSlug(rem) : d = Declared(rem, first)
    BY <1>2
  <2>. DEFINE slugs == {SlugOf[NameOf(x)] : x \in rem}
              isDecl(i) == Bucket(i) = "capabilities" /\ i[2] \in slugs
  <2>2. \A s \in slugs : first[s] \in rem
    BY <2>1 DEF FirstOfSlug
  <2>3. \A s \in slugs : NameOf(first[s]) \in Labels /\ first[s].reason \in Reasons
    BY <1>2, <2>2 DEF Typed, Readable
  <2>4. /\ d.label  = [i \in Ids |-> IF isDecl(i) THEN NameOf(first[i[2]]) ELSE NoLabel]
        /\ d.reason = [i \in Ids |-> IF isDecl(i) THEN first[i[2]].reason ELSE Unset]
        /\ d = [label |-> d.label, reason |-> d.reason]
    BY <2>1 DEF Declared
  <2>5. d \in Record
    BY <2>3, <2>4 DEF Record
  <2>6. ASSUME NEW i \in Ids
        PROVE  /\ d.reason[i] # NoReason
               /\ i \in Items(d) => Bucket(i) = "capabilities" /\ d.reason[i] \in Reasons
    <3>1. CASE isDecl(i)
      BY <2>3, <2>4, <3>1, ScanAssumption
    <3>2. CASE ~isDecl(i)
      BY <2>4, <3>2, ScanAssumption DEF Items
    <3>. QED BY <3>1, <3>2
  <2>. QED BY <2>5, <2>6 DEF DeclSound
<1>. QED BY <1>1, <1>2 DEF generate_agentdef

\* If YAML reads every label back, each remediation is declared under the slug
\* of its label.
LEMMA DeclarationComplete ==
  ASSUME NEW rem, Typed(rem), NEW d \in generate_agentdef(rem),
         \A x \in rem : x.label \in Plain, NEW x \in rem
  PROVE  DeclaredId(x) \in Items(d)
<1>0. Readable(rem) /\ \A y \in rem : NameOf(y) = y.label
  BY PlainNames
<1>1. PICK first \in FirstOfSlug(rem) : d = Declared(rem, first)
  BY <1>0 DEF generate_agentdef
<1>. DEFINE slugs == {SlugOf[NameOf(y)] : y \in rem}
            s == SlugOf[x.label]
<1>2. s \in slugs /\ s \in Names
  BY <1>0, FdeAssumption DEF Typed
<1>3. first[s] \in rem
  BY <1>1, <1>2 DEF FirstOfSlug
<1>4. NameOf(first[s]) \in Labels
  BY <1>0, <1>3 DEF Readable
<1>5. DeclaredId(x) \in Ids /\ Bucket(DeclaredId(x)) = "capabilities" /\ DeclaredId(x)[2] = s
  BY <1>2 DEF DeclaredId, Ids, Buckets, Bucket
<1>6. d.label = [i \in Ids |-> IF Bucket(i) = "capabilities" /\ i[2] \in slugs
                               THEN NameOf(first[i[2]]) ELSE NoLabel]
  BY <1>1 DEF Declared
<1>7. d.label[DeclaredId(x)] = NameOf(first[s])
  BY <1>2, <1>5, <1>6
<1>. QED BY <1>4, <1>5, <1>7, ScanAssumption DEF Items

\* The policy: one gate per reason, and the allow gate.
LEMMA PolicySound ==
  ASSUME NEW rem, Typed(rem) PROVE RegoSound(generate_rego(rem))
<1>. DEFINE d == generate_rego(rem)
            named(i) == \E x \in rem : i[2] = GateName[x.reason]
            it(i) == CHOOSE x \in rem : i[2] = GateName[x.reason]
<1>1. \A i \in Ids : named(i) => it(i) \in rem
  OBVIOUS
<1>2. \A i \in Ids : named(i) => it(i).reason \in Reasons
  BY <1>1 DEF Typed
<1>3. /\ d.label  = [i \in Ids |-> IF i \in PolicyGates(rem) THEN PolicyLabel ELSE NoLabel]
      /\ d.reason = [i \in Ids |-> IF i \notin PolicyGates(rem) THEN Unset
                                   ELSE IF named(i) THEN it(i).reason ELSE NoReason]
      /\ d = [label |-> d.label, reason |-> d.reason]
  BY DEF generate_rego
<1>4. d \in Record
  <2>1. d.label \in [Ids -> Labels \cup {NoLabel}]
    BY <1>3, FdeAssumption
  <2>2. d.reason \in [Ids -> Reasons \cup {NoReason, Unset}]
    <3>. HIDE DEF d, named, it
    <3>. QED BY <1>2, <1>3
  <2>. QED BY <1>3, <2>1, <2>2 DEF Record
<1>5. ASSUME NEW i \in Ids, d.reason[i] = NoReason PROVE i = AllowGate
  <2>1. i \in PolicyGates(rem) /\ ~named(i)
    BY <1>2, <1>3, <1>5, ScanAssumption
  <2>. QED BY <2>1 DEF PolicyGates, AllowGate
<1>. QED BY <1>4, <1>5 DEF RegoSound

-----------------------------------------------------------------------------
(* The projection.                                                         *)

\* Each remediation is the one of its action, which the table did not match,
\* and there are finitely many.
LEMMA RemediationsOf ==
  ASSUME NEW r
  PROVE  LET rem  == triage(r).remediations
             maps == ActionMaps(r)
         IN  /\ \A x \in rem : /\ x.id \in Unasserted(maps)
                               /\ x = Remediation(r, maps, x.id)
                               /\ x.label = r.label[x.id]
                               /\ x.reason \in Reasons
             /\ IsFiniteSet(Items(r)) => IsFiniteSet(rem)
<1>. DEFINE rem  == triage(r).remediations
            maps == ActionMaps(r)
            all  == {Remediation(r, maps, i) : i \in Unasserted(maps)}
<1>1. rem = {x \in all : x.reason \in Reasons}
  BY DEF triage
<1>2. ASSUME NEW x \in all
      PROVE  x.id \in Unasserted(maps) /\ x = Remediation(r, maps, x.id) /\ x.label = r.label[x.id]
  <2>1. PICK i \in Unasserted(maps) : x = Remediation(r, maps, i)
    OBVIOUS
  <2>2. x.id = i /\ x.label = r.label[i]
    BY <2>1 DEF Remediation
  <2>. QED BY <2>1, <2>2
<1>3. ASSUME IsFiniteSet(Items(r)) PROVE IsFiniteSet(rem)
  <2>. DEFINE f == [i \in Unasserted(maps) |-> Remediation(r, maps, i)]
  <2>1. Unasserted(maps) \subseteq Items(r)
    BY DEF Unasserted, ActionMaps, Governed
  <2>2. IsFiniteSet(Unasserted(maps))
    BY <1>3, <2>1, FS_Subset
  <2>3. f \in [Unasserted(maps) -> all] /\ \A x \in all : \E i \in Unasserted(maps) : f[i] = x
    OBVIOUS
  <2>. HIDE DEF f, all
  <2>4. IsFiniteSet(all)
    BY <2>2, <2>3, FiniteRange
  <2>. QED BY <1>1, <2>4, FS_Subset
<1>. QED BY <1>1, <1>2, <1>3

\* The reason the projection takes for an action is that of its remediation.
LEMMA ReasonOf ==
  ASSUME NEW r, NEW x \in triage(r).remediations
  PROVE  ReasonFor(triage(r).remediations, x.id) = x.reason
<1>. DEFINE rem == triage(r).remediations
<1>1. \A y \in rem : y.id = x.id => y = x
  BY RemediationsOf
<1>. HIDE DEF rem
<1>2. (CHOOSE y \in rem : y.id = x.id) = x
  BY <1>1 DEF rem
<1>. QED BY <1>2 DEF ReasonFor, rem

\* An action that the table did not match has no asserted control.
LEMMA UnassertedHasNone ==
  ASSUME NEW r, NEW i \in Unasserted(ActionMaps(r))
  PROVE  ~HasAsserted(ActionMaps(r)[i])
<1>1. /\ ActionMaps(r)[i] = map_action(VerbOf[r.label[i]], r.reason[i])
      /\ ActionMaps(r)[i].matched_via # "asserted_table"
  BY DEF Unasserted, ActionMaps
<1>2. r.reason[i] \notin Reasons
  BY <1>1, ReasonsMatchTable
<1>. QED BY <1>1, <1>2, AssertedOnlyFromTable DEF HasAsserted

\* A declared reason counts as asserted and as mapped.
LEMMA CanonicalMap ==
  ASSUME NEW reason \in Reasons
  PROVE  LET am == ActionMap("asserted_table", TableRows(reason))
         IN  /\ HasAsserted(am) /\ HasAnyMapping(am)
             /\ \A verb : am = map_action(verb, reason)
<1>1. PICK c : c \in Asserted[reason]
  BY RowsAssert
<1>2. [control |-> c, confidence |-> "asserted"] \in TableRows(reason)
  BY <1>1 DEF TableRows, Mapped
<1>3. \A verb : ActionMap("asserted_table", TableRows(reason)) = map_action(verb, reason)
  BY DEF map_action
<1>. QED BY <1>2, <1>3 DEF ActionMap, HasAsserted, HasAnyMapping

\* The projected document of a scan has its nodes, links and actions; the
\* remediated ones are asserted, the others as they were.
LEMMA RemediatedDoc ==
  ASSUME NEW r, IsFiniteSet(Items(r))
  PROVE  LET doc   == generate(r)
             rem   == triage(r).remediations
             after == _remediated_doc(doc, rem)
         IN  /\ Scored(after) /\ validate(after)
             /\ after.nodes = doc.nodes /\ after.edges = doc.edges
             /\ doc.maps = ActionMaps(r) /\ DOMAIN after.maps = DOMAIN doc.maps
             /\ Remediated(rem) \subseteq Unasserted(doc.maps)
             /\ \A x \in rem : after.maps[x.id] = ActionMap("asserted_table", TableRows(x.reason))
             /\ \A i \in DOMAIN doc.maps \ Remediated(rem) : after.maps[i] = doc.maps[i]
<1>. DEFINE doc   == generate(r)
            rem   == triage(r).remediations
            after == _remediated_doc(doc, rem)
            maps  == RemediatedMaps(doc, rem)
<1>1. /\ doc.nodes = Items(r) \cup {agent_root} /\ doc.edges = {agent_root} \X Items(r)
      /\ doc.maps = ActionMaps(r) /\ doc.frameworks = Frameworks(doc.maps)
      /\ doc = [nodes |-> doc.nodes, edges |-> doc.edges, maps |-> doc.maps,
                frameworks |-> doc.frameworks]
  BY DEF generate, Nodes, Edges
<1>2. Scored(doc) /\ Crosswalked(doc.maps)
  BY GeneratedDoc
<1>3. /\ \A x \in rem : /\ x.id \in Unasserted(doc.maps) /\ x.reason \in Reasons
                        /\ ReasonFor(rem, x.id) = x.reason
  BY <1>1, RemediationsOf, ReasonOf
<1>. HIDE DEF doc, rem
<1>4. /\ after.nodes = doc.nodes /\ after.edges = doc.edges
      /\ after.maps = maps /\ after.frameworks = Frameworks(after.maps)
  BY <1>1 DEF _remediated_doc
<1>. HIDE DEF after
<1>5. Remediated(rem) \subseteq Unasserted(doc.maps)
  BY <1>3 DEF Remediated
<1>6. DOMAIN maps = DOMAIN doc.maps
  BY DEF RemediatedMaps
<1>7. ASSUME NEW x \in rem
      PROVE  maps[x.id] = ActionMap("asserted_table", TableRows(x.reason))
  <2>1. x.id \in DOMAIN doc.maps /\ x.id \in Remediated(rem)
    BY <1>3 DEF Unasserted, Remediated
  <2>. QED BY <1>3, <2>1 DEF RemediatedMaps
<1>8. \A i \in DOMAIN doc.maps \ Remediated(rem) : maps[i] = doc.maps[i]
  BY DEF RemediatedMaps
<1>9. Crosswalked(maps)
  <2>. SUFFICES ASSUME NEW i \in DOMAIN maps
                PROVE  \E verb, reason : maps[i] = map_action(verb, reason)
    BY DEF Crosswalked
  <2>1. CASE i \in Remediated(rem)
    <3>1. PICK x \in rem : i = x.id
      BY <2>1 DEF Remediated
    <3>. QED BY <1>3, <1>7, <3>1, CanonicalMap
  <2>2. CASE i \notin Remediated(rem)
    BY <1>2, <1>6, <1>8, <2>2 DEF Crosswalked
  <2>. QED BY <2>1, <2>2
<1>10. Scored(after)
  BY <1>2, <1>4, <1>6, <1>9 DEF Scored
<1>11. validate(after)
  <2>1. after.nodes # {} /\ \A e \in after.edges : e[1] \in after.nodes /\ e[2] \in after.nodes
    BY <1>1, <1>4
  <2>. QED BY <1>4, <1>9, <2>1, CrosswalkedValid
<1>. HIDE DEF maps
<1>12. /\ Scored(after) /\ validate(after)
       /\ after.nodes = doc.nodes /\ after.edges = doc.edges
       /\ doc.maps = ActionMaps(r) /\ DOMAIN after.maps = DOMAIN doc.maps
       /\ Remediated(rem) \subseteq Unasserted(doc.maps)
       /\ \A x \in rem : after.maps[x.id] = ActionMap("asserted_table", TableRows(x.reason))
       /\ \A i \in DOMAIN doc.maps \ Remediated(rem) : after.maps[i] = doc.maps[i]
  BY <1>1, <1>4, <1>5, <1>6, <1>7, <1>8, <1>10, <1>11
<1>. QED BY <1>12 DEF after, doc, rem

\* k actions move from the unmapped or merely mapped ones to the asserted ones:
\* the share of the asserted among the mapped does not shrink.
LEMMA RigorGrows ==
  ASSUME NEW a \in Nat, NEW m \in Nat, NEW k \in Nat, NEW n \in Nat,
         a <= m, n <= m + k
  PROVE  a * n <= (a + k) * m
<1>1. a * n <= a * (m + k)
  OBVIOUS
<1>2. a * (m + k) = a * m + a * k /\ (a + k) * m = a * m + k * m
  OBVIOUS
<1>3. a * k <= k * m
  <2>1. k * a <= k * m /\ k * a = a * k
    OBVIOUS
  <2>. QED BY <2>1
<1>4. a * n \in Nat /\ a * m \in Nat /\ a * k \in Nat /\ k * m \in Nat
  OBVIOUS
<1>. QED BY <1>1, <1>2, <1>3, <1>4

\* The projected score is at least the score of the scan.
LEMMA ProjectionGrows ==
  ASSUME NEW r, IsFiniteSet(Items(r))
  PROVE  LET doc   == generate(r)
             after == _remediated_doc(doc, triage(r).remediations)
         IN  ProfileOf(after).score >= ProfileOf(doc).score
<1>. DEFINE doc   == generate(r)
            rem   == triage(r).remediations
            after == _remediated_doc(doc, rem)
            S     == Remediated(rem)
<1>1. /\ Scored(after) /\ after.nodes = doc.nodes /\ after.edges = doc.edges
      /\ doc.maps = ActionMaps(r) /\ DOMAIN after.maps = DOMAIN doc.maps
      /\ S \subseteq Unasserted(doc.maps)
      /\ \A x \in rem : after.maps[x.id] = ActionMap("asserted_table", TableRows(x.reason))
      /\ \A i \in DOMAIN doc.maps \ S : after.maps[i] = doc.maps[i]
  BY RemediatedDoc
<1>2. Scored(doc)
  BY GeneratedDoc
<1>3. \A i \in S : \E x \in rem : x.id = i /\ x.reason \in Reasons
  BY RemediationsOf DEF Remediated
<1>4. \A i \in S : i \in DOMAIN doc.maps /\ ~HasAsserted(doc.maps[i])
  BY <1>1, UnassertedHasNone DEF Unasserted
<1>. HIDE DEF doc, rem, after, S
<1>5. \A i \in S : HasAsserted(after.maps[i]) /\ HasAnyMapping(after.maps[i])
  <2>. SUFFICES ASSUME NEW i \in S
                PROVE  HasAsserted(after.maps[i]) /\ HasAnyMapping(after.maps[i])
    OBVIOUS
  <2>1. PICK x \in rem : x.id = i /\ x.reason \in Reasons
    BY <1>3
  <2>2. after.maps[i] = ActionMap("asserted_table", TableRows(x.reason))
    BY <1>1, <2>1
  <2>. QED BY <2>1, <2>2, CanonicalMap
<1>6. Covered(after) = Covered(doc) \cup S /\ Covered(doc) \cap S = {}
  BY <1>1, <1>4, <1>5 DEF Covered
<1>7. AnyMapped(after) = AnyMapped(doc) \cup S
  BY <1>1, <1>4, <1>5 DEF AnyMapped
<1>8. doc.frameworks \subseteq after.frameworks
  <2>. SUFFICES ASSUME NEW f \in Frameworks(doc.maps) PROVE f \in Frameworks(after.maps)
    BY <1>1, <1>2 DEF Scored
  <2>1. PICK m \in Mappings(doc.maps) : m.confidence = "asserted" /\ f = m.control[1]
    BY DEF Frameworks
  <2>2. PICK i \in DOMAIN doc.maps : m \in doc.maps[i].mappings
    BY DEF Mappings
  <2>3. i \notin S
    BY <1>4, <2>1, <2>2 DEF HasAsserted
  <2>4. m \in Mappings(after.maps)
    BY <1>1, <2>2, <2>3 DEF Mappings
  <2>. QED BY <2>1, <2>4 DEF Frameworks
<1>. DEFINE g  == Cardinality(DOMAIN doc.maps)
            m1 == Cardinality(AnyMapped(doc))
            a1 == Cardinality(Covered(doc))
            m2 == Cardinality(AnyMapped(after))
            a2 == Cardinality(Covered(after))
            k  == Cardinality(S)
            f1 == Cardinality(doc.frameworks \cap ALLOWED_FRAMEWORKS)
            f2 == Cardinality(after.frameworks \cap ALLOWED_FRAMEWORKS)
            s  == Structure(TRUE, doc.edges # {}, Cardinality(doc.nodes))
<1>9. Counts(g, m1, a1) /\ f1 \in 0..3 /\ s \in 0..100
  BY <1>2, DocumentCounts
<1>10. Counts(g, m2, a2) /\ f2 \in 0..3
  BY <1>1, DocumentCounts
<1>11. a2 = a1 + k /\ m2 <= m1 + k /\ k \in Nat
  <2>1. /\ IsFiniteSet(DOMAIN doc.maps) /\ S \subseteq DOMAIN doc.maps
        /\ Covered(doc) \subseteq DOMAIN doc.maps /\ AnyMapped(doc) \subseteq DOMAIN doc.maps
    BY <1>2, <1>4 DEF Scored, Covered, AnyMapped
  <2>2. IsFiniteSet(S) /\ IsFiniteSet(Covered(doc)) /\ IsFiniteSet(AnyMapped(doc))
    BY <2>1, FS_Subset
  <2>3. IsFiniteSet(AnyMapped(doc) \cap S)
    BY <2>2, FS_Intersection
  <2>4. /\ k \in Nat /\ a1 \in Nat /\ m1 \in Nat
        /\ Cardinality(AnyMapped(doc) \cap S) \in Nat
    BY <2>2, <2>3, FS_CardinalityType
  <2>5. /\ a2 = a1 + k - Cardinality(Covered(doc) \cap S)
        /\ m2 = m1 + k - Cardinality(AnyMapped(doc) \cap S)
    BY <1>6, <1>7, <2>2, FS_Union
  <2>6. Cardinality(Covered(doc) \cap S) = 0
    BY <1>6, FS_EmptySet
  <2>. HIDE DEF a1, a2, m1, m2, k
  <2>. QED BY <2>4, <2>5, <2>6
<1>12. f1 <= f2
  <2>1. after.frameworks \cap ALLOWED_FRAMEWORKS \subseteq {NIST, EU, OWASP}
    BY <1>1, ThreeFrameworks DEF Scored
  <2>2. doc.frameworks \cap ALLOWED_FRAMEWORKS
          \in SUBSET (after.frameworks \cap ALLOWED_FRAMEWORKS)
    BY <1>8
  <2>. QED BY <2>1, <2>2, FrameworkCount
<1>13. /\ ProfileOf(doc).score = Score(g, m1, a1, f1, s)
       /\ ProfileOf(after).score = Score(g, m2, a2, f2, s)
  BY <1>1 DEF ProfileOf, ScoreOf
<1>. HIDE DEF g, m1, a1, m2, a2, k, f1, f2, s
<1>14. /\ g \in Nat /\ m1 \in Nat /\ a1 \in Nat /\ m2 \in Nat /\ a2 \in Nat
       /\ a1 <= m1 /\ m1 <= g
  BY <1>9, <1>10 DEF Counts
<1>15. f1 \in Nat /\ f2 \in Nat /\ s <= s
  BY <1>9, <1>10
<1>16. /\ a1 * g <= a2 * g
       /\ a1 * m2 <= a2 * m1
       /\ m2 = 0 => a1 = 0
  <2>1. a1 * g <= a2 * g
    BY <1>11, <1>14
  <2>2. a1 * m2 <= (a1 + k) * m1
    BY <1>11, <1>14, RigorGrows
  <2>3. a2 <= m2
    BY <1>10 DEF Counts
  <2>. QED BY <1>11, <1>14, <2>1, <2>2, <2>3
<1>17. Score(g, m1, a1, f1, s) <= Score(g, m2, a2, f2, s)
  BY <1>9, <1>10, <1>12, <1>15, <1>16, ScoreMonotone
<1>18. Score(g, m1, a1, f1, s) \in 0..100 /\ Score(g, m2, a2, f2, s) \in 0..100
  BY <1>9, <1>10, <1>15, ScoreBounds
<1>19. ProfileOf(after).score >= ProfileOf(doc).score
  BY <1>13, <1>17, <1>18
<1>. QED BY <1>19 DEF after, doc, rem

-----------------------------------------------------------------------------
(* The projection and the next scan.                                       *)

\* What is asked of the record of people's files: OwnSound without the clause
\* about the policy.
Authored(r) ==
  /\ r \in Record
  /\ \A i \in Ids :
       /\ r.reason[i] = NoReason => Bucket(i) = "gates"
       /\ r.reason[i] \in Reasons => i \in Items(r) /\ Bucket(i) # "actions"

\* If no two remediations share a declared name, the declaration reads back as
\* each of them under its declared name, and nothing else.
LEMMA DeclarationReads ==
  ASSUME NEW rem, Typed(rem), \A x \in rem : x.label \in Plain,
         \A x, y \in rem : DeclaredId(x) = DeclaredId(y) => x = y,
         NEW d \in generate_agentdef(rem)
  PROVE  /\ d \in Record
         /\ Items(d) = {DeclaredId(x) : x \in rem}
         /\ \A x \in rem : /\ d.label[DeclaredId(x)] = x.label
                           /\ d.reason[DeclaredId(x)] = x.reason
         /\ \A i \in Ids \ Items(d) : d.reason[i] = Unset
<1>0. Readable(rem) /\ \A y \in rem : NameOf(y) = y.label
  BY PlainNames
<1>1. PICK first \in FirstOfSlug(rem) : d = Declared(rem, first)
  BY <1>0 DEF generate_agentdef
<1>. DEFINE slugs == {SlugOf[NameOf(y)] : y \in rem}
            isDecl(i) == Bucket(i) = "capabilities" /\ i[2] \in slugs
<1>2. d \in Record
  BY DeclarationSound DEF DeclSound
<1>3. ASSUME NEW x \in rem PROVE SlugOf[x.label] \in Names /\ DeclaredId(x) \in Ids
  <2>1. SlugOf[x.label] \in Names
    BY FdeAssumption DEF Typed
  <2>. QED BY <2>1 DEF DeclaredId, Ids, Buckets
<1>4. ASSUME NEW x \in rem PROVE first[SlugOf[x.label]] = x
  <2>. DEFINE y == first[SlugOf[x.label]]
  <2>1. y \in rem /\ SlugOf[y.label] = SlugOf[x.label]
    BY <1>0, <1>1 DEF FirstOfSlug
  <2>2. DeclaredId(y) = DeclaredId(x)
    BY <2>1 DEF DeclaredId
  <2>. HIDE DEF y
  <2>3. y = x
    BY <2>1, <2>2
  <2>. QED BY <2>3 DEF y
<1>5. /\ d.label  = [i \in Ids |-> IF isDecl(i) THEN NameOf(first[i[2]]) ELSE NoLabel]
      /\ d.reason = [i \in Ids |-> IF isDecl(i) THEN first[i[2]].reason ELSE Unset]
  BY <1>1 DEF Declared
<1>6. ASSUME NEW x \in rem
      PROVE  isDecl(DeclaredId(x)) /\ DeclaredId(x)[2] = SlugOf[x.label]
  BY <1>0 DEF DeclaredId, Bucket
<1>7. ASSUME NEW i \in Ids, isDecl(i) PROVE \E x \in rem : i = DeclaredId(x)
  <2>1. PICK x \in rem : i[2] = SlugOf[x.label]
    BY <1>0, <1>7
  <2>2. i = DeclaredId(x)
    BY <1>7, <2>1 DEF DeclaredId, Ids, Bucket
  <2>. QED BY <2>2
<1>. HIDE DEF isDecl, slugs
<1>8. ASSUME NEW x \in rem
      PROVE  d.label[DeclaredId(x)] = x.label /\ d.reason[DeclaredId(x)] = x.reason
  BY <1>0, <1>3, <1>4, <1>5, <1>6
<1>9. ASSUME NEW x \in rem PROVE DeclaredId(x) \in Items(d)
  <2>1. x.label # NoLabel
    BY ScanAssumption DEF Typed
  <2>. QED BY <1>3, <1>8, <2>1 DEF Items
<1>10. ASSUME NEW i \in Items(d) PROVE \E x \in rem : i = DeclaredId(x)
  <2>1. i \in Ids /\ d.label[i] # NoLabel
    BY DEF Items
  <2>. QED BY <1>5, <1>7, <2>1
<1>11. Items(d) = {DeclaredId(x) : x \in rem}
  BY <1>9, <1>10
<1>12. ASSUME NEW i \in Ids \ Items(d) PROVE d.reason[i] = Unset
  <2>1. ~isDecl(i)
    BY <1>7, <1>9, <1>12
  <2>. QED BY <1>5, <2>1
<1>. QED BY <1>2, <1>8, <1>11, <1>12

\* Without a canonical reason the map of an action follows from its verb.
LEMMA VerbDecides ==
  ASSUME NEW verb, NEW a, a \notin Reasons, NEW b, b \notin Reasons
  PROVE  map_action(verb, a) = map_action(verb, b)
BY DEF map_action

\* Two actions of one label, neither with a canonical reason, get the same
\* proposal: a remediation of the one makes for one of the other.
LEMMA SameLabelRemediated ==
  ASSUME NEW r, NEW x \in triage(r).remediations,
         NEW i \in Governed(r), r.label[i] = x.label, r.reason[i] \notin Reasons
  PROVE  i \in Remediated(triage(r).remediations)
<1>. DEFINE maps == ActionMaps(r)
            y    == Remediation(r, maps, i)
<1>1. /\ x.id \in Unasserted(maps) /\ x = Remediation(r, maps, x.id)
      /\ x.label = r.label[x.id] /\ x.reason \in Reasons
  BY RemediationsOf
<1>2. \A j \in Governed(r) : maps[j] = map_action(VerbOf[r.label[j]], r.reason[j])
  BY DEF ActionMaps
<1>3. DOMAIN maps = Governed(r)
  BY DEF ActionMaps
<1>. HIDE DEF maps
<1>4. x.id \in Governed(r) /\ maps[x.id].matched_via # "asserted_table"
  BY <1>1, <1>3 DEF Unasserted
<1>5. r.reason[x.id] \notin Reasons
  BY <1>2, <1>4, ReasonsMatchTable
<1>6. maps[i] = maps[x.id]
  BY <1>1, <1>2, <1>4, <1>5, VerbDecides
<1>7. i \in Unasserted(maps)
  BY <1>3, <1>4, <1>6 DEF Unasserted
<1>8. y.id = i /\ y.reason = Remediation(r, maps, x.id).reason
  BY <1>1, <1>6 DEF Remediation
<1>. HIDE DEF y
<1>9. y.id = i /\ y.reason \in Reasons
  BY <1>1, <1>8
<1>10. y \in triage(r).remediations
  BY <1>7, <1>9 DEF triage, maps, y
<1>. QED BY <1>9, <1>10 DEF Remediated

\* People's record and the declaration, folded in either order.
LEMMA FoldedWithDeclaration ==
  ASSUME NEW r, Authored(r), ReadsAsProjected(r, triage(r).remediations),
         NEW d \in generate_agentdef(triage(r).remediations),
         NEW s \in {_merge_record(r, d), _merge_record(d, r)}
  PROVE  LET rem == triage(r).remediations
         IN  /\ s \in Record
             /\ Items(s) = Items(r) \cup {DeclaredId(x) : x \in rem}
             /\ \A i \in Items(r) : s.label[i] = r.label[i]
             /\ \A i \in Items(r) \ {DeclaredId(x) : x \in rem} : s.reason[i] = r.reason[i]
             /\ \A x \in rem : /\ s.label[DeclaredId(x)] = x.label
                               /\ s.reason[DeclaredId(x)] = x.reason
<1>. DEFINE rem == triage(r).remediations
            ids == {DeclaredId(x) : x \in rem}
<1>1. r \in Record /\ Typed(rem)
  BY TriageTyped DEF Authored
<1>2. /\ \A x \in rem : x.label \in Plain
      /\ \A x, y \in rem : DeclaredId(x) = DeclaredId(y) => x = y
      /\ \A x \in rem : DeclaredId(x) = x.id \/ DeclaredId(x) \notin Items(r)
  BY DEF ReadsAsProjected
<1>3. \A x \in rem : x.id \in Unasserted(ActionMaps(r)) /\ x.label = r.label[x.id]
                     /\ x.reason \in Reasons
  BY RemediationsOf
<1>. HIDE DEF rem
<1>4. /\ d \in Record /\ Items(d) = ids
      /\ \A x \in rem : d.label[DeclaredId(x)] = x.label /\ d.reason[DeclaredId(x)] = x.reason
      /\ \A i \in Ids \ Items(d) : d.reason[i] = Unset
  BY <1>1, <1>2, DeclarationReads DEF rem
<1>5. ASSUME NEW x \in rem PROVE r.reason[DeclaredId(x)] = Unset
  <2>1. DeclaredId(x) \in Ids /\ Bucket(DeclaredId(x)) = "capabilities"
    <3>1. DeclaredId(x) \in Items(d)
      BY <1>4
    <3>. QED BY <3>1 DEF Items, DeclaredId, Bucket
  <2>2. r.reason[DeclaredId(x)] # NoReason
    BY <2>1 DEF Authored
  <2>3. r.reason[DeclaredId(x)] \notin Reasons
    <3>1. CASE DeclaredId(x) = x.id
      <4>1. x.id \in Governed(r)
            /\ ActionMaps(r)[x.id] = map_action(VerbOf[r.label[x.id]], r.reason[x.id])
            /\ ActionMaps(r)[x.id].matched_via # "asserted_table"
        BY <1>3 DEF Unasserted, ActionMaps
      <4>. QED BY <3>1, <4>1, ReasonsMatchTable
    <3>2. CASE DeclaredId(x) \notin Items(r)
      BY <2>1, <3>2 DEF Authored
    <3>. QED BY <1>2, <3>1, <3>2
  <2>. QED BY <1>1, <2>1, <2>2, <2>3 DEF Record
<1>6. ASSUME NEW x \in rem, DeclaredId(x) \in Items(r)
      PROVE  r.label[DeclaredId(x)] = x.label
  <2>1. DeclaredId(x) = x.id
    BY <1>2, <1>6
  <2>. QED BY <1>3, <2>1
<1>7. /\ s \in Record /\ Items(s) = Items(r) \cup ids
  <2>1. Items(r) \cup Items(d) = Items(d) \cup Items(r)
    OBVIOUS
  <2>. QED BY <1>1, <1>4, <2>1, MergeRecords
<1>8. ASSUME NEW i \in Ids
      PROVE  /\ s.label[i]  \in {r.label[i], d.label[i]}
             /\ r.label[i] = NoLabel => s.label[i] = d.label[i]
             /\ d.label[i] = NoLabel => s.label[i] = r.label[i]
             /\ r.reason[i] = Unset => s.reason[i] = d.reason[i]
             /\ d.reason[i] = Unset => s.reason[i] = r.reason[i]
  <2>1. CASE s = _merge_record(r, d)
    BY <2>1 DEF _merge_record
  <2>2. CASE s = _merge_record(d, r)
    BY <2>2 DEF _merge_record
  <2>. QED BY <2>1, <2>2
<1>9. ASSUME NEW x \in rem
      PROVE  s.label[DeclaredId(x)] = x.label /\ s.reason[DeclaredId(x)] = x.reason
  <2>1. DeclaredId(x) \in Ids
    <3>1. DeclaredId(x) \in Items(d)
      BY <1>4
    <3>. QED BY <3>1 DEF Items
  <2>2. s.reason[DeclaredId(x)] = x.reason
    BY <1>4, <1>5, <1>8, <2>1
  <2>3. CASE DeclaredId(x) \in Items(r)
    BY <1>4, <1>6, <1>8, <2>1, <2>2, <2>3
  <2>4. CASE DeclaredId(x) \notin Items(r)
    <3>1. r.label[DeclaredId(x)] = NoLabel
      BY <2>1, <2>4 DEF Items
    <3>. QED BY <1>4, <1>8, <2>1, <2>2, <3>1
  <2>. QED BY <2>3, <2>4
<1>10. ASSUME NEW i \in Items(r) PROVE s.label[i] = r.label[i]
  <2>1. i \in Ids
    BY DEF Items
  <2>2. CASE i \in ids
    <3>1. PICK x \in rem : i = DeclaredId(x)
      BY <2>2
    <3>. QED BY <1>6, <1>9, <3>1
  <2>3. CASE i \notin ids
    <3>1. d.label[i] = NoLabel
      BY <1>4, <2>1, <2>3 DEF Items
    <3>. QED BY <1>8, <2>1, <3>1
  <2>. QED BY <2>2, <2>3
<1>11. ASSUME NEW i \in Items(r) \ ids PROVE s.reason[i] = r.reason[i]
  <2>1. i \in Ids
    BY DEF Items
  <2>. QED BY <1>4, <1>8, <2>1
<1>. QED BY <1>7, <1>9, <1>10, <1>11 DEF rem

\* The structure subscore of a scan tells whether it has an item at all.
LEMMA StructureOf ==
  ASSUME NEW r, IsFiniteSet(Items(r)), NEW d, d.nodes = Nodes(r), d.edges = Edges(r)
  PROVE  DocStructure(d) = IF Items(r) = {} THEN 40 ELSE 100
<1>. DEFINE n == Cardinality(Items(r))
<1>1. agent_root \notin Items(r)
  BY DEF agent_root, Items, Ids, Buckets
<1>2. Cardinality(Nodes(r)) = n + 1
  BY <1>1, FS_AddElement DEF Nodes
<1>3. n \in Nat /\ (n = 0 <=> Items(r) = {})
  BY FS_CardinalityType, FS_EmptySet
<1>4. Edges(r) # {} <=> Items(r) # {}
  <2>1. \A i \in Items(r) : <<agent_root, i>> \in Edges(r)
    BY DEF Edges
  <2>2. \A e \in Edges(r) : e[2] \in Items(r)
    BY DEF Edges
  <2>. QED BY <2>1, <2>2
<1>. HIDE DEF n
<1>5. DocStructure(d) = 40 + (IF d.edges # {} THEN 40 ELSE 0) + (IF n > 0 THEN 20 ELSE 0)
  BY <1>2, <1>3 DEF DocStructure, Structure
<1>6. CASE Items(r) = {}
  BY <1>3, <1>4, <1>5, <1>6
<1>7. CASE Items(r) # {}
  BY <1>3, <1>4, <1>5, <1>7
<1>. QED BY <1>6, <1>7

\* The next scan governs the actions of the projection, the remediated ones
\* under their declared names.
LEMMA GovernedAfter ==
  ASSUME NEW r, Authored(r), ReadsAsProjected(r, triage(r).remediations),
         NEW d \in generate_agentdef(triage(r).remediations),
         NEW s \in {_merge_record(r, d), _merge_record(d, r)}
  PROVE  LET rem == triage(r).remediations
         IN  /\ Governed(s) = (Governed(r) \ Remediated(rem)) \cup {DeclaredId(x) : x \in rem}
             /\ \A x \in rem : DeclaredId(x) \notin Governed(r) \ Remediated(rem)
<1>. DEFINE rem == triage(r).remediations
            ids == {DeclaredId(x) : x \in rem}
<1>1. /\ s \in Record /\ Items(s) = Items(r) \cup ids
      /\ \A i \in Items(r) : s.label[i] = r.label[i]
      /\ \A x \in rem : s.label[DeclaredId(x)] = x.label
  BY FoldedWithDeclaration
<1>2. \A x \in rem : /\ x.id \in Unasserted(ActionMaps(r)) /\ x.label = r.label[x.id]
                     /\ x.id \in Remediated(rem)
  BY RemediationsOf DEF Remediated
<1>3. \A x \in rem : \/ DeclaredId(x) = x.id
                     \/ Bucket(x.id) = "actions" /\ DeclaredId(x) \notin Items(r)
  BY DEF ReadsAsProjected
<1>4. \A i \in Governed(r) : (\E x \in rem : r.label[i] = x.label) /\ Bucket(i) = "actions"
        => i \in Remediated(rem)
  <2>1. \A i \in Governed(r) : Bucket(i) = "actions" => r.reason[i] \notin Reasons
    BY DEF Governed, Authored, Items
  <2>. QED BY <2>1, SameLabelRemediated
<1>. HIDE DEF rem
<1>5. \A x \in rem : Bucket(DeclaredId(x)) = "capabilities"
  BY DEF DeclaredId, Bucket
<1>6. Governed(r) \subseteq Items(r)
  BY DEF Governed
<1>7. ASSUME NEW x \in rem PROVE DeclaredId(x) \notin Governed(r) \ Remediated(rem)
  BY <1>2, <1>3, <1>6
<1>8. CapabilityLabels(s) = CapabilityLabels(r) \cup {x.label : x \in rem}
  <2>1. ASSUME NEW i \in Items(s), Bucket(i) = "capabilities"
        PROVE  s.label[i] \in CapabilityLabels(r) \cup {x.label : x \in rem}
    <3>1. CASE i \in ids
      BY <1>1, <3>1
    <3>2. CASE i \in Items(r)
      BY <1>1, <2>1, <3>2 DEF CapabilityLabels
    <3>. QED BY <1>1, <3>1, <3>2
  <2>2. ASSUME NEW i \in Items(r), Bucket(i) = "capabilities"
        PROVE  r.label[i] \in CapabilityLabels(s)
    BY <1>1, <2>2 DEF CapabilityLabels
  <2>3. ASSUME NEW x \in rem PROVE x.label \in CapabilityLabels(s)
    BY <1>1, <1>5 DEF CapabilityLabels
  <2>. QED BY <2>1, <2>2, <2>3 DEF CapabilityLabels
<1>9. ASSUME NEW i \in Governed(s), i \notin ids PROVE i \in Governed(r) \ Remediated(rem)
  <2>1. i \in Items(r) /\ s.label[i] = r.label[i]
    BY <1>1, <1>9 DEF Governed
  <2>2. Bucket(i) = "actions" =>
          r.label[i] \notin CapabilityLabels(r) /\ r.label[i] \notin {x.label : x \in rem}
    BY <1>8, <2>1 DEF Governed
  <2>3. i \in Governed(r)
    BY <2>1, <2>2 DEF Governed
  <2>4. ASSUME i \in Remediated(rem) PROVE FALSE
    <3>1. PICK x \in rem : i = x.id
      BY <2>4 DEF Remediated
    <3>2. i # DeclaredId(x)
      BY <1>9
    <3>3. Bucket(i) = "actions" /\ r.label[i] = x.label
      BY <1>2, <1>3, <3>1, <3>2
    <3>. QED BY <2>2, <3>3
  <2>. QED BY <2>3, <2>4
<1>10. ASSUME NEW i \in ids PROVE i \in Governed(s)
  <2>1. i \in Items(s) /\ Bucket(i) = "capabilities"
    BY <1>1, <1>5
  <2>. QED BY <2>1 DEF Governed
<1>11. ASSUME NEW i \in Governed(r) \ Remediated(rem) PROVE i \in Governed(s)
  <2>1. i \in Items(s) /\ s.label[i] = r.label[i]
    BY <1>1, <1>6
  <2>2. Bucket(i) = "actions" => r.label[i] \notin CapabilityLabels(s)
    <3>. SUFFICES ASSUME Bucket(i) = "actions" PROVE r.label[i] \notin CapabilityLabels(s)
      OBVIOUS
    <3>1. r.label[i] \notin CapabilityLabels(r)
      BY <1>11 DEF Governed
    <3>2. r.label[i] \notin {x.label : x \in rem}
      BY <1>4, <1>11
    <3>. QED BY <1>8, <3>1, <3>2
  <2>. QED BY <2>1, <2>2 DEF Governed
<1>. QED BY <1>7, <1>9, <1>10, <1>11 DEF rem

\* The profile of the next scan is the projected one.
LEMMA NextScanIsProjected ==
  ASSUME NEW r, Authored(r), IsFiniteSet(Items(r)),
         ReadsAsProjected(r, triage(r).remediations),
         NEW d \in generate_agentdef(triage(r).remediations),
         NEW s \in {_merge_record(r, d), _merge_record(d, r)}, IsFiniteSet(Items(s))
  PROVE  ProfileOf(generate(s))
           = ProfileOf(_remediated_doc(generate(r), triage(r).remediations))
<1>. DEFINE rem   == triage(r).remediations
            doc   == generate(r)
            after == _remediated_doc(doc, rem)
            next  == generate(s)
            name(i) == <<"capabilities", SlugOf[r.label[i]]>>
            b == [i \in DOMAIN after.maps |-> IF i \in Remediated(rem) THEN name(i) ELSE i]
<1>1. /\ s \in Record /\ Items(s) = Items(r) \cup {DeclaredId(x) : x \in rem}
      /\ \A i \in Items(r) : s.label[i] = r.label[i]
      /\ \A i \in Items(r) \ {DeclaredId(x) : x \in rem} : s.reason[i] = r.reason[i]
      /\ \A x \in rem : /\ s.label[DeclaredId(x)] = x.label
                        /\ s.reason[DeclaredId(x)] = x.reason
  BY FoldedWithDeclaration
<1>2. /\ Scored(after) /\ after.nodes = doc.nodes /\ after.edges = doc.edges
      /\ doc.maps = ActionMaps(r) /\ DOMAIN after.maps = DOMAIN doc.maps
      /\ Remediated(rem) \subseteq Unasserted(doc.maps)
      /\ \A x \in rem : after.maps[x.id] = ActionMap("asserted_table", TableRows(x.reason))
      /\ \A i \in DOMAIN doc.maps \ Remediated(rem) : after.maps[i] = doc.maps[i]
  BY RemediatedDoc
<1>3. Scored(next)
  BY GeneratedDoc
<1>4. /\ next.maps = ActionMaps(s) /\ next.nodes = Nodes(s) /\ next.edges = Edges(s)
      /\ doc.nodes = Nodes(r) /\ doc.edges = Edges(r)
  BY DEF generate
<1>5. /\ Governed(s) = (Governed(r) \ Remediated(rem)) \cup {DeclaredId(x) : x \in rem}
      /\ \A x \in rem : DeclaredId(x) \notin Governed(r) \ Remediated(rem)
  BY GovernedAfter
<1>6. \A x \in rem : /\ x.label = r.label[x.id] /\ x.reason \in Reasons
                     /\ x.id \in Unasserted(ActionMaps(r))
  BY RemediationsOf
<1>7. \A x, y \in rem : DeclaredId(x) = DeclaredId(y) => x = y
  BY DEF ReadsAsProjected
<1>. HIDE DEF rem, doc, after, next
<1>8. DOMAIN after.maps = Governed(r) /\ DOMAIN next.maps = Governed(s)
  BY <1>2, <1>4 DEF ActionMaps
<1>9. Remediated(rem) \subseteq Governed(r)
  BY <1>2, <1>8 DEF Unasserted
<1>10. \A x \in rem : name(x.id) = DeclaredId(x)
  BY <1>6 DEF DeclaredId
<1>11. \A i \in Remediated(rem) : \E x \in rem : i = x.id /\ name(i) = DeclaredId(x)
  BY <1>10 DEF Remediated
<1>. HIDE DEF name
<1>12. \A i \in Governed(r) : b[i] = IF i \in Remediated(rem) THEN name(i) ELSE i
  BY <1>8
<1>. HIDE DEF b
<1>13. b \in [DOMAIN after.maps -> DOMAIN next.maps]
  <2>1. \A i \in Governed(r) : (IF i \in Remediated(rem) THEN name(i) ELSE i) \in Governed(s)
    BY <1>5, <1>11
  <2>. QED BY <1>8, <2>1 DEF b
<1>14. ASSUME NEW i \in Governed(r), NEW j \in Governed(r), b[i] = b[j] PROVE i = j
  <2>1. CASE i \in Remediated(rem) /\ j \in Remediated(rem)
    <3>1. PICK x \in rem : i = x.id /\ name(i) = DeclaredId(x)
      BY <1>11, <2>1
    <3>2. PICK y \in rem : j = y.id /\ name(j) = DeclaredId(y)
      BY <1>11, <2>1
    <3>. QED BY <1>7, <1>12, <1>14, <2>1, <3>1, <3>2
  <2>2. CASE i \in Remediated(rem) /\ j \notin Remediated(rem)
    BY <1>5, <1>11, <1>12, <1>14, <2>2
  <2>3. CASE i \notin Remediated(rem) /\ j \in Remediated(rem)
    BY <1>5, <1>11, <1>12, <1>14, <2>3
  <2>4. CASE i \notin Remediated(rem) /\ j \notin Remediated(rem)
    BY <1>12, <1>14, <2>4
  <2>. QED BY <2>1, <2>2, <2>3, <2>4
<1>15. ASSUME NEW k \in Governed(s) PROVE \E i \in Governed(r) : b[i] = k
  <2>1. CASE k \in Governed(r) \ Remediated(rem)
    BY <1>12, <2>1
  <2>2. CASE \E x \in rem : k = DeclaredId(x)
    <3>1. PICK x \in rem : k = DeclaredId(x)
      BY <2>2
    <3>2. x.id \in Remediated(rem)
      BY DEF Remediated
    <3>. QED BY <1>9, <1>10, <1>12, <3>1, <3>2
  <2>. QED BY <1>5, <2>1, <2>2
<1>16. \A k \in Governed(s) : next.maps[k] = map_action(VerbOf[s.label[k]], s.reason[k])
  BY <1>4 DEF ActionMaps
<1>17. ASSUME NEW i \in Governed(r) PROVE next.maps[b[i]] = after.maps[i]
  <2>1. CASE i \in Remediated(rem)
    <3>1. PICK x \in rem : i = x.id /\ name(i) = DeclaredId(x)
      BY <1>11, <2>1
    <3>2. b[i] = DeclaredId(x) /\ b[i] \in Governed(s)
      BY <1>5, <1>12, <2>1, <3>1
    <3>3. next.maps[b[i]] = map_action(VerbOf[x.label], x.reason)
      BY <1>1, <1>16, <3>2
    <3>4. map_action(VerbOf[x.label], x.reason) = ActionMap("asserted_table", TableRows(x.reason))
      BY <1>6, CanonicalMap
    <3>. QED BY <1>2, <3>1, <3>3, <3>4
  <2>2. CASE i \notin Remediated(rem)
    <3>1. b[i] = i /\ i \in Governed(s) /\ i \in Items(r)
      BY <1>5, <1>12, <2>2 DEF Governed
    <3>2. i \notin {DeclaredId(x) : x \in rem}
      BY <1>5, <2>2
    <3>3. next.maps[i] = map_action(VerbOf[r.label[i]], r.reason[i])
      BY <1>1, <1>16, <3>1, <3>2
    <3>4. doc.maps[i] = map_action(VerbOf[r.label[i]], r.reason[i])
      BY <1>2 DEF ActionMaps
    <3>. QED BY <1>2, <1>8, <2>2, <3>1, <3>3, <3>4
  <2>. QED BY <2>1, <2>2
<1>18. DocStructure(after) = DocStructure(next)
  <2>1. \A x \in rem : x.id \in Items(r)
    BY <1>6 DEF Unasserted, ActionMaps, Governed
  <2>2. Items(s) = {} <=> Items(r) = {}
    BY <1>1, <2>1
  <2>. QED BY <1>2, <1>4, <2>2, StructureOf
<1>19. ProfileOf(after) = ProfileOf(next)
  BY <1>2, <1>3, <1>8, <1>13, <1>14, <1>15, <1>17, <1>18, SameProfile
<1>. QED BY <1>19 DEF rem, doc, after, next

-----------------------------------------------------------------------------
(* What the next scan reads.                                               *)

\* Folding keeps, at every id, the first of the reasons entries.
LEMMA FoldedReason ==
  ASSUME NEW a \in Record, NEW b \in Record, NEW c \in Record, NEW d \in Record,
         NEW i \in Ids,
         \A r \in {a, b, c, d} : r.reason[i] # NoReason,
         \E r \in {a, b, c, d} : i \in Items(r) /\ r.reason[i] \in Reasons
  PROVE  i \in Items(Fold(a, b, c, d)) /\ Fold(a, b, c, d).reason[i] \in Reasons
<1>. DEFINE ab == _merge_record(a, b)
            abc == _merge_record(ab, c)
            m == _merge_record(abc, d)
<1>1. /\ ab \in Record /\ Items(ab) = Items(a) \cup Items(b)
      /\ ab.reason[i] = IF a.reason[i] # Unset THEN a.reason[i] ELSE b.reason[i]
  BY MergeRecords
<1>. HIDE DEF ab
<1>2. /\ abc \in Record /\ Items(abc) = Items(ab) \cup Items(c)
      /\ abc.reason[i] = IF ab.reason[i] # Unset THEN ab.reason[i] ELSE c.reason[i]
  BY <1>1, MergeRecords
<1>. HIDE DEF abc
<1>3. /\ m \in Record /\ Items(m) = Items(abc) \cup Items(d)
      /\ m.reason[i] = IF abc.reason[i] # Unset THEN abc.reason[i] ELSE d.reason[i]
  BY <1>2, MergeRecords
<1>4. i \in Items(m)
  BY <1>1, <1>2, <1>3
<1>5. m.reason[i] # NoReason
  BY <1>1, <1>2, <1>3
<1>6. m.reason[i] # Unset
  BY <1>1, <1>2, <1>3, ScanAssumption
<1>7. m.reason[i] \in Reasons
  BY <1>3, <1>5, <1>6 DEF Record
<1>. HIDE DEF m
<1>8. i \in Items(m) /\ m.reason[i] \in Reasons
  BY <1>4, <1>7
<1>. QED BY <1>8 DEF Fold, m, abc, ab

\* A scan folds the four records of the tree in some order.
LEMMA ScannedFolds ==
  \E a, b, c, d : Scanned = Fold(a, b, c, d)
                  /\ {a, b, c, d} = {outDecl, outRego, rootDecl, own}
<1>1. CASE ownAt = "first"
  <2>1. Scanned = Fold(own, outDecl, outRego, rootDecl)
    BY <1>1 DEF Scanned
  <2>2. {own, outDecl, outRego, rootDecl} = {outDecl, outRego, rootDecl, own}
    OBVIOUS
  <2>. QED BY <2>1, <2>2
<1>2. CASE ownAt = "between"
  <2>1. Scanned = Fold(outDecl, outRego, own, rootDecl)
    BY <1>2 DEF Scanned
  <2>2. {outDecl, outRego, own, rootDecl} = {outDecl, outRego, rootDecl, own}
    OBVIOUS
  <2>. QED BY <2>1, <2>2
<1>3. CASE ownAt \notin {"first", "between"}
  <2>1. Scanned = Fold(outDecl, outRego, rootDecl, own)
    BY <1>3 DEF Scanned
  <2>. QED BY <2>1
<1>. QED BY <1>1, <1>2, <1>3

\* An action with a reason reads asserted if it is no Task and no file leaves
\* its entry without one.
LEMMA ReadsAsserted ==
  ASSUME NEW i \in Ids, TreeInv, Bucket(i) # "actions",
         \A r \in {outDecl, outRego, rootDecl, own} : r.reason[i] # NoReason,
         \E r \in {outDecl, outRego, rootDecl, own} : i \in Items(r) /\ r.reason[i] \in Reasons
  PROVE  i \in ReadAsserted
<1>1. {outDecl, outRego, rootDecl, own} \subseteq Record
  BY DEF TreeInv, OwnSound, DeclSound, RegoSound
<1>2. i \in Items(Scanned) /\ Scanned.reason[i] \in Reasons
  <2>1. PICK a, b, c, d : Scanned = Fold(a, b, c, d)
                          /\ {a, b, c, d} = {outDecl, outRego, rootDecl, own}
    BY ScannedFolds
  <2>2. /\ a \in Record /\ b \in Record /\ c \in Record /\ d \in Record
        /\ \A r \in {a, b, c, d} : r.reason[i] # NoReason
        /\ \E r \in {a, b, c, d} : i \in Items(r) /\ r.reason[i] \in Reasons
    <3>1. {a, b, c, d} \subseteq Record
      BY <1>1, <2>1
    <3>. QED BY <2>1, <3>1
  <2>3. i \in Items(Fold(a, b, c, d)) /\ Fold(a, b, c, d).reason[i] \in Reasons
    BY <2>2, FoldedReason
  <2>. QED BY <2>1, <2>3
<1>. DEFINE maps == ActionMaps(Scanned)
<1>3. i \in Governed(Scanned)
  BY <1>2 DEF Governed
<1>4. i \in DOMAIN maps /\ maps[i] = map_action(VerbOf[Scanned.label[i]], Scanned.reason[i])
  BY <1>3 DEF ActionMaps
<1>5. maps[i].matched_via = "asserted_table"
  BY <1>2, <1>4, ReasonsMatchTable
<1>. QED BY <1>4, <1>5 DEF ReadAsserted, Unasserted

\* The tree keeps what is declared in a generated file asserted, and what
\* people named.
LEMMA TreeReads ==
  ASSUME TreeInv
  PROVE  /\ {i \in Ids : own.reason[i] \in Reasons} \subseteq ReadAsserted
         /\ Items(outDecl) \cup Items(rootDecl) \subseteq ReadAsserted
<1>1. ASSUME NEW i \in Ids, own.reason[i] \in Reasons PROVE i \in ReadAsserted
  <2>1. i \in Items(own) /\ Bucket(i) # "actions" /\ i # AllowGate
    BY <1>1 DEF TreeInv, OwnSound
  <2>2. own.reason[i] # NoReason
    BY <1>1, ScanAssumption
  <2>. QED BY <1>1, <2>1, <2>2, ReadsAsserted DEF TreeInv, DeclSound, RegoSound
<1>2. ASSUME NEW i \in Items(outDecl) \cup Items(rootDecl) PROVE i \in ReadAsserted
  <2>1. i \in Ids
    BY DEF Items
  <2>2. Bucket(i) = "capabilities"
    BY <2>1 DEF TreeInv, DeclSound
  <2>3. i # AllowGate
    BY <2>2 DEF Bucket, AllowGate
  <2>4. \A r \in {outDecl, outRego, rootDecl, own} : r.reason[i] # NoReason
    BY <2>1, <2>2, <2>3 DEF TreeInv, OwnSound, DeclSound, RegoSound
  <2>5. \E r \in {outDecl, rootDecl} : i \in Items(r) /\ r.reason[i] \in Reasons
    BY <2>1, <1>2 DEF TreeInv, DeclSound
  <2>. QED BY <2>1, <2>2, <2>4, <2>5, ReadsAsserted
<1>. QED BY <1>1, <1>2

-----------------------------------------------------------------------------
(* The invariant.                                                          *)

\* A record with nothing in it hides no reason and asserts none.
LEMMA EmptySound == DeclSound(_empty) /\ RegoSound(_empty)
BY EmptyRecord, ScanAssumption DEF DeclSound, RegoSound

\* A scan of the tree is a record.
LEMMA ScannedTyped == ASSUME TreeInv PROVE Scanned \in Record
<1>1. {outDecl, outRego, rootDecl, own} \subseteq Record
  BY DEF TreeInv, OwnSound, DeclSound, RegoSound
<1>2. PICK a, b, c, d : Scanned = Fold(a, b, c, d)
                        /\ {a, b, c, d} = {outDecl, outRego, rootDecl, own}
  BY ScannedFolds
<1>3. _merge_record(a, b) \in Record
  BY <1>1, <1>2, MergeRecords
<1>4. _merge_record(_merge_record(a, b), c) \in Record
  BY <1>1, <1>2, <1>3, MergeRecords
<1>. QED BY <1>1, <1>2, <1>4, MergeRecords DEF Fold

\* A repository nobody has written into yet satisfies the invariant.
LEMMA InitInv == Init => IInv
<1>. SUFFICES ASSUME Init PROVE IInv
  OBVIOUS
<1>1. OwnSound
  BY EmptyRecord, ScanAssumption DEF Init, OwnSound
<1>2. TreeInv
  BY <1>1, EmptySound DEF Init, TreeInv
<1>. QED BY <1>2 DEF Init, IInv, ReportInv, Steps, ScanRaises

\* An edit of what people wrote keeps their files sound.
LEMMA AddItemSound ==
  ASSUME OwnSound, NEW m \in OwnItems, AddItem(m) PROVE OwnSound'
<1>1. /\ m.id \in Ids /\ m.label \in Labels /\ m.reason \in Reasons \cup {NoReason}
      /\ m.id # AllowGate /\ (Bucket(m.id) = "actions" => m.reason = NoReason)
  BY AdoptionAssumption DEF AllowGate
<1>2. own' = _add(own, m) /\ m.id \notin Items(own) /\ own \in Record
  BY DEF AddItem, OwnSound
<1>3. /\ _add(own, m) \in Record
      /\ Items(_add(own, m)) = Items(own) \cup {m.id}
      /\ \A i \in Ids : \/ _add(own, m).reason[i] = own.reason[i]
                        \/ i = m.id /\ _add(own, m).reason[i] = m.reason
  BY <1>1, <1>2, AddToRecord
<1>4. Items(own)' = Items(own) \cup {m.id}
  BY <1>2, <1>3 DEF Items
<1>5. ASSUME NEW i \in Ids, own'.reason[i] = NoReason PROVE Bucket(i) = "gates"
  <2>1. CASE own.reason[i] = NoReason
    BY <2>1 DEF OwnSound
  <2>2. CASE own.reason[i] # NoReason
    <3>1. i = m.id /\ m.reason = NoReason
      BY <1>2, <1>3, <1>5, <2>2
    <3>2. own'.reason = IF Bucket(m.id) = "gates" /\ own.reason[m.id] = Unset
                        THEN [own.reason EXCEPT ![m.id] = NoReason] ELSE own.reason
      BY <1>2, <3>1, ScanAssumption DEF _add
    <3>. QED BY <1>5, <2>2, <3>1, <3>2
  <2>. QED BY <2>1, <2>2
<1>6. ASSUME NEW i \in Ids, own'.reason[i] \in Reasons
      PROVE  i \in Items(own)' /\ Bucket(i) # "actions" /\ i # AllowGate
  <2>1. CASE own'.reason[i] = own.reason[i]
    BY <1>4, <1>6, <2>1 DEF OwnSound
  <2>2. CASE i = m.id /\ own'.reason[i] = m.reason
    BY <1>1, <1>4, <1>6, <2>2, ScanAssumption
  <2>. QED BY <1>2, <1>3, <2>1, <2>2
<1>. QED BY <1>2, <1>3, <1>5, <1>6 DEF OwnSound, AllowGate

\* Deleting an item of one's own files keeps what is generated sound.
LEMMA RemoveItemSound ==
  ASSUME OwnSound, NEW j \in Ids, RemoveItem(j) PROVE OwnSound'
<1>1. /\ own' = [label  |-> [own.label EXCEPT ![j] = NoLabel],
                 reason |-> [own.reason EXCEPT ![j] = Unset]]
      /\ own \in Record
  BY DEF RemoveItem, OwnSound
<1>2. own' \in Record
  BY <1>1 DEF Record
<1>3. \A i \in Ids : i # j => /\ own'.reason[i] = own.reason[i]
                              /\ i \in Items(own) => i \in Items(own)'
  BY <1>1 DEF Items, Record
<1>4. own'.reason[j] = Unset
  BY <1>1 DEF Record
<1>. QED BY <1>2, <1>3, <1>4, ScanAssumption DEF OwnSound, AllowGate

\* Every step keeps the invariant.
LEMMA NextInv == IInv /\ [Next]_vars => IInv'
<1>. SUFFICES ASSUME IInv, [Next]_vars PROVE IInv'
  OBVIOUS
<1>1. /\ UNCHANGED own => OwnSound'
      /\ UNCHANGED outDecl => DeclSound(outDecl)'
      /\ UNCHANGED rootDecl => DeclSound(rootDecl)'
      /\ UNCHANGED outRego => RegoSound(outRego)'
  BY DEF IInv, TreeInv, OwnSound, DeclSound, RegoSound, AllowGate, Items
<1>2. /\ outDecl' = _empty => DeclSound(outDecl)'
      /\ rootDecl' = _empty => DeclSound(rootDecl)'
      /\ outRego' = _empty => RegoSound(outRego)'
  BY EmptySound DEF DeclSound, RegoSound, AllowGate, Items, _empty
<1>3. step # "idle" => DeclSound(report.declaration) /\ RegoSound(generate_rego(report.remediations))
  BY DeclarationSound, PolicySound DEF IInv, ReportInv
<1>4. step # "idle" =>
        /\ outDecl' = report.declaration => DeclSound(outDecl)'
        /\ rootDecl' = report.declaration => DeclSound(rootDecl)'
        /\ outRego' = generate_rego(report.remediations) => RegoSound(outRego)'
  BY <1>3 DEF DeclSound, RegoSound, AllowGate, Items
<1>5. ASSUME NEW m \in OwnItems, AddItem(m) PROVE IInv'
  <2>1. OwnSound'
    BY <1>5, AddItemSound DEF IInv, TreeInv
  <2>. QED BY <1>1, <1>5, <2>1 DEF AddItem, Edit, files, IInv, TreeInv, ReportInv
<1>6. ASSUME NEW i \in Ids, RemoveItem(i) PROVE IInv'
  <2>1. OwnSound'
    BY <1>6, RemoveItemSound DEF IInv, TreeInv
  <2>. QED BY <1>1, <1>6, <2>1 DEF RemoveItem, Edit, files, IInv, TreeInv, ReportInv
<1>7. CASE Discard
  BY <1>1, <1>2, <1>7 DEF Discard, Edit, IInv, TreeInv, ReportInv, ScanRaises
<1>8. ASSUME NEW inside \in BOOLEAN, NEW apply \in BOOLEAN, Onboard(inside, apply)
      PROVE  IInv'
  <2>1. Scanned \in Record
    BY ScannedTyped DEF IInv
  <2>. DEFINE rem == triage(Scanned).remediations
  <2>2. Typed(rem)
    BY <2>1, TriageTyped
  <2>3. report'.remediations = rem /\ report'.declaration \in generate_agentdef(rem)
    BY <1>8 DEF Onboard
  <2>4. /\ step' = "decl" /\ UNCHANGED <<own, outDecl, outRego, rootDecl>>
        /\ ~ScanRaises /\ UNCHANGED <<outRaises, rootRaises>>
    BY <1>8 DEF Onboard, tree, files
  <2>5. ReportInv'
    <3>1. Typed(report'.remediations) /\ report'.declaration \in generate_agentdef(report'.remediations)
      BY <2>2, <2>3
    <3>. QED BY <2>4, <3>1 DEF ReportInv, ScanRaises, Typed, generate_agentdef, Declared,
                               FirstOfSlug, Readable, NameOf, Raises, _empty
  <2>. QED BY <1>1, <2>4, <2>5 DEF IInv, TreeInv, Steps
<1>9. CASE WriteDecl
  BY <1>1, <1>4, <1>9 DEF WriteDecl, IInv, TreeInv, ReportInv, ScanRaises, Typed, Steps
<1>10. CASE WriteRego
  BY <1>1, <1>4, <1>10 DEF WriteRego, IInv, TreeInv, ReportInv, ScanRaises, Typed, Steps
<1>11. CASE WriteRest
  BY <1>1, <1>11 DEF WriteRest, IInv, TreeInv, ReportInv, ScanRaises, Typed, Steps, tree, files
<1>12. CASE Apply
  BY <1>1, <1>4, <1>12 DEF Apply, IInv, TreeInv, ReportInv, ScanRaises, Typed, Steps
<1>13. CASE Fail
  BY <1>1, <1>2, <1>13 DEF Fail, IInv, TreeInv, ReportInv, Steps, tree, files
<1>14. CASE InstallGate \/ Merge \/ UNCHANGED vars
  BY <1>1, <1>14 DEF InstallGate, Merge, vars, IInv, TreeInv, ReportInv, ScanRaises, Typed,
                     tree, files
<1>. QED BY <1>5, <1>6, <1>7, <1>8, <1>9, <1>10, <1>11, <1>12, <1>13, <1>14 DEF Next

\* The inductive invariant holds in every state.
THEOREM Invariance == Spec => []IInv
<1>. QED BY InitInv, NextInv, PTL DEF Spec

-----------------------------------------------------------------------------
(* Reports and bounds.                                                     *)

FiniteInv == /\ IsFiniteSet(Items(own)) /\ IsFiniteSet(Items(outDecl))
             /\ IsFiniteSet(Items(outRego)) /\ IsFiniteSet(Items(rootDecl))

BoundInv == edits \in 0..MaxEdits /\ onboards \in 0..MaxOnboards /\ merges \in 0..MaxMerges

\* A running onboarding has a report, and a report is of a scan whose projected
\* document validates and scores no less.
ReportTyped ==
  /\ report \in Report \cup {NoReport}
  /\ step # "idle" => report # NoReport
  /\ report # NoReport =>
       /\ IsFiniteSet(report.remediations)
       /\ report.after.score >= report.before.score /\ report.valid

\* The projection of a first onboarding is still that of what people wrote.
ProjectionInv ==
  report # NoReport /\ report.first =>
    /\ report.remediations = triage(own).remediations
    /\ report.after = ProfileOf(_remediated_doc(generate(own), report.remediations))

MainInv == main # NoPayload => DOMAIN main.maps \subseteq Ids

OnboardInv == FiniteInv /\ BoundInv /\ ReportTyped /\ ProjectionInv /\ MainInv
              /\ ownAt \in Places /\ {outRaises, rootRaises, compared} \subseteq BOOLEAN

\* What AgentFDE generates for finitely many remediations has finitely many
\* items.
LEMMA FilesFinite ==
  ASSUME NEW rem, IsFiniteSet(rem)
  PROVE  /\ \A d \in generate_agentdef(rem) : IsFiniteSet(Items(d))
         /\ IsFiniteSet(Items(generate_rego(rem)))
<1>1. ASSUME NEW d \in generate_agentdef(rem) PROVE IsFiniteSet(Items(d))
  <2>1. CASE d = _empty
    BY <2>1, EmptyRecord, FS_EmptySet
  <2>2. CASE \E first \in FirstOfSlug(rem) : d = Declared(rem, first)
    <3>. DEFINE under(x) == <<"capabilities", SlugOf[NameOf(x)]>>
                f == [x \in rem |-> under(x)]
                T == {under(x) : x \in rem}
    <3>1. f \in [rem -> T] /\ \A t \in T : \E x \in rem : f[x] = t
      OBVIOUS
    <3>2. IsFiniteSet(T)
      <4>. HIDE DEF f, T
      <4>. QED BY <3>1, FiniteRange
    <3>3. ASSUME NEW i \in Items(d) PROVE i \in T
      <4>1. i \in Ids /\ d.label[i] # NoLabel
        BY DEF Items
      <4>2. d.label[i] # NoLabel =>
              Bucket(i) = "capabilities" /\ i[2] \in {SlugOf[NameOf(x)] : x \in rem}
        BY <2>2, <4>1 DEF Declared
      <4>3. PICK x \in rem : i[2] = SlugOf[NameOf(x)]
        BY <4>1, <4>2
      <4>4. i = under(x)
        BY <4>1, <4>2, <4>3 DEF Ids, Bucket
      <4>. QED BY <4>4
    <3>. QED BY <3>2, <3>3, FS_Subset
  <2>. QED BY <2>1, <2>2 DEF generate_agentdef
<1>2. IsFiniteSet(Items(generate_rego(rem)))
  <2>. DEFINE T == {<<"gates", GateName[x.reason]>> : x \in rem}
              f == [x \in rem |-> <<"gates", GateName[x.reason]>>]
  <2>1. f \in [rem -> T] /\ \A t \in T : \E x \in rem : f[x] = t
    OBVIOUS
  <2>2. PolicyGates(rem) = T \cup {AllowGate}
    BY DEF PolicyGates, AllowGate
  <2>. HIDE DEF f, T
  <2>3. IsFiniteSet(T)
    BY <2>1, FiniteRange
  <2>4. IsFiniteSet(PolicyGates(rem))
    BY <2>2, <2>3, FS_AddElement
  <2>5. Items(generate_rego(rem)) \subseteq PolicyGates(rem)
    BY DEF Items, generate_rego
  <2>. QED BY <2>4, <2>5, FS_Subset
<1>. QED BY <1>1, <1>2

\* A scan of the tree has finitely many items.
LEMMA ScannedFinite == ASSUME TreeInv, FiniteInv PROVE IsFiniteSet(Items(Scanned))
<1>. DEFINE fin(r) == r \in Record /\ IsFiniteSet(Items(r))
<1>1. ASSUME NEW a, NEW b, fin(a), fin(b) PROVE fin(_merge_record(a, b))
  <2>1. _merge_record(a, b) \in Record /\ Items(_merge_record(a, b)) = Items(a) \cup Items(b)
    BY <1>1, MergeRecords
  <2>. QED BY <1>1, <2>1, FS_Union
<1>2. fin(own) /\ fin(outDecl) /\ fin(outRego) /\ fin(rootDecl)
  BY DEF FiniteInv, TreeInv, OwnSound, DeclSound, RegoSound
<1>. HIDE DEF fin
<1>3. fin(Scanned)
  <2>1. PICK a, b, c, d : Scanned = Fold(a, b, c, d)
                          /\ {a, b, c, d} = {outDecl, outRego, rootDecl, own}
    BY ScannedFolds
  <2>2. fin(_merge_record(a, b)) /\ fin(c) /\ fin(d)
    BY <1>1, <1>2, <2>1
  <2>3. fin(_merge_record(_merge_record(a, b), c))
    BY <1>1, <2>2
  <2>. QED BY <1>1, <2>1, <2>2, <2>3 DEF Fold
<1>. QED BY <1>3 DEF fin

\* The report of an onboarding of such a scan.
LEMMA ReportOf ==
  ASSUME NEW r \in Record, IsFiniteSet(Items(r)),
         NEW inside \in BOOLEAN, NEW apply \in BOOLEAN, NEW first \in BOOLEAN,
         NEW d \in generate_agentdef(triage(r).remediations)
  PROVE  LET doc   == generate(r)
             rem   == triage(r).remediations
             after == _remediated_doc(doc, rem)
             rep   == [inside |-> inside, apply |-> apply,
                       remediations |-> rem, declaration |-> d,
                       before |-> ProfileOf(doc), after |-> ProfileOf(after),
                       valid |-> validate(after), first |-> first]
         IN  /\ rep \in Report
             /\ IsFiniteSet(rep.remediations)
             /\ rep.after.score >= rep.before.score /\ rep.valid
<1>. DEFINE doc   == generate(r)
            rem   == triage(r).remediations
            after == _remediated_doc(doc, rem)
            p     == ProfileOf(doc)
            q     == ProfileOf(after)
            v     == validate(after)
<1>1. Scored(doc)
  BY GeneratedDoc
<1>2. Scored(after) /\ v = TRUE
  BY RemediatedDoc DEF validate
<1>3. p \in Profiles /\ q \in Profiles
  <2>1. \A e : ProfileOf(e) = [score |-> ProfileOf(e).score, tier |-> ProfileOf(e).tier]
    BY DEF ProfileOf
  <2>2. \A e : Scored(e) => ProfileOf(e).score \in 0..100 /\ ProfileOf(e).tier \in TIERS
    BY ProfileEarned
  <2>. HIDE DEF doc, after
  <2>. QED BY <1>1, <1>2, <2>1, <2>2 DEF Profiles
<1>4. q.score >= p.score
  BY ProjectionGrows
<1>5. d \in Record
  BY TriageTyped, DeclarationSound DEF DeclSound
<1>6. IsFiniteSet(rem)
  BY RemediationsOf
<1>7. rem \in SUBSET [id : Ids, label : Labels, reason : Reasons,
                      confidence : {"auto", "proposed"}]
  <2>. SUFFICES ASSUME NEW x \in rem
                PROVE  x \in [id : Ids, label : Labels, reason : Reasons,
                              confidence : {"auto", "proposed"}]
    OBVIOUS
  <2>1. /\ x.id \in Unasserted(ActionMaps(r)) /\ x = Remediation(r, ActionMaps(r), x.id)
        /\ x.reason \in Reasons
    BY RemediationsOf
  <2>2. x.label \in Labels
    BY TriageTyped DEF Typed
  <2>3. x.id \in Ids
    BY <2>1 DEF Unasserted, ActionMaps, Governed, Items
  <2>4. x.confidence \in {"auto", "proposed"}
        /\ x = [id |-> x.id, label |-> x.label, reason |-> x.reason, confidence |-> x.confidence]
    <3>. DEFINE inferred == ActionMaps(r)[x.id].matched_via = "heuristic"
                            /\ _verb_reason(r.label[x.id]) \in Reasons
    <3>1. Remediation(r, ActionMaps(r), x.id) =
            [id |-> x.id, label |-> r.label[x.id],
             reason     |-> IF inferred THEN _verb_reason(r.label[x.id])
                            ELSE ProposedOf[r.label[x.id]],
             confidence |-> IF inferred THEN "auto" ELSE "proposed"]
      BY DEF Remediation
    <3>. HIDE DEF inferred
    <3>. QED BY <2>1, <3>1
  <2>. QED BY <2>1, <2>2, <2>3, <2>4
<1>. HIDE DEF doc, rem, after, p, q, v
<1>8. LET rep == [inside |-> inside, apply |-> apply, remediations |-> rem,
                  declaration |-> d, before |-> p, after |-> q, valid |-> v,
                  first |-> first]
      IN  /\ rep \in Report
          /\ IsFiniteSet(rep.remediations)
          /\ rep.after.score >= rep.before.score /\ rep.valid
  BY <1>2, <1>3, <1>4, <1>5, <1>6, <1>7 DEF Report
<1>. QED BY <1>8 DEF doc, rem, after, p, q, v

\* Nothing is written, onboarded or merged in the first state.
LEMMA OnboardInit == Init => OnboardInv
<1>. SUFFICES ASSUME Init PROVE OnboardInv
  OBVIOUS
<1>1. FiniteInv
  BY EmptyRecord, FS_EmptySet DEF Init, FiniteInv
<1>2. BoundInv
  BY AdoptionAssumption DEF Init, BoundInv
<1>. QED BY <1>1, <1>2 DEF Init, OnboardInv, ReportTyped, ProjectionInv, MainInv

\* A step that leaves the report and what people wrote alone leaves the
\* projection as it was.
LEMMA ProjectionStays ==
  ASSUME ProjectionInv, UNCHANGED <<own, report>> PROVE ProjectionInv'
<1>. DEFINE P(rep, o) ==
       rep # NoReport /\ rep.first =>
         /\ rep.remediations = triage(o).remediations
         /\ rep.after = ProfileOf(_remediated_doc(generate(o), rep.remediations))
<1>1. P(report, own)
  BY DEF ProjectionInv
<1>2. P(report', own')
  BY <1>1
<1>. QED BY <1>2 DEF ProjectionInv

\* Every step keeps reports typed, files finite and counters in bounds.
LEMMA OnboardNext == IInv /\ OnboardInv /\ [Next]_vars => OnboardInv'
<1>. SUFFICES ASSUME IInv, OnboardInv, [Next]_vars PROVE OnboardInv'
  OBVIOUS
<1>0. /\ TreeInv /\ FiniteInv /\ BoundInv /\ ReportTyped /\ ProjectionInv /\ MainInv
      /\ ownAt \in Places /\ {outRaises, rootRaises, compared} \subseteq BOOLEAN
      /\ MaxEdits \in Nat /\ MaxOnboards \in Nat /\ MaxMerges \in Nat
  BY AdoptionAssumption DEF IInv, OnboardInv
<1>1. /\ UNCHANGED own => Items(own)' = Items(own)
      /\ UNCHANGED outDecl => Items(outDecl)' = Items(outDecl)
      /\ UNCHANGED outRego => Items(outRego)' = Items(outRego)
      /\ UNCHANGED rootDecl => Items(rootDecl)' = Items(rootDecl)
      /\ outDecl' = _empty => Items(outDecl)' = {}
      /\ outRego' = _empty => Items(outRego)' = {}
      /\ rootDecl' = _empty => Items(rootDecl)' = {}
  BY ScanAssumption DEF Items, _empty
<1>2. step # "idle" =>
        IsFiniteSet(Items(report.declaration))
        /\ IsFiniteSet(Items(generate_rego(report.remediations)))
  BY <1>0, FilesFinite DEF IInv, ReportInv, ReportTyped
<1>4. ASSUME NEW m \in OwnItems, AddItem(m) PROVE OnboardInv'
  <2>1. FiniteInv'
    <3>1. own' = _add(own, m) /\ own \in Record
      BY <1>0, <1>4 DEF AddItem, TreeInv, OwnSound
    <3>2. Items(own)' = Items(own) \cup {m.id}
      <4>1. m.id \in Ids /\ m.label \in Labels /\ m.reason \in Reasons \cup {NoReason}
        BY AdoptionAssumption
      <4>2. Items(_add(own, m)) = Items(own) \cup {m.id}
        BY <3>1, <4>1, AddToRecord
      <4>. QED BY <3>1, <4>2 DEF Items
    <3>. QED BY <1>0, <1>1, <1>4, <3>2, FS_AddElement DEF AddItem, files, FiniteInv
  <2>2. BoundInv'
    BY <1>0, <1>4 DEF AddItem, Edit, gate, BoundInv
  <2>3. ReportTyped' /\ ProjectionInv'
    BY <1>4 DEF AddItem, Edit, ReportTyped, ProjectionInv
  <2>. QED BY <1>0, <1>4, <2>1, <2>2, <2>3 DEF AddItem, Edit, gate, files, OnboardInv, MainInv
<1>5. ASSUME NEW i \in Ids, RemoveItem(i) PROVE OnboardInv'
  <2>1. FiniteInv'
    <3>1. Items(own)' \subseteq Items(own)
      BY <1>0, <1>5 DEF RemoveItem, Items, TreeInv, OwnSound, Record
    <3>. QED BY <1>0, <1>1, <1>5, <3>1, FS_Subset DEF RemoveItem, files, FiniteInv
  <2>2. BoundInv'
    BY <1>0, <1>5 DEF RemoveItem, Edit, gate, BoundInv
  <2>3. ReportTyped' /\ ProjectionInv'
    BY <1>5 DEF RemoveItem, Edit, ReportTyped, ProjectionInv
  <2>. QED BY <1>0, <1>5, <2>1, <2>2, <2>3 DEF RemoveItem, Edit, gate, files, OnboardInv, MainInv
<1>6. CASE Discard
  <2>1. FiniteInv'
    BY <1>0, <1>1, <1>6, FS_EmptySet DEF Discard, FiniteInv
  <2>2. BoundInv'
    BY <1>0, <1>6 DEF Discard, Edit, gate, BoundInv
  <2>3. ReportTyped' /\ ProjectionInv'
    BY <1>6 DEF Discard, Edit, ReportTyped, ProjectionInv
  <2>. QED BY <1>0, <1>6, <2>1, <2>2, <2>3 DEF Discard, Edit, gate, files, OnboardInv, MainInv
<1>7. ASSUME NEW inside \in BOOLEAN, NEW apply \in BOOLEAN, Onboard(inside, apply)
      PROVE  OnboardInv'
  <2>. DEFINE r     == Scanned
              doc   == generate(r)
              rem   == triage(r).remediations
              after == _remediated_doc(doc, rem)
              first == Scanned = own
  <2>1. PICK d \in generate_agentdef(rem) :
          report' = [inside |-> inside, apply |-> apply,
                     remediations |-> rem, declaration |-> d,
                     before |-> ProfileOf(doc), after |-> ProfileOf(after),
                     valid |-> validate(after), first |-> first]
    BY <1>7 DEF Onboard
  <2>2. r \in Record /\ IsFiniteSet(Items(r)) /\ first \in BOOLEAN
    BY <1>0, ScannedTyped, ScannedFinite
  <2>3. /\ report' \in Report /\ IsFiniteSet(report'.remediations)
        /\ report'.after.score >= report'.before.score /\ report'.valid
    BY <2>1, <2>2, ReportOf
  <2>4. UNCHANGED <<own, ownAt, files, main, compared, edits, merges>>
        /\ step' = "decl" /\ onboards' = onboards + 1 /\ onboards < MaxOnboards
    BY <1>7 DEF Onboard, tree, files, gate
  <2>5. report' # NoReport
    BY <2>3, AdoptionAssumption
  <2>6. ReportTyped'
    BY <2>3, <2>5 DEF ReportTyped
  <2>7. ProjectionInv'
    <3>1. /\ report'.first <=> Scanned = own
          /\ report'.remediations = triage(Scanned).remediations
          /\ report'.after = ProfileOf(_remediated_doc(generate(Scanned), report'.remediations))
      BY <2>1
    <3>2. report'.first =>
            /\ report'.remediations = triage(own').remediations
            /\ report'.after = ProfileOf(_remediated_doc(generate(own'), report'.remediations))
      <4>. HIDE DEF r, doc, rem, after, first
      <4>1. ASSUME Scanned = own
            PROVE  triage(Scanned) = triage(own') /\ generate(Scanned) = generate(own')
        BY <2>4, <4>1
      <4>. QED BY <3>1, <4>1
    <3>. QED BY <3>2 DEF ProjectionInv
  <2>8. FiniteInv' /\ BoundInv' /\ MainInv'
    BY <1>0, <1>1, <2>4 DEF files, FiniteInv, BoundInv, MainInv
  <2>. QED BY <1>0, <2>4, <2>6, <2>7, <2>8 DEF files, OnboardInv
<1>8. CASE WriteDecl \/ WriteRego \/ WriteRest \/ Apply
  <2>1. /\ step # "idle"
        /\ UNCHANGED <<own, ownAt, report, main, compared, edits, onboards, merges>>
        /\ outDecl' \in {outDecl, report.declaration}
        /\ outRego' \in {outRego, generate_rego(report.remediations)}
        /\ rootDecl' \in {rootDecl, report.declaration}
        /\ {outRaises', rootRaises'} \subseteq BOOLEAN
    BY <1>0, <1>8 DEF WriteDecl, WriteRego, WriteRest, Apply, Raises, tree, files, gate
  <2>2. FiniteInv'
    <3>1. /\ outDecl' = report.declaration => Items(outDecl)' = Items(report.declaration)
          /\ rootDecl' = report.declaration => Items(rootDecl)' = Items(report.declaration)
          /\ outRego' = generate_rego(report.remediations)
               => Items(outRego)' = Items(generate_rego(report.remediations))
      BY DEF Items
    <3>. QED BY <1>0, <1>1, <1>2, <2>1, <3>1 DEF FiniteInv
  <2>3. BoundInv' /\ ReportTyped' /\ MainInv'
    BY <1>0, <2>1 DEF BoundInv, ReportTyped, MainInv
  <2>4. ProjectionInv'
    BY <1>0, <2>1, ProjectionStays
  <2>. QED BY <1>0, <2>1, <2>2, <2>3, <2>4 DEF OnboardInv
<1>9. CASE Fail
  <2>1. /\ step' = "idle" /\ report' = NoReport
        /\ UNCHANGED <<own, ownAt, main, compared, edits, onboards, merges>>
        /\ outDecl' \in {outDecl, _empty} /\ outRego' \in {outRego, _empty}
        /\ rootDecl' \in {rootDecl, _empty}
        /\ {outRaises', rootRaises'} \subseteq BOOLEAN
    BY <1>0, <1>9 DEF Fail, tree, files, gate
  <2>2. FiniteInv'
    BY <1>0, <1>1, <2>1, FS_EmptySet DEF FiniteInv
  <2>3. BoundInv' /\ ReportTyped' /\ ProjectionInv' /\ MainInv'
    BY <1>0, <2>1 DEF BoundInv, ReportTyped, ProjectionInv, MainInv
  <2>. QED BY <1>0, <2>1, <2>2, <2>3 DEF OnboardInv
<1>10. CASE InstallGate \/ Merge
  <2>1. /\ UNCHANGED <<own, ownAt, files, step, report, edits, onboards>>
        /\ main' \in {_json_payload(Scanned), FallbackPayload}
        /\ compared' \in BOOLEAN
        /\ merges' = merges \/ (merges < MaxMerges /\ merges' = merges + 1)
    BY <1>0, <1>10 DEF InstallGate, Merge, HeadPayloads, tree
  <2>2. MainInv'
    <3>1. DOMAIN FallbackPayload.maps = {}
      BY DEF FallbackPayload, Nothing
    <3>2. DOMAIN _json_payload(Scanned).maps \subseteq Items(Scanned)
      <4>1. DOMAIN _json_payload(Scanned).maps = DOMAIN generate(Scanned).maps
        BY DEF _json_payload
      <4>. QED BY <4>1, GeneratedDoc
    <3>3. Items(Scanned) \subseteq Ids
      BY DEF Items
    <3>4. DOMAIN main'.maps \subseteq Ids
      BY <2>1, <3>1, <3>2, <3>3
    <3>. QED BY <3>4 DEF MainInv
  <2>3. FiniteInv' /\ BoundInv' /\ ReportTyped'
    BY <1>0, <1>1, <2>1 DEF files, FiniteInv, BoundInv, ReportTyped
  <2>4. ProjectionInv'
    BY <1>0, <2>1, ProjectionStays
  <2>. QED BY <1>0, <2>1, <2>2, <2>3, <2>4 DEF files, OnboardInv
<1>11. CASE UNCHANGED vars
  <2>1. FiniteInv' /\ BoundInv' /\ ReportTyped' /\ MainInv'
    BY <1>0, <1>1, <1>11 DEF vars, tree, files, gate, FiniteInv, BoundInv, ReportTyped, MainInv
  <2>2. ProjectionInv'
    BY <1>0, <1>11, ProjectionStays DEF vars, tree
  <2>. QED BY <1>0, <1>11, <2>1, <2>2 DEF vars, tree, files, gate, OnboardInv
<1>. QED BY <1>4, <1>5, <1>6, <1>7, <1>8, <1>9, <1>10, <1>11 DEF Next

\* The second invariant rests on the first.
THEOREM OnboardInvariance == Spec => []OnboardInv
BY Invariance, OnboardInit, OnboardNext, PTL DEF Spec

\* Every variable keeps its type: records, reports, payloads and counters.
THEOREM TypeCorrect == Spec => []TypeOK
<1>1. IInv /\ OnboardInv => TypeOK
  BY DEF IInv, TreeInv, OwnSound, DeclSound, RegoSound, OnboardInv, BoundInv,
         ReportTyped, MainInv, TypeOK
<1>. QED BY <1>1, Invariance, OnboardInvariance, PTL

-----------------------------------------------------------------------------
(* What the onboarding promises.                                           *)

\* OwnReasonsStay: whatever AgentFDE wrote, and wherever people's files are in
\* the walk, a scan that ends reads an action asserted whose reason they named.
THEOREM NamedStays == Spec => []OwnReasonsStay
<1>1. IInv => OwnReasonsStay
  BY TreeReads DEF IInv, OwnReasonsStay
<1>. QED BY <1>1, Invariance, PTL

\* DeclaredReadsAsserted: every item of a generated declaration reads asserted in
\* a scan that ends, and a finished onboarding whose labels YAML gives back lets
\* the scan end and has declared every remediation.
THEOREM DeclaredStays == Spec => []DeclaredReadsAsserted
<1>1. IInv => DeclaredReadsAsserted
  <2>. SUFFICES ASSUME IInv PROVE DeclaredReadsAsserted
    OBVIOUS
  <2>1. Items(outDecl) \cup Items(rootDecl) \subseteq ReadAsserted
    BY TreeReads DEF IInv
  <2>0. ASSUME Finished, \A x \in report.remediations : x.label \in Plain
        PROVE  ~ScanRaises
    BY <2>0, PlainNames DEF IInv, ReportInv, Finished
  <2>2. ASSUME Finished, report.inside \/ report.apply,
               \A x \in report.remediations : x.label \in Plain,
               NEW x \in report.remediations
        PROVE  DeclaredId(x) \in Items(outDecl) \cup Items(rootDecl)
    <3>1. /\ Typed(report.remediations)
          /\ report.declaration \in generate_agentdef(report.remediations)
          /\ outDecl = report.declaration \/ rootDecl = report.declaration
      BY <2>2 DEF IInv, ReportInv, Finished
    <3>2. DeclaredId(x) \in Items(report.declaration)
      BY <2>2, <3>1, DeclarationComplete
    <3>. QED BY <3>1, <3>2
  <2>. QED BY <2>0, <2>1, <2>2 DEF DeclaredReadsAsserted
<1>. QED BY <1>1, Invariance, PTL

\* ProjectionNeverLowers: of any tree, the projected document validates and
\* scores no less than the scan.
THEOREM ProjectionPays == Spec => []ProjectionNeverLowers
<1>1. OnboardInv => ProjectionNeverLowers
  BY DEF OnboardInv, ReportTyped, ProjectionNeverLowers
<1>. QED BY <1>1, OnboardInvariance, PTL

\* Folding a record with an empty one gives the record back.
LEMMA FoldedIntoNothing ==
  ASSUME NEW a \in Record
  PROVE  _merge_record(_empty, a) = a /\ _merge_record(a, _empty) = a
<1>1. \A i \in Ids : _empty.label[i] = NoLabel /\ _empty.reason[i] = Unset
  BY DEF _empty
<1>2. [i \in Ids |-> a.label[i]] = a.label /\ [i \in Ids |-> a.reason[i]] = a.reason
      /\ a = [label |-> a.label, reason |-> a.reason]
  BY DEF Record
<1>3. /\ _merge_record(_empty, a) = [label |-> [i \in Ids |-> a.label[i]],
                                     reason |-> [i \in Ids |-> a.reason[i]]]
      /\ _merge_record(a, _empty) = [label |-> [i \in Ids |-> a.label[i]],
                                     reason |-> [i \in Ids |-> a.reason[i]]]
  BY <1>1, ScanAssumption DEF _merge_record
<1>. QED BY <1>2, <1>3

\* ProjectionIsReal: a first onboarding that is applied, and declares names that
\* stand for what it was made for, gets the next scan the projected tier.
THEOREM ProjectionComesTrue == Spec => []ProjectionIsReal
<1>1. IInv /\ OnboardInv => ProjectionIsReal
  <2>. SUFFICES ASSUME IInv, OnboardInv, Finished, report.apply, report.first,
                       outDecl = _empty, outRego = _empty,
                       ReadsAsProjected(own, report.remediations)
                PROVE  ~ScanRaises /\ ProfileOf(generate(Scanned)) = report.after
    BY DEF ProjectionIsReal
  <2>. DEFINE rem == triage(own).remediations
              d   == report.declaration
  <2>1. /\ report.remediations = rem
        /\ report.after = ProfileOf(_remediated_doc(generate(own), rem))
    BY DEF OnboardInv, ProjectionInv, Finished
  <2>2. d \in generate_agentdef(rem) /\ rootDecl = d
    BY <2>1 DEF IInv, ReportInv, Finished
  <2>3. Authored(own) /\ own \in Record /\ d \in Record
    BY <2>2 DEF IInv, TreeInv, OwnSound, DeclSound, Authored
  <2>4. Scanned \in {_merge_record(own, d), _merge_record(d, own)}
    <3>1. /\ _empty \in Record
          /\ \A a \in Record : _merge_record(_empty, a) = a /\ _merge_record(a, _empty) = a
      BY EmptyRecord, FoldedIntoNothing
    <3>2. /\ Fold(own, _empty, _empty, d) = _merge_record(own, d)
          /\ Fold(_empty, _empty, own, d) = _merge_record(own, d)
          /\ Fold(_empty, _empty, d, own) = _merge_record(d, own)
      BY <2>3, <3>1 DEF Fold
    <3>. QED BY <2>2, <3>2 DEF Scanned
  <2>5. IsFiniteSet(Items(own)) /\ IsFiniteSet(Items(Scanned))
    BY ScannedFinite DEF IInv, OnboardInv, FiniteInv
  <2>6. ~ScanRaises
    <3>1. Typed(report.remediations) /\ (~Raises(report.remediations) => ~ScanRaises)
      BY DEF IInv, ReportInv, Finished
    <3>2. \A x \in report.remediations : x.label \in Plain
      BY DEF ReadsAsProjected
    <3>. QED BY <3>1, <3>2, PlainNames
  <2>. HIDE DEF d
  <2>. QED BY <2>1, <2>2, <2>3, <2>4, <2>5, <2>6, NextScanIsProjected
<1>. QED BY <1>1, Invariance, OnboardInvariance, PTL

-----------------------------------------------------------------------------
(* What the gate promises.                                                 *)

\* A passed check brings in no gap that its base does not have.
LEMMA PassedGaps ==
  ASSUME NEW head, NEW base, passed(head, base)
  PROVE  _ungoverned_high_risk(head) \subseteq
           (IF base = NoPayload THEN {} ELSE _ungoverned_high_risk(base))
BY DEF passed, base_ung

\* RiskRatchet: no chain of merges, whatever bases were missing, brings in an
\* ungoverned high-risk action that was not there when the gate was installed.
THEOREM NoNewRisk == Spec => []RiskRatchet
<1>1. Init => RiskRatchet
  BY DEF Init, RiskRatchet
<1>2. RiskRatchet /\ [Next]_vars => RiskRatchet'
  <2>. SUFFICES ASSUME RiskRatchet, [Next]_vars PROVE RiskRatchet'
    OBVIOUS
  <2>. DEFINE Risks(p) == _ungoverned_high_risk(p)
  <2>1. CASE InstallGate
    <3>1. origin' = main'
      BY <2>1 DEF InstallGate
    <3>2. Risks(main') \subseteq Risks(origin')
      BY <3>1
    <3>. QED BY <3>2 DEF RiskRatchet, _ungoverned_high_risk, _is_ungoverned, Mentions
  <2>2. CASE Merge
    <3>1. PICK head, base : base \in {main, NoPayload} /\ passed(head, base) /\ main' = head
      BY <2>2 DEF Merge
    <3>2. main # NoPayload /\ origin' = origin
      BY <2>2 DEF Merge
    <3>3. Risks(head) \subseteq Risks(main)
      BY <3>1, PassedGaps
    <3>4. Risks(main) \subseteq Risks(origin)
      BY <3>2 DEF RiskRatchet
    <3>5. Risks(main') \subseteq Risks(origin')
      BY <3>1, <3>2, <3>3, <3>4
    <3>. QED BY <3>5 DEF RiskRatchet, _ungoverned_high_risk, _is_ungoverned, Mentions
  <2>3. CASE UNCHANGED <<main, origin>>
    BY <2>3 DEF RiskRatchet, _ungoverned_high_risk, _is_ungoverned, Mentions
  <2>. QED BY <2>1, <2>2, <2>3 DEF Next, vars, gate, AddItem, RemoveItem, Discard, Edit,
                 Onboard, WriteDecl, WriteRego, WriteRest, Apply, Fail
<1>. QED BY <1>1, <1>2, PTL DEF Spec

\* Every payload of a scan has a tier the gate can rank.
Ranked(p) == _tier(p) \in 0..3

\* The gate ranks the tier of every payload it is given, the fallback too.
LEMMA PayloadsRanked == Ranked(FallbackPayload) /\ \A r : Ranked(_json_payload(r))
<1>1. Ranked(FallbackPayload)
  <2>1. _field(FallbackPayload, "tier", "UNGOVERNED") = "UNGOVERNED"
    BY DEF _field, FallbackPayload
  <2>. QED BY <2>1 DEF Ranked, _tier, _TIER_RANK
<1>2. ASSUME NEW r PROVE Ranked(_json_payload(r))
  <2>. DEFINE tier == TierFor(ScoreOf(generate(r)))
              p    == _json_payload(r)
  <2>1. tier \in TIERS
    BY DEF TierFor, TIERS
  <2>2. p.top = Nothing /\ p.summary = [ok |-> validate(generate(r)), tier |-> tier]
    BY DEF _json_payload, ProfileOf
  <2>. HIDE DEF p, tier
  <2>3. "tier" \notin DOMAIN p.top /\ "tier" \in DOMAIN p.summary
    BY <2>2 DEF Nothing
  <2>4. _field(p, "tier", "UNGOVERNED") = tier
    BY <2>2, <2>3 DEF _field
  <2>5. _tier(p) \in 0..3
    BY <2>1, <2>4 DEF _tier, _TIER_RANK, TIERS
  <2>. QED BY <2>5 DEF Ranked, p
<1>. QED BY <1>1, <1>2

\* The tier of the branch can be ranked, and the ratchet holds.
TierInv == TierRatchet /\ (main # NoPayload => Ranked(main) /\ Ranked(origin))

\* TierRatchet: while every merge had its base, the tier of the branch is never
\* below the one it had when the gate was installed.
THEOREM TierNeverDrops == Spec => []TierRatchet
<1>1. Init => TierInv
  BY DEF Init, TierInv, TierRatchet
<1>2. TierInv /\ [Next]_vars => TierInv'
  <2>. SUFFICES ASSUME TierInv, [Next]_vars PROVE TierInv'
    OBVIOUS
  <2>1. CASE InstallGate
    <3>1. main' = _json_payload(Scanned) /\ origin' = main'
      BY <2>1 DEF InstallGate
    <3>2. _tier(main') \in 0..3
      BY <3>1, PayloadsRanked DEF Ranked
    <3>3. _tier(main') \in 0..3 /\ _tier(origin') \in 0..3 /\ _tier(main') <= _tier(origin')
      BY <3>1, <3>2
    <3>. QED BY <3>3 DEF TierInv, TierRatchet, Ranked, _tier, _field
  <2>2. CASE Merge
    <3>1. PICK head, base : /\ head \in {_json_payload(Scanned), FallbackPayload}
                            /\ base \in {main, NoPayload}
                            /\ passed(head, base) /\ main' = head
                            /\ compared' = (compared /\ base # NoPayload)
      BY <2>2 DEF Merge, HeadPayloads
    <3>2. main # NoPayload /\ origin' = origin
      BY <2>2 DEF Merge
    <3>3. _tier(head) \in 0..3
      BY <3>1, PayloadsRanked DEF Ranked
    <3>4. _tier(main) \in 0..3 /\ _tier(origin) \in 0..3
      BY <3>2 DEF TierInv, Ranked
    <3>5. compared' => _tier(head) <= _tier(main) /\ _tier(main) <= _tier(origin)
      <4>. SUFFICES ASSUME compared' PROVE _tier(head) <= _tier(main) /\ _tier(main) <= _tier(origin)
        OBVIOUS
      <4>1. compared /\ base # NoPayload
        BY <3>1
      <4>2. _tier(head) <= _tier(main)
        BY <3>1, <4>1 DEF passed
      <4>3. _tier(main) <= _tier(origin)
        BY <3>2, <4>1 DEF TierInv, TierRatchet
      <4>. QED BY <4>2, <4>3
    <3>6. /\ _tier(main') \in 0..3 /\ _tier(origin') \in 0..3
          /\ compared' => _tier(main') <= _tier(origin')
      BY <3>1, <3>2, <3>3, <3>4, <3>5
    <3>. QED BY <3>6 DEF TierInv, TierRatchet, Ranked, _tier, _field
  <2>3. CASE UNCHANGED <<main, origin, compared>>
    BY <2>3 DEF TierInv, TierRatchet, Ranked, _tier, _field
  <2>. QED BY <2>1, <2>2, <2>3 DEF Next, vars, gate, AddItem, RemoveItem, Discard, Edit,
                 Onboard, WriteDecl, WriteRego, WriteRest, Apply, Fail
<1>3. TierInv => TierRatchet
  BY DEF TierInv
<1>. QED BY <1>1, <1>2, <1>3, PTL DEF Spec
=============================================================================
