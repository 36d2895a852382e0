----------------------------- MODULE ScanProofs -----------------------------
(***************************************************************************)
(* Lemmas about the operators of Scan, cited by the proofs about the scan  *)
(* and about the onboarding.                                               *)
(***************************************************************************)
EXTENDS Scan, ScoreProofs, FiniteSetTheorems, FunctionTheorems

-----------------------------------------------------------------------------
(* The crosswalk.                                                          *)

\* map_action asserts a control only for the reason it was given, and only
\* from that reason's row of the table.
LEMMA AssertedOnlyFromTable ==
  ASSUME NEW verb, NEW reason, NEW m \in map_action(verb, reason).mappings,
         m.confidence = "asserted"
  PROVE  reason \in Reasons /\ m.control \in Asserted[reason]
<1>1. CASE reason \in Reasons
  <2>1. map_action(verb, reason).mappings = TableRows(reason)
    BY <1>1 DEF map_action, ActionMap
  <2>2. m \in Mapped(Asserted[reason], "asserted")
    BY <2>1 DEF TableRows, Mapped
  <2>. QED BY <1>1, <2>2 DEF Mapped
<1>2. CASE reason \notin Reasons /\ verb \in DOMAIN StrongVerbs
  <2>1. verb # "weak"
    BY <1>2 DEF StrongVerbs
  <2>2. map_action(verb, reason).mappings = Downgrade(StrongVerbs[verb])
    BY <1>2, <2>1 DEF map_action, ActionMap
  <2>. QED BY <2>2 DEF Downgrade, Mapped
<1>3. CASE reason \notin Reasons /\ verb \notin DOMAIN StrongVerbs /\ verb = "weak"
  <2>1. map_action(verb, reason).mappings = AmbiguousStub
    BY <1>3 DEF map_action, ActionMap
  <2>. QED BY <2>1 DEF AmbiguousStub, Mapped
<1>4. CASE reason \notin Reasons /\ verb \notin DOMAIN StrongVerbs /\ verb # "weak"
  <2>1. map_action(verb, reason).mappings = {}
    BY <1>4 DEF map_action, ActionMap
  <2>. QED BY <2>1
<1>. QED BY <1>1, <1>2, <1>3, <1>4

\* A canonical reason is always matched by the asserted table.
LEMMA ReasonsMatchTable ==
  ASSUME NEW verb, NEW reason \in Reasons
  PROVE  map_action(verb, reason).matched_via = "asserted_table"
BY DEF map_action, ActionMap

\* Every row of the table asserts something; its advisory controls come from two
\* further frameworks.
LEMMA RowsAssert ==
  ASSUME NEW r \in Reasons
  PROVE  /\ Asserted[r] # {}
         /\ \A c \in Advisory[r] : c[1] \in {RMF, MITRE}
<1>1. \A F, x : HasRow(x, F) /\ F # {} => Asserted[x] # {}
  BY DEF HasRow
<1>2. Asserted[r] # {}
  BY <1>1, AllReasons, TableFrameworks
<1>3. \A id : <<RMF, id>>[1] \in {RMF, MITRE} /\ <<MITRE, id>>[1] \in {RMF, MITRE}
  OBVIOUS
<1>4. \A c \in Advisory[r] : \E id : c = <<RMF, id>> \/ c = <<MITRE, id>>
  BY AllReasons DEF Advisory
<1>. QED BY <1>2, <1>3, <1>4

\* What validate asks of one action map.
ValidMap(am) ==
  /\ am.matched_via = "asserted_table" => HasAnyMapping(am)
  /\ \A m \in am.mappings : /\ m.control[1] \in ALLOWED_FRAMEWORKS
                            /\ m.confidence = "asserted" => m.control \in AssertedPairs

\* Whatever the label and the reason, map_action returns a valid map.
LEMMA MapsAreValid ==
  ASSUME NEW verb, NEW reason PROVE ValidMap(map_action(verb, reason))
<1>1. {NIST, EU, OWASP, RMF, MITRE} \subseteq ALLOWED_FRAMEWORKS
  BY DEF ALLOWED_FRAMEWORKS
<1>2. ASSUME NEW r \in Reasons, NEW conf,
             NEW m \in Mapped(Asserted[r], conf) \cup Mapped(Advisory[r], "advisory")
      PROVE  m.control[1] \in ALLOWED_FRAMEWORKS
  <2>1. m.control \in Asserted[r] \/ m.control \in Advisory[r]
    BY <1>2 DEF Mapped
  <2>. QED BY <1>1, <2>1, AssertedFrameworks, RowsAssert
<1>3. \A m \in map_action(verb, reason).mappings :
        m.confidence = "asserted" => m.control \in AssertedPairs
  BY AssertedOnlyFromTable DEF AssertedPairs
<1>4. CASE reason \in Reasons
  <2>1. /\ map_action(verb, reason).mappings = TableRows(reason)
        /\ HasAnyMapping(map_action(verb, reason)) <=> TableRows(reason) # {}
    BY <1>4 DEF map_action, ActionMap, HasAnyMapping
  <2>2. \A m \in TableRows(reason) : m.control[1] \in ALLOWED_FRAMEWORKS
    BY <1>2, <1>4 DEF TableRows
  <2>3. PICK c : c \in Asserted[reason]
    BY <1>4, RowsAssert
  <2>4. [control |-> c, confidence |-> "asserted"] \in TableRows(reason)
    BY <2>3 DEF TableRows, Mapped
  <2>. QED BY <1>3, <2>1, <2>2, <2>4 DEF ValidMap
<1>5. CASE reason \notin Reasons /\ verb \in DOMAIN StrongVerbs
  <2>1. verb # "weak" /\ StrongVerbs[verb] \in Reasons
    BY <1>5, AllReasons DEF StrongVerbs
  <2>2. /\ map_action(verb, reason).mappings = Downgrade(StrongVerbs[verb])
        /\ map_action(verb, reason).matched_via = "heuristic"
    BY <1>5, <2>1 DEF map_action, ActionMap
  <2>3. \A m \in Downgrade(StrongVerbs[verb]) : m.control[1] \in ALLOWED_FRAMEWORKS
    BY <1>2, <2>1 DEF Downgrade
  <2>. QED BY <1>3, <2>2, <2>3 DEF ValidMap
<1>6. CASE reason \notin Reasons /\ verb \notin DOMAIN StrongVerbs /\ verb = "weak"
  <2>1. /\ map_action(verb, reason).mappings = AmbiguousStub
        /\ map_action(verb, reason).matched_via = "heuristic"
    BY <1>6 DEF map_action, ActionMap
  <2>2. \A m \in AmbiguousStub : m.control = <<OWASP, "LLM06">>
    BY DEF AmbiguousStub, Mapped
  <2>3. \A m \in AmbiguousStub : m.control[1] = OWASP
    BY <2>2, FirstOfPair
  <2>. QED BY <1>1, <1>3, <2>1, <2>3 DEF ValidMap
<1>7. CASE reason \notin Reasons /\ verb \notin DOMAIN StrongVerbs /\ verb # "weak"
  <2>1. map_action(verb, reason).mappings = {} /\ map_action(verb, reason).matched_via = "none"
    BY <1>7 DEF map_action, ActionMap
  <2>. QED BY <2>1 DEF ValidMap
<1>. QED BY <1>4, <1>5, <1>6, <1>7

-----------------------------------------------------------------------------
(* Records.                                                                *)

\* The empty record is a record without items and without reasons.
LEMMA EmptyRecord ==
  /\ _empty \in Record
  /\ Items(_empty) = {}
  /\ \A i \in Ids : _empty.reason[i] = Unset
BY ScanAssumption DEF _empty, Record, Items

\* _add keeps the items of a record, adds the emitted one, and changes a
\* reasons entry only to the reason of the emitted item.
LEMMA AddToRecord ==
  ASSUME NEW r \in Record, NEW m, m.id \in Ids, m.label \in Labels,
         m.reason \in Reasons \cup {NoReason}
  PROVE  /\ _add(r, m) \in Record
         /\ Items(_add(r, m)) = Items(r) \cup {m.id}
         /\ \A i \in Ids : \/ _add(r, m).reason[i] = r.reason[i]
                           \/ i = m.id /\ _add(r, m).reason[i] = m.reason
<1>1. m.id \in Ids /\ m.label \in Labels /\ m.reason \in Reasons \cup {NoReason}
  OBVIOUS
<1>2. CASE m.id \in Items(r)
  BY <1>2 DEF _add
<1>3. CASE m.id \notin Items(r)
  <2>. DEFINE entry == IF m.reason \in Reasons
                       THEN [r.reason EXCEPT ![m.id] = m.reason]
                       ELSE IF Bucket(m.id) = "gates" /\ r.reason[m.id] = Unset
                       THEN [r.reason EXCEPT ![m.id] = NoReason]
                       ELSE r.reason
  <2>1. _add(r, m) = [label |-> [r.label EXCEPT ![m.id] = m.label], reason |-> entry]
    BY <1>3 DEF _add
  <2>2. entry \in [Ids -> Reasons \cup {NoReason, Unset}]
    BY <1>1 DEF Record
  <2>3. \A i \in Ids : entry[i] = r.reason[i] \/ (i = m.id /\ entry[i] = m.reason)
    BY <1>1 DEF Record
  <2>. HIDE DEF entry
  <2>4. Items(_add(r, m)) = Items(r) \cup {m.id}
    BY <1>1, <2>1, ScanAssumption DEF Items, Record
  <2>. QED BY <1>1, <2>1, <2>2, <2>3, <2>4 DEF Record
<1>. QED BY <1>2, <1>3

\* _add_all does the same for the items of one declaration.
LEMMA AddAllToRecord ==
  ASSUME NEW r \in Record,
         NEW ms \in SUBSET [id : Ids, label : Labels, reason : Reasons \cup {NoReason}]
  PROVE  /\ _add_all(r, ms) \in Record
         /\ Items(_add_all(r, ms)) = Items(r) \cup {m.id : m \in ms}
         /\ \A i \in Ids : \/ _add_all(r, ms).reason[i] = r.reason[i]
                           \/ \E m \in ms : m.id = i /\ _add_all(r, ms).reason[i] = m.reason
<1>. DEFINE At(i) == IF \E m \in ms : m.id = i THEN _add(r, CHOOSE m \in ms : m.id = i) ELSE r
            all   == _add_all(r, ms)
<1>1. all = [label |-> [i \in Ids |-> At(i).label[i]], reason |-> [i \in Ids |-> At(i).reason[i]]]
  BY DEF _add_all
<1>2. ASSUME NEW i \in Ids
      PROVE  /\ At(i) \in Record
             /\ At(i).label[i] # NoLabel <=> (i \in Items(r) \/ \E m \in ms : m.id = i)
             /\ \/ At(i).reason[i] = r.reason[i]
                \/ \E m \in ms : m.id = i /\ At(i).reason[i] = m.reason
  <2>1. CASE \E m \in ms : m.id = i
    <3>1. PICK m \in ms : m = (CHOOSE x \in ms : x.id = i) /\ m.id = i
      BY <2>1
    <3>2. At(i) = _add(r, m)
      BY <2>1, <3>1
    <3>3. /\ _add(r, m) \in Record
          /\ Items(_add(r, m)) = Items(r) \cup {m.id}
          /\ \/ _add(r, m).reason[i] = r.reason[i]
             \/ _add(r, m).reason[i] = m.reason
      BY <3>1, AddToRecord
    <3>. HIDE DEF At
    <3>. QED BY <2>1, <3>1, <3>2, <3>3 DEF Items
  <2>2. CASE ~ \E m \in ms : m.id = i
    BY <2>2 DEF Items
  <2>. QED BY <2>1, <2>2
<1>. HIDE DEF At
<1>3. all \in Record
  <2>1. \A i \in Ids : /\ At(i).label[i] \in Labels \cup {NoLabel}
                      /\ At(i).reason[i] \in Reasons \cup {NoReason, Unset}
    BY <1>2 DEF Record
  <2>. QED BY <1>1, <2>1 DEF Record
<1>4. Items(all) = Items(r) \cup {m.id : m \in ms}
  <2>1. \A i \in Ids : all.label[i] = At(i).label[i]
    BY <1>1
  <2>2. \A m \in ms : m.id \in Ids
    OBVIOUS
  <2>. HIDE DEF all
  <2>. QED BY <1>2, <2>1, <2>2 DEF Items
<1>5. \A i \in Ids : all.reason[i] = At(i).reason[i]
  BY <1>1
<1>. HIDE DEF all
<1>6. \A i \in Ids : \/ all.reason[i] = r.reason[i]
                    \/ \E m \in ms : m.id = i /\ all.reason[i] = m.reason
  BY <1>2, <1>5
<1>. QED BY <1>3, <1>4, <1>6 DEF all

\* _merge_record keeps every item and every entry of the aggregate, and takes
\* from the new record what the aggregate does not have.
LEMMA MergeRecords ==
  ASSUME NEW a \in Record, NEW r \in Record
  PROVE  /\ _merge_record(a, r) \in Record
         /\ Items(_merge_record(a, r)) = Items(a) \cup Items(r)
         /\ \A i \in Ids : _merge_record(a, r).reason[i] =
              IF a.reason[i] # Unset THEN a.reason[i] ELSE r.reason[i]
         /\ \A i \in Items(a) : _merge_record(a, r).label[i] = a.label[i]
<1>1. /\ _merge_record(a, r).label =
           [i \in Ids |-> IF a.label[i] # NoLabel THEN a.label[i] ELSE r.label[i]]
      /\ _merge_record(a, r).reason =
           [i \in Ids |-> IF a.reason[i] # Unset THEN a.reason[i] ELSE r.reason[i]]
  BY DEF _merge_record
<1>2. _merge_record(a, r) \in Record
  BY DEF _merge_record, Record
<1>3. Items(_merge_record(a, r)) = Items(a) \cup Items(r)
  BY <1>1 DEF Items
<1>. QED BY <1>1, <1>2, <1>3 DEF Items

-----------------------------------------------------------------------------
(* Documents.                                                              *)

\* A document whose action maps all come from map_action, with the frameworks
\* of those maps, and with finitely many nodes and actions.
Crosswalked(maps) ==
  \A i \in DOMAIN maps : \E verb, reason : maps[i] = map_action(verb, reason)

Scored(d) ==
  /\ Crosswalked(d.maps)
  /\ IsFiniteSet(DOMAIN d.maps) /\ IsFiniteSet(d.nodes)
  /\ d.frameworks = Frameworks(d.maps)

\* Asserted frameworks are the three of the table.
LEMMA ThreeFrameworks ==
  ASSUME NEW maps, Crosswalked(maps)
  PROVE  Frameworks(maps) \subseteq {NIST, EU, OWASP}
<1>. SUFFICES ASSUME NEW f \in Frameworks(maps) PROVE f \in {NIST, EU, OWASP}
  OBVIOUS
<1>1. PICK m \in Mappings(maps) : m.confidence = "asserted" /\ f = m.control[1]
  BY DEF Frameworks
<1>2. PICK i \in DOMAIN maps : m \in maps[i].mappings
  BY DEF Mappings
<1>3. PICK verb, reason : maps[i] = map_action(verb, reason)
  BY DEF Crosswalked
<1>4. reason \in Reasons /\ m.control \in Asserted[reason]
  BY <1>1, <1>2, <1>3, AssertedOnlyFromTable
<1>. QED BY <1>1, <1>4, AssertedFrameworks

\* They count for at most three, and fewer of them for no more.
LEMMA FrameworkCount ==
  ASSUME NEW S, S \subseteq {NIST, EU, OWASP}
  PROVE  /\ IsFiniteSet(S) /\ Cardinality(S) \in 0..3
         /\ \A T \in SUBSET S : Cardinality(T) \in 0..3 /\ Cardinality(T) <= Cardinality(S)
<1>1. IsFiniteSet({NIST}) /\ Cardinality({NIST}) = 1
  BY FS_Singleton
<1>2. /\ IsFiniteSet({NIST} \cup {EU})
      /\ Cardinality({NIST} \cup {EU}) \in {1, 2}
  BY <1>1, FS_AddElement
<1>3. /\ IsFiniteSet(({NIST} \cup {EU}) \cup {OWASP})
      /\ Cardinality(({NIST} \cup {EU}) \cup {OWASP}) \in {1, 2, 3}
  BY <1>2, FS_AddElement
<1>4. {NIST, EU, OWASP} = ({NIST} \cup {EU}) \cup {OWASP}
  OBVIOUS
<1>5. IsFiniteSet(S) /\ Cardinality(S) <= Cardinality({NIST, EU, OWASP})
  BY <1>3, <1>4, FS_Subset
<1>6. Cardinality(S) \in Nat
  BY <1>5, FS_CardinalityType
<1>7. ASSUME NEW T \in SUBSET S PROVE Cardinality(T) \in Nat /\ Cardinality(T) <= Cardinality(S)
  BY <1>5, FS_Subset, FS_CardinalityType
<1>8. Cardinality({NIST, EU, OWASP}) <= 3
  BY <1>3, <1>4
<1>9. Cardinality(S) \in 0..3
  BY <1>3, <1>4, <1>5, <1>6
<1>. QED BY <1>5, <1>7, <1>9

\* The arguments of the score of such a document are counts.
LEMMA DocumentCounts ==
  ASSUME NEW d, Scored(d)
  PROVE  /\ Counts(Cardinality(DOMAIN d.maps), Cardinality(AnyMapped(d)),
                   Cardinality(Covered(d)))
         /\ Cardinality(d.frameworks \cap ALLOWED_FRAMEWORKS) \in 0..3
         /\ Structure(TRUE, d.edges # {}, Cardinality(d.nodes)) \in 0..100
<1>1. Covered(d) \subseteq AnyMapped(d) /\ AnyMapped(d) \subseteq DOMAIN d.maps
  BY DEF Covered, AnyMapped, HasAsserted, HasAnyMapping
<1>2. IsFiniteSet(DOMAIN d.maps) /\ IsFiniteSet(d.nodes)
  BY DEF Scored
<1>3. /\ IsFiniteSet(AnyMapped(d))
      /\ Cardinality(AnyMapped(d)) <= Cardinality(DOMAIN d.maps)
  BY <1>1, <1>2, FS_Subset
<1>4. /\ IsFiniteSet(Covered(d))
      /\ Cardinality(Covered(d)) <= Cardinality(AnyMapped(d))
  BY <1>1, <1>3, FS_Subset
<1>5. /\ Cardinality(DOMAIN d.maps) \in Nat /\ Cardinality(AnyMapped(d)) \in Nat
      /\ Cardinality(Covered(d)) \in Nat /\ Cardinality(d.nodes) \in Nat
  BY <1>2, <1>3, <1>4, FS_CardinalityType
<1>6. d.frameworks \cap ALLOWED_FRAMEWORKS \subseteq {NIST, EU, OWASP}
  BY ThreeFrameworks DEF Scored
<1>7. Structure(TRUE, d.edges # {}, Cardinality(d.nodes)) \in 0..100
  BY <1>5, StructureBounds
<1>. QED BY <1>3, <1>4, <1>5, <1>6, <1>7, FrameworkCount DEF Counts

\* Its score is a percentage, and its tier is earned by its asserted actions.
LEMMA ProfileEarned ==
  ASSUME NEW d, Scored(d)
  PROVE  LET p == ProfileOf(d)
             governed == Cardinality(DOMAIN d.maps)
             covered  == Cardinality(Covered(d))
         IN  /\ governed \in Nat /\ covered \in Nat
             /\ p.score \in 0..100 /\ p.tier \in TIERS
             /\ covered = 0 => p.tier = "UNGOVERNED"
             /\ p.tier \in {"HARDENED", "SOVEREIGN"} => 2 * covered >= governed
             /\ p.tier = "SOVEREIGN" => 1000 * covered >= 845 * governed
<1>. DEFINE g == Cardinality(DOMAIN d.maps)
            m == Cardinality(AnyMapped(d))
            a == Cardinality(Covered(d))
            f == Cardinality(d.frameworks \cap ALLOWED_FRAMEWORKS)
            s == Structure(TRUE, d.edges # {}, Cardinality(d.nodes))
            score == Score(g, m, a, f, s)
<1>1. Counts(g, m, a) /\ f \in 0..3 /\ s \in 0..100
  BY DocumentCounts
<1>2. ProfileOf(d).score = score /\ ProfileOf(d).tier = TierFor(score)
  BY DEF ProfileOf, ScoreOf
<1>. HIDE DEF g, m, a, f, s
<1>3. score \in 0..100
  <2>1. f \in Nat
    BY <1>1
  <2>. QED BY <1>1, <2>1, ScoreBounds
<1>4. TierFor(score) \in TIERS
  BY <1>3, TierBands
<1>5. /\ a = 0 => TierFor(score) = "UNGOVERNED"
      /\ TierFor(score) \in {"HARDENED", "SOVEREIGN"} => 2 * a >= g
      /\ TierFor(score) = "SOVEREIGN" => 1000 * a >= 845 * g
  BY <1>1, TierTakesCoverage
<1>6. g \in Nat /\ a \in Nat
  BY <1>1 DEF Counts
<1>. QED BY <1>2, <1>3, <1>4, <1>5, <1>6 DEF g, a

\* A document with nodes, whose links join them, and whose maps come from the
\* crosswalk, validates.
LEMMA CrosswalkedValid ==
  ASSUME NEW d, Crosswalked(d.maps), d.nodes # {},
         \A e \in d.edges : e[1] \in d.nodes /\ e[2] \in d.nodes
  PROVE  validate(d)
<1>1. ASSUME NEW i \in DOMAIN d.maps PROVE ValidMap(d.maps[i])
  <2>1. PICK verb, reason : d.maps[i] = map_action(verb, reason)
    BY DEF Crosswalked
  <2>. QED BY <2>1, MapsAreValid
<1>. QED BY <1>1 DEF validate, ValidMap

\* A function on a finite set has finitely many values.
LEMMA FiniteRange ==
  ASSUME NEW S, IsFiniteSet(S), NEW T, NEW f \in [S -> T],
         \A t \in T : \E x \in S : f[x] = t
  PROVE  IsFiniteSet(T)
<1>1. f \in Surjection(S, T)
  BY DEF Surjection
<1>. QED BY <1>1, FS_Surjection

\* The structure subscore of a document.
DocStructure(d) == Structure(TRUE, d.edges # {}, Cardinality(d.nodes))

\* Two documents with the same maps under corresponding ids, each with a node
\* beside its root or neither, have the same profile.
LEMMA SameProfile ==
  ASSUME NEW d, Scored(d), NEW e, Scored(e),
         NEW b \in [DOMAIN d.maps -> DOMAIN e.maps],
         \A i, j \in DOMAIN d.maps : b[i] = b[j] => i = j,
         \A k \in DOMAIN e.maps : \E i \in DOMAIN d.maps : b[i] = k,
         \A i \in DOMAIN d.maps : e.maps[b[i]] = d.maps[i],
         DocStructure(d) = DocStructure(e)
  PROVE  ProfileOf(d) = ProfileOf(e)
<1>1. ASSUME NEW S, NEW T, S \subseteq DOMAIN d.maps, T \subseteq DOMAIN e.maps,
             \A i \in DOMAIN d.maps : i \in S <=> b[i] \in T
      PROVE  Cardinality(S) = Cardinality(T)
  <2>. DEFINE c == [i \in S |-> b[i]]
  <2>1. c \in [S -> T]
    BY <1>1
  <2>2. c \in Injection(S, T)
    BY <1>1, <2>1, Fun_IsInj
  <2>3. c \in Surjection(S, T)
    <3>1. \A k \in T : \E i \in S : c[i] = k
      BY <1>1
    <3>. QED BY <2>1, <3>1, Fun_IsSurj
  <2>4. ExistsBijection(S, T)
    BY <2>2, <2>3 DEF ExistsBijection, Bijection
  <2>5. IsFiniteSet(S)
    BY <1>1, FS_Subset DEF Scored
  <2>. QED BY <2>4, <2>5, FS_Bijection
<1>2. Cardinality(DOMAIN d.maps) = Cardinality(DOMAIN e.maps)
  BY <1>1
<1>3. Cardinality(AnyMapped(d)) = Cardinality(AnyMapped(e))
  <2>1. \A i \in DOMAIN d.maps : i \in AnyMapped(d) <=> b[i] \in AnyMapped(e)
    BY DEF AnyMapped
  <2>. QED BY <1>1, <2>1 DEF AnyMapped
<1>4. Cardinality(Covered(d)) = Cardinality(Covered(e))
  <2>1. \A i \in DOMAIN d.maps : i \in Covered(d) <=> b[i] \in Covered(e)
    BY DEF Covered
  <2>. QED BY <1>1, <2>1 DEF Covered
<1>5. d.frameworks = e.frameworks
  <2>1. Mappings(d.maps) = Mappings(e.maps)
    <3>1. ASSUME NEW m \in Mappings(d.maps) PROVE m \in Mappings(e.maps)
      <4>1. PICK i \in DOMAIN d.maps : m \in d.maps[i].mappings
        BY DEF Mappings
      <4>2. m \in e.maps[b[i]].mappings /\ b[i] \in DOMAIN e.maps
        BY <4>1
      <4>. QED BY <4>2 DEF Mappings
    <3>2. ASSUME NEW m \in Mappings(e.maps) PROVE m \in Mappings(d.maps)
      <4>1. PICK k \in DOMAIN e.maps : m \in e.maps[k].mappings
        BY DEF Mappings
      <4>2. PICK i \in DOMAIN d.maps : b[i] = k
        OBVIOUS
      <4>3. m \in d.maps[i].mappings
        BY <4>1, <4>2
      <4>. QED BY <4>3 DEF Mappings
    <3>. QED BY <3>1, <3>2
  <2>. QED BY <2>1 DEF Scored, Frameworks
<1>6. ScoreOf(d) = ScoreOf(e)
  <2>1. \A x : ScoreOf(x) = Score(Cardinality(DOMAIN x.maps), Cardinality(AnyMapped(x)),
                                  Cardinality(Covered(x)),
                                  Cardinality(x.frameworks \cap ALLOWED_FRAMEWORKS),
                                  DocStructure(x))
    BY DEF ScoreOf, DocStructure
  <2>. QED BY <1>2, <1>3, <1>4, <1>5, <2>1
<1>. QED BY <1>6 DEF ProfileOf

\* generate makes such a document of any record with finitely many items.
LEMMA GeneratedDoc ==
  ASSUME NEW r
  PROVE  LET d == generate(r)
         IN  /\ Crosswalked(d.maps) /\ validate(d)
             /\ DOMAIN d.maps \subseteq Items(r)
             /\ IsFiniteSet(Items(r)) => Scored(d)
<1>. DEFINE d == generate(r)
<1>1. /\ d.nodes = Items(r) \cup {agent_root} /\ d.edges = {agent_root} \X Items(r)
      /\ d.maps = ActionMaps(r) /\ d.frameworks = Frameworks(d.maps)
  BY DEF generate, Nodes, Edges
<1>. HIDE DEF d
<1>2. DOMAIN d.maps = Governed(r) /\ Governed(r) \subseteq Items(r)
  BY <1>1 DEF ActionMaps, Governed
<1>3. Crosswalked(d.maps)
  BY <1>1 DEF ActionMaps, Crosswalked
<1>4. validate(d)
  <2>1. d.nodes # {}
    BY <1>1
  <2>2. \A e \in d.edges : e[1] \in d.nodes /\ e[2] \in d.nodes
    BY <1>1
  <2>. QED BY <1>3, <2>1, <2>2, CrosswalkedValid
<1>5. ASSUME IsFiniteSet(Items(r)) PROVE Scored(d)
  <2>1. IsFiniteSet(DOMAIN d.maps)
    BY <1>2, <1>5, FS_Subset
  <2>2. IsFiniteSet(d.nodes)
    BY <1>1, <1>5, FS_AddElement
  <2>. QED BY <1>1, <1>3, <2>1, <2>2 DEF Scored
<1>. QED BY <1>2, <1>3, <1>4, <1>5 DEF d
=============================================================================
