--------------------------- MODULE OntologyProofs ---------------------------
(***************************************************************************)
(* Proofs about the scan of Ontology, for every set of names, labels,      *)
(* reasons and every number of files and items.                            *)
(*                                                                         *)
(* The inductive invariant traces everything a record holds back to the    *)
(* items the adapters emitted: a reasons entry to an item that named it, a *)
(* merged entry to the aggregate, and every emitted item to a record.      *)
(***************************************************************************)
EXTENDS Ontology, ScanProofs

Entries == Reasons \cup {NoReason, Unset}

\* The part of the type invariant the proofs need.
TypeInv ==
  /\ kind \in Kinds \cup {"none", "read"}
  /\ rec \in Record
  /\ agg \in Record
  /\ scanning \in BOOLEAN
  /\ mentions \subseteq Mention
  /\ merged \subseteq Ids \X Entries

Traced(r) ==
  \A i \in Ids : r.reason[i] \in Reasons =>
    \E n \in mentions : n.id = i /\ n.reason = r.reason[i]
TraceInv == Traced(rec) /\ Traced(agg)

\* Only an item leaves an entry; every item emitted is in a record, and no Task
\* was emitted with a reason.
EntryInv ==
  \A i \in Ids : /\ rec.reason[i] # Unset => i \in Items(rec)
                 /\ agg.reason[i] # Unset => i \in Items(agg)
KeptInv ==
  \A n \in mentions : /\ n.id \in Items(rec) \cup Items(agg)
                      /\ Bucket(n.id) = "actions" => n.reason = NoReason

\* A merged entry was kept or gave way to an earlier one, and a None the
\* aggregate holds came from a merged record.
MergedInv ==
  /\ \A p \in merged : p[2] # Unset => agg.reason[p[1]] # Unset
  /\ \A i \in Ids : agg.reason[i] = NoReason => <<i, NoReason>> \in merged

\* The document is the one generate makes of the final aggregate.
DocInv ==
  /\ scanning => doc = NoDoc
  /\ ~scanning => doc = generate(agg) /\ Items(rec) = {}

\* One more file fits as long as the current one holds a fact.
BoundInv ==
  /\ files \in 0..MaxFiles /\ adds \in 0..MaxAdds
  /\ Items(rec) # {} => files < MaxFiles

FiniteInv == IsFiniteSet(Items(rec)) /\ IsFiniteSet(Items(agg))

\* The verdict and the profile are those of the document.
VerdictInv ==
  /\ scanning => ok = FALSE /\ profile = NoProfile
  /\ ~scanning => ok = TRUE /\ profile = ProfileOf(doc)

IInv == /\ TypeInv /\ TraceInv /\ EntryInv /\ KeptInv /\ MergedInv /\ DocInv
        /\ BoundInv /\ FiniteInv /\ VerdictInv

-----------------------------------------------------------------------------
(* The invariant.                                                          *)

\* The first state has empty records and no history.
LEMMA InitInv == Init => IInv
<1>. SUFFICES ASSUME Init PROVE IInv
  OBVIOUS
<1>. USE EmptyRecord DEF Init
<1>1. TypeInv
  BY DEF TypeInv
<1>2. TraceInv
  BY ConstantsAssumption, ScanAssumption DEF TraceInv, Traced
<1>3. EntryInv /\ KeptInv /\ MergedInv /\ DocInv
  BY ConstantsAssumption, ScanAssumption DEF EntryInv, KeptInv, MergedInv, DocInv
<1>4. BoundInv /\ FiniteInv /\ VerdictInv
  BY ConstantsAssumption, FS_EmptySet DEF BoundInv, FiniteInv, VerdictInv
<1>. QED BY <1>1, <1>2, <1>3, <1>4 DEF IInv

\* What every adapter makes of a declaration: items of one name, no Task with a
\* reason.
IsDeclaration(ms) ==
  /\ ms \subseteq Mention
  /\ \A m \in ms : Bucket(m.id) = "actions" => m.reason = NoReason
  /\ \E n \in Names : \A m \in ms : m.id \in Buckets \X {n}

\* An item is one of the type of mentions.
LEMMA ItemIsMention ==
  ASSUME NEW b \in Buckets, NEW n \in Names, NEW lb \in Labels,
         NEW r \in SourceReasons \cup {NoReason}
  PROVE  /\ Item(b, n, lb, r) \in Mention
         /\ Item(b, n, lb, r).id \in Buckets \X {n}
         /\ Bucket(Item(b, n, lb, r).id) = b
         /\ Item(b, n, lb, r).reason = r
BY DEF Item, Mention, Ids, Bucket

\* Items of one name, in any buckets, with a reason outside of the Tasks.
LEMMA ItemsDeclare ==
  ASSUME NEW bs \in SUBSET Buckets, NEW n \in Names, NEW lb \in Labels,
         NEW r \in SourceReasons \cup {NoReason},
         "actions" \in bs => r = NoReason
  PROVE  IsDeclaration({Item(b, n, lb, r) : b \in bs})
<1>1. ASSUME NEW m \in {Item(b, n, lb, r) : b \in bs}
      PROVE  /\ m \in Mention
             /\ m.id \in Buckets \X {n}
             /\ Bucket(m.id) = "actions" => m.reason = NoReason
  <2>1. PICK b \in bs : m = Item(b, n, lb, r)
    OBVIOUS
  <2>. QED BY <2>1, ItemIsMention
<1>. DEFINE items == {Item(b, n, lb, r) : b \in bs}
<1>. HIDE DEF items
<1>2. \A m \in items : m \in Mention
  BY <1>1 DEF items
<1>3. \A m \in items : m.id \in Buckets \X {n}
  BY <1>1 DEF items
<1>4. \A m \in items : Bucket(m.id) = "actions" => m.reason = NoReason
  BY <1>1 DEF items
<1>5. \E x \in Names : \A m \in items : m.id \in Buckets \X {x}
  BY <1>3
<1>6. IsDeclaration(items)
  BY <1>2, <1>4, <1>5 DEF IsDeclaration
<1>. QED BY <1>6 DEF items

\* One item is such a declaration.
LEMMA ItemDeclares ==
  ASSUME NEW b \in Buckets, NEW n \in Names, NEW lb \in Labels,
         NEW r \in SourceReasons \cup {NoReason},
         b = "actions" => r = NoReason
  PROVE  IsDeclaration({Item(b, n, lb, r)})
<1>1. {Item(b, n, lb, r)} = {Item(x, n, lb, r) : x \in {b}}
  OBVIOUS
<1>2. {b} \in SUBSET Buckets /\ ("actions" \in {b} => r = NoReason)
  OBVIOUS
<1>3. IsDeclaration({Item(x, n, lb, r) : x \in {b}})
  BY <1>2, ItemsDeclare
<1>. QED BY <1>1, <1>3

\* The first canonical token is a reason of the source or none.
LEMMA TokenType ==
  ASSUME NEW lb \in Labels
  PROVE  /\ FirstCanonToken(lb) \subseteq SourceReasons \cup {NoReason}
         /\ CanonReason[lb] \in SourceReasons \cup {NoReason}
BY ConstantsAssumption DEF FirstCanonToken

\* Every adapter declares items of one name, and no Task with a reason.
LEMMA AdaptersDeclare ==
  ASSUME NEW k \in Kinds, NEW ms \in Adapters[k] PROVE IsDeclaration(ms)
<1>1. ASSUME ms \in _from_rego PROVE IsDeclaration(ms)
  BY <1>1, ItemDeclares, TokenType DEF _from_rego, Buckets
<1>2. ASSUME ms \in _from_openapi PROVE IsDeclaration(ms)
  <2>1. PICK n \in Names, lb \in Labels,
             bs \in {{"actions"}, {"actions", "capabilities"}} :
          ms = {Item(b, n, lb, NoReason) : b \in bs}
    BY <1>2 DEF _from_openapi
  <2>2. bs \in SUBSET Buckets
    BY DEF Buckets
  <2>. QED BY <2>1, <2>2, ItemsDeclare
<1>3. ASSUME ms \in _from_mcp PROVE IsDeclaration(ms)
  <2>1. PICK n \in Names, lb \in Labels :
          \E r \in FirstCanonToken(lb) : ms = {Item("capabilities", n, lb, r)}
    BY <1>3 DEF _from_mcp
  <2>. QED BY <2>1, ItemDeclares, TokenType DEF Buckets
<1>4. ASSUME ms \in _from_speckit PROVE IsDeclaration(ms)
  <2>1. PICK n \in Names, lb \in Labels :
          ms \in {{Item("capabilities", n, lb, r)} : r \in SourceReasons \cup {NoReason}}
                \cup {{Item("gates", n, lb, r)} : r \in FirstCanonToken(lb)}
    BY <1>4 DEF _from_speckit
  <2>2. PICK b \in {"capabilities", "gates"}, r \in SourceReasons \cup {NoReason} :
          ms = {Item(b, n, lb, r)}
    BY <2>1, TokenType
  <2>. QED BY <2>2, ItemDeclares DEF Buckets
<1>5. ASSUME ms \in _from_agentdef PROVE IsDeclaration(ms)
  <2>1. PICK b \in Buckets, n \in Names, lb \in Labels, r \in SourceReasons \cup {NoReason} :
          /\ ms = {Item(b, n, lb, r)}
          /\ b = "actions" => r = NoReason
    <3>1. "actions" \in Buckets
      BY DEF Buckets
    <3>. QED BY <1>5, <3>1 DEF _from_agentdef
  <2>. QED BY <2>1, ItemDeclares
<1>6. ASSUME ms \in _from_python PROVE IsDeclaration(ms)
  <2>1. ASSUME NEW n \in Names, NEW lb \in Labels,
               NEW bs \in SUBSET (Buckets \ {"actions"}), NEW r \in FirstCanonToken(lb),
               ms = {Item(b, n, lb, r) : b \in bs}
        PROVE  IsDeclaration(ms)
    <3>1. bs \in SUBSET Buckets /\ "actions" \notin bs
      OBVIOUS
    <3>2. r \in SourceReasons \cup {NoReason}
      BY TokenType
    <3>. QED BY <2>1, <3>1, <3>2, ItemsDeclare
  <2>2. ASSUME NEW n \in Names, NEW lb \in ActionLabels, ms = {Item("actions", n, lb, NoReason)}
        PROVE  IsDeclaration(ms)
    <3>1. lb \in Labels /\ "actions" \in Buckets
      BY ConstantsAssumption DEF Buckets
    <3>. QED BY <2>2, <3>1, ItemDeclares
  <2>3. ASSUME NEW n \in Names, NEW lb \in Labels, ms \in Decorated(n, lb)
        PROVE  IsDeclaration(ms)
    BY <2>1, <2>3 DEF Decorated
  <2>4. ms \in VerbNamed => IsDeclaration(ms)
    BY <2>2 DEF VerbNamed
  <2>. QED BY <1>6, <2>3, <2>4 DEF _from_python
<1>7. k \in {"rego", "openapi", "mcp", "speckit", "agentdef", "python"}
  BY DEF Kinds, Adapters
<1>8. /\ k = "rego"     => Adapters[k] = _from_rego
      /\ k = "openapi"  => Adapters[k] = _from_openapi
      /\ k = "mcp"      => Adapters[k] = _from_mcp
      /\ k = "speckit"  => Adapters[k] = _from_speckit
      /\ k = "agentdef" => Adapters[k] = _from_agentdef
      /\ k = "python"   => Adapters[k] = _from_python
  BY DEF Adapters
<1>. QED BY <1>1, <1>2, <1>3, <1>4, <1>5, <1>6, <1>7, <1>8

\* Its ids are finitely many.
LEMMA FiniteIds ==
  ASSUME NEW ms, IsDeclaration(ms) PROVE IsFiniteSet({m.id : m \in ms})
<1>1. PICK n \in Names : \A m \in ms : m.id \in Buckets \X {n}
  BY DEF IsDeclaration
<1>2. \A m \in ms : m.id \in {<<"capabilities", n>>, <<"decisions", n>>,
                             <<"gates", n>>, <<"actions", n>>}
  BY <1>1 DEF Buckets
<1>. DEFINE two  == {<<"capabilities", n>>} \cup {<<"decisions", n>>}
            more == {<<"gates", n>>} \cup {<<"actions", n>>}
<1>3. IsFiniteSet(two) /\ IsFiniteSet(more)
  <2>1. \A x : IsFiniteSet({x})
    BY FS_Singleton
  <2>. QED BY <2>1, FS_Union
<1>4. \A m \in ms : m.id \in two \cup more
  BY <1>2
<1>. HIDE DEF two, more
<1>5. IsFiniteSet(two \cup more)
  BY <1>3, FS_Union
<1>6. {m.id : m \in ms} \subseteq two \cup more
  BY <1>4
<1>. QED BY <1>5, <1>6, FS_Subset

\* Reading a declaration keeps the invariant.
LEMMA AddKeeps ==
  ASSUME IInv, NEW ms, IsDeclaration(ms), AddItems(ms),
         kind' \in Kinds \cup {"none", "read"}
  PROVE  IInv'
<1>1. /\ rec \in Record /\ scanning /\ rec' = _add_all(rec, ms)
      /\ mentions' = mentions \cup ms
      /\ ms \subseteq Mention
      /\ \A m \in ms : Bucket(m.id) = "actions" => m.reason = NoReason
      /\ UNCHANGED <<agg, scanning, doc, merged>>
  BY DEF AddItems, IsDeclaration, IInv, TypeInv
<1>2. /\ rec' \in Record
      /\ Items(rec') = Items(rec) \cup {m.id : m \in ms}
      /\ \A i \in Ids : \/ rec'.reason[i] = rec.reason[i]
                        \/ \E m \in ms : m.id = i /\ rec'.reason[i] = m.reason
  <2>1. ms \in SUBSET [id : Ids, label : Labels, reason : Reasons \cup {NoReason}]
    BY <1>1, ConstantsAssumption DEF Mention
  <2>. QED BY <1>1, <2>1, AddAllToRecord
<1>3. TypeInv'
  BY <1>1, <1>2 DEF IInv, TypeInv
<1>4. TraceInv'
  <2>1. Traced(rec)'
    BY <1>1, <1>2 DEF IInv, TraceInv, Traced
  <2>2. Traced(agg)'
    BY <1>1 DEF IInv, TraceInv, Traced
  <2>. QED BY <2>1, <2>2 DEF TraceInv
<1>5. EntryInv'
  <2>1. ASSUME NEW i \in Ids, rec'.reason[i] # Unset PROVE i \in Items(rec')
    BY <1>2, <2>1 DEF IInv, EntryInv
  <2>2. \A i \in Ids : agg'.reason[i] # Unset => i \in Items(agg')
    BY <1>1 DEF IInv, EntryInv
  <2>3. Items(rec)' = Items(rec') /\ Items(agg)' = Items(agg')
    BY DEF Items
  <2>. QED BY <2>1, <2>2, <2>3 DEF EntryInv
<1>6. Items(agg)' = Items(agg) /\ Items(rec)' = Items(rec) \cup {m.id : m \in ms}
  BY <1>1, <1>2 DEF Items
<1>7. KeptInv'
  BY <1>1, <1>6 DEF IInv, KeptInv
<1>8. MergedInv' /\ DocInv'
  BY <1>1 DEF IInv, MergedInv, DocInv
<1>9. BoundInv'
  <2>1. files < MaxFiles /\ adds < MaxAdds /\ files' = files /\ adds' = adds + 1
    BY DEF AddItems
  <2>. QED BY <2>1, ConstantsAssumption DEF IInv, BoundInv
<1>10. FiniteInv'
  <2>1. IsFiniteSet(Items(rec)) /\ IsFiniteSet(Items(agg))
    BY DEF IInv, FiniteInv
  <2>2. IsFiniteSet({m.id : m \in ms})
    BY FiniteIds
  <2>3. IsFiniteSet(Items(rec) \cup {m.id : m \in ms})
    BY <2>1, <2>2, FS_Union
  <2>. QED BY <1>6, <2>1, <2>3 DEF FiniteInv
<1>11. VerdictInv'
  BY DEF AddItems, IInv, VerdictInv
<1>. QED BY <1>3, <1>4, <1>5, <1>7, <1>8, <1>9, <1>10, <1>11 DEF IInv

\* Every step of the scan, of a merge and of the pipeline keeps the invariant.
LEMMA NextInv == IInv /\ [Next]_vars => IInv'
<1>. SUFFICES ASSUME IInv, [Next]_vars PROVE IInv'
  OBVIOUS
<1>0. ASSUME NEW n \in Names, NEW lb \in Labels, RegoPackage(n, lb)
      PROVE  IInv'
  <2>1. IsDeclaration({Item("gates", n, lb, NoReason)})
    BY ItemDeclares DEF Buckets
  <2>. QED BY <1>0, <2>1, AddKeeps DEF RegoPackage
<1>1. ASSUME NEW k \in Kinds, NEW ms \in Adapters[k], Declare(k, ms)
      PROVE  IInv'
  BY <1>1, AdaptersDeclare, AddKeeps DEF Declare
<1>2. CASE EndFile
  <2>1. /\ rec \in Record /\ agg \in Record /\ scanning
        /\ agg' = _merge_record(agg, rec) /\ rec' = _empty /\ kind' = "none"
        /\ merged' = merged \cup {<<i, rec.reason[i]>> : i \in Ids}
        /\ UNCHANGED <<scanning, doc, mentions>>
    BY <1>2 DEF EndFile, IInv, TypeInv
  <2>2. /\ agg' \in Record
        /\ Items(agg') = Items(agg) \cup Items(rec)
        /\ \A i \in Ids : agg'.reason[i] =
             IF agg.reason[i] # Unset THEN agg.reason[i] ELSE rec.reason[i]
    BY <2>1, MergeRecords
  <2>3. /\ rec' \in Record
        /\ Items(rec') = {}
        /\ \A i \in Ids : rec'.reason[i] = Unset
    BY <2>1, EmptyRecord
  <2>4. TypeInv'
    <3>1. \A i \in Ids : rec.reason[i] \in Entries
      BY <2>1 DEF Record, Entries
    <3>. QED BY <2>1, <2>2, <2>3, <3>1 DEF IInv, TypeInv
  <2>5. TraceInv'
    <3>1. Traced(rec)'
      BY <2>3, ConstantsAssumption, ScanAssumption DEF Traced
    <3>2. Traced(agg)'
      BY <2>1, <2>2 DEF IInv, TraceInv, Traced
    <3>. QED BY <3>1, <3>2 DEF TraceInv
  <2>6. EntryInv'
    BY <2>2, <2>3 DEF IInv, EntryInv, Items
  <2>7. KeptInv'
    <3>1. Items(agg)' = Items(agg) \cup Items(rec)
      BY <2>2 DEF Items
    <3>. QED BY <2>1, <3>1 DEF IInv, KeptInv
  <2>8. MergedInv'
    <3>1. ASSUME NEW p \in merged', p[2] # Unset
          PROVE  agg'.reason[p[1]] # Unset
      <4>1. CASE p \in merged
        <5>1. p[1] \in Ids
          BY <4>1 DEF IInv, TypeInv
        <5>. QED BY <2>2, <3>1, <4>1, <5>1 DEF IInv, MergedInv
      <4>2. CASE p \notin merged
        <5>1. PICK i \in Ids : p = <<i, rec.reason[i]>>
          BY <2>1, <4>2
        <5>. QED BY <2>2, <3>1, <5>1
      <4>. QED BY <4>1, <4>2
    <3>2. ASSUME NEW i \in Ids, agg'.reason[i] = NoReason
          PROVE  <<i, NoReason>> \in merged'
      <4>1. CASE agg.reason[i] # Unset
        BY <2>1, <2>2, <3>2, <4>1 DEF IInv, MergedInv
      <4>2. CASE agg.reason[i] = Unset
        BY <2>1, <2>2, <3>2, <4>2
      <4>. QED BY <4>1, <4>2
    <3>. QED BY <3>1, <3>2 DEF MergedInv
  <2>9. DocInv'
    BY <2>1 DEF IInv, DocInv
  <2>10. BoundInv'
    <3>1. Items(rec) # {} /\ files' = files + 1 /\ adds' = adds
      BY <1>2 DEF EndFile, _has_facts
    <3>2. Items(rec)' = {}
      BY <2>3 DEF Items
    <3>. QED BY <3>1, <3>2, ConstantsAssumption DEF IInv, BoundInv
  <2>11. FiniteInv'
    <3>1. Items(agg)' = Items(agg) \cup Items(rec) /\ Items(rec)' = {}
      BY <2>2, <2>3 DEF Items
    <3>. QED BY <3>1, FS_Union, FS_EmptySet DEF IInv, FiniteInv
  <2>12. VerdictInv'
    BY <1>2 DEF EndFile, IInv, VerdictInv
  <2>. QED BY <2>4, <2>5, <2>6, <2>7, <2>8, <2>9, <2>10, <2>11, <2>12 DEF IInv
<1>3. CASE RunPipeline
  <2>1. /\ scanning' = FALSE /\ Items(rec) = {}
        /\ doc' = generate(agg)
        /\ UNCHANGED <<kind, rec, agg, mentions, merged>>
    BY <1>3 DEF RunPipeline, _has_facts
  <2>2. DocInv'
    <3>1. generate(agg)' = generate(agg) /\ Items(rec)' = Items(rec)
      BY <2>1 DEF generate, Nodes, Edges, Items, ActionMaps, Governed, CapabilityLabels
    <3>. QED BY <2>1, <3>1 DEF DocInv
  <2>3. TypeInv' /\ TraceInv' /\ EntryInv' /\ KeptInv' /\ MergedInv'
    BY <2>1 DEF IInv, TypeInv, TraceInv, Traced, EntryInv, KeptInv, MergedInv, Items
  <2>4. BoundInv' /\ FiniteInv'
    BY <1>3 DEF RunPipeline, IInv, BoundInv, FiniteInv, Items
  <2>5. VerdictInv'
    <3>1. ok' = TRUE
      BY <1>3, GeneratedDoc DEF RunPipeline, validate
    <3>2. profile' = ProfileOf(doc')
      BY <1>3 DEF RunPipeline
    <3>. QED BY <2>1, <3>1, <3>2 DEF VerdictInv
  <2>. QED BY <2>2, <2>3, <2>4, <2>5 DEF IInv
<1>4. CASE UNCHANGED vars
  <2>1. TypeInv' /\ TraceInv' /\ EntryInv' /\ KeptInv' /\ MergedInv' /\ DocInv'
    BY <1>4 DEF vars, IInv, TypeInv, TraceInv, Traced, EntryInv, KeptInv, MergedInv,
                DocInv, Items, generate, Nodes, Edges, ActionMaps, Governed,
                CapabilityLabels
  <2>2. BoundInv' /\ FiniteInv' /\ VerdictInv'
    BY <1>4 DEF vars, IInv, BoundInv, FiniteInv, VerdictInv, Items
  <2>. QED BY <2>1, <2>2 DEF IInv
<1>. QED BY <1>0, <1>1, <1>2, <1>3, <1>4 DEF Next

\* IInv is an invariant of the specification.
THEOREM Invariance == Spec => []IInv
<1>. QED BY InitInv, NextInv, PTL DEF Spec

-----------------------------------------------------------------------------
(* What the scan promises.                                                 *)

\* AssertedIsSourceNamed: whatever the files, their order and the ids and
\* labels they share, an asserted control of an action is one the table gives
\* for a reason some file named for that action.
THEOREM SourceNamed == Spec => []AssertedIsSourceNamed
<1>1. IInv => AssertedIsSourceNamed
  <2>. SUFFICES ASSUME IInv, NEW i \in DOMAIN doc.maps,
                       NEW m \in doc.maps[i].mappings, m.confidence = "asserted"
                PROVE  \E n \in mentions : /\ n.id = i
                                           /\ n.reason \in Reasons
                                           /\ m.control \in Asserted[n.reason]
    BY DEF AssertedIsSourceNamed
  <2>1. ~scanning
    BY DEF IInv, TypeInv, DocInv, NoDoc
  <2>2. doc.maps = ActionMaps(agg)
    BY <2>1 DEF IInv, DocInv, generate
  <2>3. i \in Ids /\ m \in map_action(VerbOf[agg.label[i]], agg.reason[i]).mappings
    BY <2>2 DEF ActionMaps, Governed, Items
  <2>4. agg.reason[i] \in Reasons /\ m.control \in Asserted[agg.reason[i]]
    BY <2>3, AssertedOnlyFromTable
  <2>. QED BY <2>3, <2>4 DEF IInv, TraceInv, Traced
<1>. QED BY <1>1, Invariance, PTL

\* NothingHidden: an item of any file is mapped under its id, or is a Task that
\* a mapped Capability with the same label stands for.
THEOREM NothingIsHidden == Spec => []NothingHidden
<1>1. IInv => NothingHidden
  <2>. SUFFICES ASSUME IInv, ~scanning, NEW n \in mentions,
                       n.id \notin DOMAIN doc.maps
                PROVE  /\ Bucket(n.id) = "actions"
                       /\ \E i \in DOMAIN doc.maps :
                            /\ Bucket(i) = "capabilities"
                            /\ agg.label[i] = agg.label[n.id]
    BY DEF NothingHidden
  <2>1. DOMAIN doc.maps = Governed(agg)
    BY DEF IInv, DocInv, generate, ActionMaps
  <2>2. n.id \in Items(agg)
    BY DEF IInv, KeptInv, DocInv
  <2>3. Bucket(n.id) = "actions" /\ agg.label[n.id] \in CapabilityLabels(agg)
    BY <2>1, <2>2 DEF Governed
  <2>4. PICK i \in Items(agg) : /\ Bucket(i) = "capabilities"
                               /\ agg.label[i] = agg.label[n.id]
    BY <2>3 DEF CapabilityLabels
  <2>5. i \in Governed(agg)
    BY <2>4 DEF Governed
  <2>. QED BY <2>1, <2>3, <2>4, <2>5
<1>. QED BY <1>1, Invariance, PTL

\* NamedReasonReachesDoc: a reason of a merged file reaches the document, in
\* whatever order the files are read, unless a file names the gate without one.
THEOREM ReasonReachesDoc == Spec => []NamedReasonReachesDoc
<1>1. IInv => NamedReasonReachesDoc
  <2>. SUFFICES ASSUME IInv, ~scanning, NEW p \in merged, p[2] \in Reasons,
                       <<p[1], NoReason>> \notin merged
                PROVE  doc.maps[p[1]].matched_via = "asserted_table"
    BY DEF NamedReasonReachesDoc
  <2>1. p[1] \in Ids /\ agg \in Record
    BY DEF IInv, TypeInv
  <2>2. agg.reason[p[1]] # Unset /\ agg.reason[p[1]] # NoReason
    BY <2>1, ConstantsAssumption, ScanAssumption DEF IInv, MergedInv
  <2>3. agg.reason[p[1]] \in Reasons
    BY <2>1, <2>2 DEF Record
  <2>4. Bucket(p[1]) # "actions"
    BY <2>1, <2>3, ConstantsAssumption, ScanAssumption DEF IInv, TraceInv, Traced, KeptInv
  <2>5. p[1] \in Items(agg)
    BY <2>1, <2>2 DEF IInv, EntryInv
  <2>6. p[1] \in Governed(agg)
    BY <2>4, <2>5 DEF Governed
  <2>7. doc.maps[p[1]] = map_action(VerbOf[agg.label[p[1]]], agg.reason[p[1]])
    BY <2>6 DEF IInv, DocInv, generate, ActionMaps
  <2>. QED BY <2>3, <2>7, ReasonsMatchTable
<1>. QED BY <1>1, Invariance, PTL

\* LaterFilesOnlyAdd: no step takes a reason or a label back from the aggregate.
THEOREM OnlyAdded == Spec => LaterFilesOnlyAdd
<1>. DEFINE Kept == \A i \in Ids :
                     /\ agg.reason[i] \in Reasons => agg'.reason[i] = agg.reason[i]
                     /\ i \in Items(agg) => agg'.label[i] = agg.label[i]
<1>1. IInv /\ [Next]_vars => [Kept]_vars
  <2>. SUFFICES ASSUME IInv, Next PROVE Kept
    OBVIOUS
  <2>1. CASE EndFile
    <3>1. agg' = _merge_record(agg, rec) /\ rec \in Record /\ agg \in Record
      BY <2>1 DEF EndFile, IInv, TypeInv
    <3>. QED BY <3>1, MergeRecords, ConstantsAssumption, ScanAssumption
  <2>2. CASE UNCHANGED agg
    BY <2>2
  <2>. QED BY <2>1, <2>2 DEF Next, Declare, RegoPackage, AddItems, RunPipeline
<1>2. Spec => [][Kept]_vars
  BY <1>1, Invariance, PTL DEF Spec
<1>. QED BY <1>2 DEF LaterFilesOnlyAdd

\* ValidatorAccepts: what generate makes of any merged record validates.
THEOREM DocumentValidates == Spec => []ValidatorAccepts
<1>1. IInv => ValidatorAccepts
  BY DEF IInv, VerdictInv, ValidatorAccepts
<1>. QED BY <1>1, Invariance, PTL

\* The final document is one the lemmas about scores speak of.
LEMMA FinalDoc == IInv /\ ~scanning => Scored(doc) /\ DOMAIN doc.maps \subseteq Ids
<1>1. ASSUME IInv, ~scanning PROVE Scored(doc) /\ DOMAIN doc.maps \subseteq Items(agg)
  <2>1. doc = generate(agg) /\ IsFiniteSet(Items(agg))
    BY <1>1 DEF IInv, DocInv, FiniteInv
  <2>. QED BY <2>1, GeneratedDoc
<1>. QED BY <1>1 DEF Items

\* The bounds and types of the scan; the score is a percentage.
THEOREM TypeCorrect == Spec => []TypeOK
<1>1. IInv => TypeOK
  <2>. SUFFICES ASSUME IInv PROVE TypeOK
    OBVIOUS
  <2>1. /\ kind \in Kinds \cup {"none", "read"}
        /\ rec \in Record /\ agg \in Record /\ scanning \in BOOLEAN
        /\ mentions \subseteq Mention /\ merged \subseteq Ids \X (Reasons \cup {NoReason, Unset})
        /\ files \in 0..MaxFiles /\ adds \in 0..MaxAdds /\ ok \in BOOLEAN
    BY DEF IInv, TypeInv, BoundInv, VerdictInv, Entries
  <2>2. /\ DOMAIN doc.maps \subseteq Ids
        /\ profile.score \in 0..100 /\ profile.tier \in TIERS
    <3>1. CASE scanning
      BY <3>1 DEF IInv, DocInv, NoDoc, VerdictInv, NoProfile, TIERS
    <3>2. CASE ~scanning
      <4>1. profile = ProfileOf(doc)
        BY <3>2 DEF IInv, VerdictInv
      <4>. QED BY <3>2, <4>1, FinalDoc, ProfileEarned
    <3>. QED BY <3>1, <3>2
  <2>. QED BY <2>1, <2>2 DEF TypeOK
<1>. QED BY <1>1, Invariance, PTL

\* TierIsEarned: the tier of a scan never claims a coverage the document does
\* not have.
THEOREM TierEarned == Spec => []TierIsEarned
<1>1. IInv => TierIsEarned
  <2>. SUFFICES ASSUME IInv PROVE TierIsEarned
    OBVIOUS
  <2>. DEFINE governed == Cardinality(DOMAIN doc.maps)
              covered  == Cardinality(Covered(doc))
  <2>1. CASE scanning
    BY <2>1 DEF IInv, VerdictInv, NoProfile, TierIsEarned
  <2>2. CASE ~scanning
    <3>1. profile = ProfileOf(doc) /\ Scored(doc)
      BY <2>2, FinalDoc DEF IInv, VerdictInv
    <3>2. /\ governed \in Nat /\ covered \in Nat
          /\ covered = 0 => profile.tier = "UNGOVERNED"
          /\ profile.tier \in {"HARDENED", "SOVEREIGN"} => 2 * covered >= governed
          /\ profile.tier = "SOVEREIGN" => 1000 * covered >= 845 * governed
      BY <3>1, ProfileEarned
    <3>. HIDE DEF governed, covered
    <3>3. /\ profile.tier # "UNGOVERNED" => covered > 0
          /\ profile.tier = "SOVEREIGN" => 5 * covered >= 4 * governed
      BY <3>2
    <3>. QED BY <3>2, <3>3 DEF TierIsEarned, governed, covered
  <2>. QED BY <2>1, <2>2
<1>. QED BY <1>1, Invariance, PTL
=============================================================================
