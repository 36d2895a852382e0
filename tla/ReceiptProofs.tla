--------------------------- MODULE ReceiptProofs ---------------------------
(***************************************************************************)
(* Proofs about Receipt, for any hosts, evidence, decisions, minters and   *)
(* any number of mints and edits.                                          *)
(*                                                                         *)
(* The inductive invariant relates the receipt file to the receipt that    *)
(* was minted: an edit may lose or damage a signature, or put one in its   *)
(* place made with a key no minter has, and every minted signature covers  *)
(* the minted body under the key that was minted with it.                  *)
(***************************************************************************)
EXTENDS Receipt, FiniteSetTheorems, TLAPS

\* What a minter is working on has the types of its inputs, and its key is one
\* it read or generated once it assembles an Ed25519 leg.
MinterInv ==
  /\ keyFile \in Nat \cup {Absent, Empty}
  /\ fresh \in Nat
  /\ pqKeys \in [PqLegs -> {0, 1, Empty}]
  /\ pc \in [Minters -> {"idle", "exists", "read", "generate", "write", "assemble"}]
  /\ sk \in [Minters -> Nat \cup {Absent}]
  /\ env \in [Minters -> (Hosts \X Evidences \X Decisions) \cup {Idle}]
  /\ \A w \in Minters :
       /\ ~At(w, "idle") => env[w] \in Hosts \X Evidences \X Decisions
       /\ At(w, "write") => sk[w] \in Nat
       /\ At(w, "read") => keyFile # Absent
       /\ At(w, "assemble") /\ env[w][1].cryptography => sk[w] \in Nat

\* A minted leg: no signature, or one by the embedded key over the minted body,
\* by the algorithm some host has for the leg.
SomeAlg(l, alg) == alg \in Algs /\ \E h \in Hosts : alg = LibraryAlg(h, l)
MintedLeg(r, l) ==
  \/ r.legs[l] = NoLeg
  \/ \E alg, key :
       /\ SomeAlg(l, alg) /\ key \in Nat
       /\ r.legs[l] = SignedLeg(alg, key, <<r.evidence, r.decision>>)

OriginalInv ==
  original # NoReceipt =>
    /\ original \in ReceiptType
    /\ original.evidence \in Evidences /\ original.decision \in Decisions
    /\ original.evidence_hash = original.evidence
    /\ \A l \in Legs : MintedLeg(original, l)

\* A signature of the receipt file: lost, damaged, the minted one, or made with
\* somebody else's key.
Foreign(sig) == sig \in Signature /\ sig.key = OtherKey
KnownSig(l) == \/ receipt.legs[l].sig \in {Missing, Damaged, original.legs[l].sig}
               \/ Foreign(receipt.legs[l].sig)

ReceiptInv ==
  receipt # NoReceipt =>
    /\ receipt \in ReceiptType
    /\ original # NoReceipt
    /\ \A l \in Legs : KnownSig(l)

FreshInv == edits \in Nat /\ (edits = 0 => receipt = original)

IInv == MinterInv /\ OriginalInv /\ ReceiptInv /\ FreshInv

-----------------------------------------------------------------------------
(* The mint.                                                               *)

\* A host's algorithm for a leg is one of the known ones, or it has none.
LEMMA AlgTypes ==
  ASSUME NEW h \in Host, NEW l \in Legs
  PROVE  LibraryAlg(h, l) \in Algs \cup {NoAlg}
BY DEF LibraryAlg, ml_dsa_alg, Legs, PqLegs, Algs, Mechanisms, NoAlg

\* A signed leg is a leg.
LEMMA SignedLegType ==
  ASSUME NEW alg \in Algs, NEW key \in Nat \cup {OtherKey}, NEW body \in Bodies
  PROVE  /\ SignedLeg(alg, key, body) \in Leg
         /\ SignedLeg(alg, key, body).sig \in Signature
         /\ SignedLeg(alg, key, body).sig.key = key
BY DEF SignedLeg, Leg, Signature

\* mint makes a receipt whose legs are signed over its own body.
LEMMA MintType ==
  ASSUME NEW h \in Hosts, NEW e \in Evidences, NEW d \in Decisions,
         NEW key, h.cryptography => key \in Nat,
         pqKeys \in [PqLegs -> {0, 1, Empty}]
  PROVE  LET r == mint(h, e, d, key) IN
         /\ r \in ReceiptType
         /\ r.evidence = e /\ r.decision = d /\ r.evidence_hash = e
         /\ \A l \in Legs : MintedLeg(r, l)
<1> DEFINE r == mint(h, e, d, key)
           body == <<e, d>>
<1>1. h \in Host /\ h.cryptography \in BOOLEAN
  BY ReceiptAssumption DEF Host
<1>2. body \in Bodies
  BY DEF Bodies
<1>3. ASSUME NEW l \in PqLegs
      PROVE  \/ PqLeg(h, l, body) = NoLeg
             \/ \E alg, k : /\ SomeAlg(l, alg) /\ k \in Nat
                            /\ PqLeg(h, l, body) = SignedLeg(alg, k, body)
  <2>1. CASE LibraryAlg(h, l) # NoAlg /\ pqKeys[l] # Empty
    <3>1. SomeAlg(l, LibraryAlg(h, l))
      BY <1>1, <2>1, AlgTypes DEF Legs, SomeAlg
    <3>2. pqKeys[l] \in Nat
      BY <2>1
    <3>3. PqLeg(h, l, body) = SignedLeg(LibraryAlg(h, l), pqKeys[l], body)
      BY <2>1 DEF PqLeg
    <3>4. QED BY <3>1, <3>2, <3>3
  <2>2. CASE ~(LibraryAlg(h, l) # NoAlg /\ pqKeys[l] # Empty)
    BY <2>2 DEF PqLeg
  <2>3. QED BY <2>1, <2>2
<1>4. ASSUME NEW l \in Legs
      PROVE  \/ r.legs[l] = NoLeg
             \/ \E alg, k : /\ SomeAlg(l, alg) /\ k \in Nat
                            /\ r.legs[l] = SignedLeg(alg, k, body)
  <2>1. CASE l # "ed25519"
    <3>1. l \in PqLegs /\ r.legs[l] = PqLeg(h, l, body)
      BY <2>1 DEF mint, Legs
    <3>2. QED BY <3>1, <1>3
  <2>2. CASE l = "ed25519" /\ h.cryptography
    <3>1. r.legs[l] = SignedLeg("Ed25519", key, body)
      BY <2>2 DEF mint, Legs
    <3>2. SomeAlg(l, "Ed25519") /\ key \in Nat
      BY <2>2 DEF Algs, SomeAlg, LibraryAlg
    <3>3. QED BY <3>1, <3>2
  <2>3. CASE l = "ed25519" /\ ~h.cryptography
    BY <2>3 DEF mint, Legs
  <2>4. QED BY <2>1, <2>2, <2>3
<1>5. NoLeg \in Leg
  BY DEF NoLeg, Leg
<1>6. \A l \in Legs : r.legs[l] \in Leg
  BY <1>2, <1>4, <1>5, SignedLegType DEF SomeAlg
<1>7. r.legs \in [Legs -> Leg]
  BY <1>6 DEF mint
<1>8. r.signature_alg \in SUBSET Legs
  BY DEF mint, signature_alg, Legs
<1>9. r \in ReceiptType
  BY <1>1, <1>7, <1>8 DEF mint, ReceiptType
<1>10. r.evidence = e /\ r.decision = d /\ r.evidence_hash = e
  BY DEF mint
<1>11. \A l \in Legs : MintedLeg(r, l)
  BY <1>4, <1>10 DEF MintedLeg
<1>12. QED BY <1>9, <1>10, <1>11

-----------------------------------------------------------------------------
(* The invariant.                                                          *)

\* Initially there is no receipt and nobody mints.
LEMMA InitInv == Init => IInv
BY DEF Init, IInv, MinterInv, OriginalInv, ReceiptInv, FreshInv, At

\* The bodies an editor signs are bodies.
LEMMA BodyTypes ==
  ASSUME NEW r \in ReceiptType
  PROVE  Body(r) \in Bodies /\ StandaloneBody(r) \in Bodies
BY DEF ReceiptType, Body, StandaloneBody, Bodies

\* Every edit of one leg keeps the receipt's type and its other legs.
LEMMA LegEdit ==
  ASSUME NEW r \in ReceiptType, NEW l \in Legs, NEW leg \in Leg
  PROVE  LET new == [r EXCEPT !.legs[l] = leg] IN
         /\ new \in ReceiptType
         /\ \A m \in Legs : new.legs[m] = IF m = l THEN leg ELSE r.legs[m]
BY DEF ReceiptType

\* Every edit keeps the type of the receipt and makes no signature but one with
\* a key no minter has.
LEMMA EditReceipt ==
  ASSUME IInv, Edit
  PROVE  IInv'
<1>1. PICK r : Edited(r)
  BY DEF Edit, EditEvidence, EditHash, EditDecision, DropSig, DropPub,
         DamageSig, ReplacePub, Reflow, Rewrite, Resign
<1>2. /\ receipt # NoReceipt /\ receipt \in ReceiptType /\ original # NoReceipt
      /\ \A l \in Legs : receipt.legs[l] \in Leg
      /\ \A l \in Legs : KnownSig(l)
  BY <1>1 DEF Edited, IInv, ReceiptInv, ReceiptType
<1>3. UNCHANGED <<minting, pqKeys, original>>
  BY <1>1 DEF Edited
<1>4. MinterInv' /\ OriginalInv'
  <2>1. MinterInv'
    BY <1>3 DEF IInv, MinterInv, minting, At
  <2>2. OriginalInv'
    BY <1>3 DEF IInv, OriginalInv, MintedLeg
  <2>3. QED BY <2>1, <2>2
<1> DEFINE Good(new) ==
             /\ new \in ReceiptType
             /\ \A l \in Legs : \/ new.legs[l].sig \in {receipt.legs[l].sig, Missing, Damaged}
                                \/ Foreign(new.legs[l].sig)
<1>5. Good(receipt')
  <2>1. ASSUME NEW e \in Evidences \cup {Missing},
               EditEvidence(e) \/ EditHash(e)
        PROVE  Good(receipt')
    BY <1>2, <2>1 DEF EditEvidence, EditHash, Edited, ReceiptType
  <2>2. ASSUME NEW d \in Decisions \cup {Missing}, EditDecision(d)
        PROVE  Good(receipt')
    BY <1>2, <2>2 DEF EditDecision, Edited, ReceiptType
  <2>3. ASSUME NEW e \in Evidences, Rewrite(e) PROVE Good(receipt')
    <3>1. receipt' = [receipt EXCEPT !.evidence = e, !.evidence_hash = e,
                                     !.legs = Stripped(receipt.legs)]
      BY <2>3 DEF Rewrite, Edited
    <3>2. \A l \in Legs : /\ [receipt.legs[l] EXCEPT !.sig = Missing] \in Leg
                          /\ [receipt.legs[l] EXCEPT !.sig = Missing].sig = Missing
      BY <1>2 DEF Leg
    <3>3. QED BY <1>2, <3>1, <3>2 DEF ReceiptType, Stripped
  <2>4. ASSUME NEW l \in Legs, NEW leg \in Leg, receipt' = [receipt EXCEPT !.legs[l] = leg],
               leg.sig \in {receipt.legs[l].sig, Missing, Damaged} \/ Foreign(leg.sig)
        PROVE  Good(receipt')
    BY <1>2, <2>4, LegEdit
  <2>5. ASSUME NEW l \in Legs, DropSig(l) \/ DamageSig(l)
        PROVE  Good(receipt')
    <3>1. PICK x \in {Missing, Damaged} : receipt' = [receipt EXCEPT !.legs[l].sig = x]
      BY <2>5 DEF DropSig, DamageSig, Edited
    <3>2. /\ receipt' = [receipt EXCEPT !.legs[l] = [receipt.legs[l] EXCEPT !.sig = x]]
          /\ [receipt.legs[l] EXCEPT !.sig = x] \in Leg
          /\ [receipt.legs[l] EXCEPT !.sig = x].sig = x
      BY <1>2, <3>1 DEF Leg
    <3>3. QED BY <2>4, <3>1, <3>2
  <2>6. ASSUME NEW l \in Legs, DropPub(l) \/ \E k \in {0, OtherKey} : ReplacePub(l, k)
        PROVE  Good(receipt')
    <3>1. PICK k \in {0, OtherKey, Missing} : receipt' = [receipt EXCEPT !.legs[l].pub = k]
      BY <2>6 DEF DropPub, ReplacePub, Edited
    <3>2. /\ receipt' = [receipt EXCEPT !.legs[l] = [receipt.legs[l] EXCEPT !.pub = k]]
          /\ [receipt.legs[l] EXCEPT !.pub = k] \in Leg
          /\ [receipt.legs[l] EXCEPT !.pub = k].sig = receipt.legs[l].sig
      BY <1>2, <3>1 DEF Leg
    <3>3. QED BY <2>4, <3>2
  <2>7. ASSUME NEW l \in Legs, NEW text \in {"spaced", "broken"}, Reflow(l, text)
        PROVE  Good(receipt')
    <3>1. receipt' = [receipt EXCEPT !.legs[l] = [receipt.legs[l] EXCEPT !.text = text]]
      BY <2>7 DEF Reflow, Edited
    <3>2. /\ [receipt.legs[l] EXCEPT !.text = text] \in Leg
          /\ [receipt.legs[l] EXCEPT !.text = text].sig = receipt.legs[l].sig
      BY <1>2 DEF Leg
    <3>3. QED BY <2>4, <3>1, <3>2
  <2>8. ASSUME NEW l \in Legs, NEW body \in Bodies, Resign(l, body)
        PROVE  Good(receipt')
    <3>1. receipt' = [receipt EXCEPT !.legs[l] = SignedLeg(StandaloneAlg(l), OtherKey, body)]
      BY <2>8 DEF Resign, Edited
    <3>2. StandaloneAlg(l) \in Algs
      BY DEF StandaloneAlg, Legs, PqLegs, Algs, Mechanisms
    <3>3. QED BY <2>4, <3>1, <3>2, SignedLegType DEF Foreign
  <2>9. QED
    <3>1. Body(receipt) \in Bodies /\ StandaloneBody(receipt) \in Bodies
      BY <1>2, BodyTypes
    <3>2. QED BY <2>1, <2>2, <2>3, <2>5, <2>6, <2>7, <2>8, <3>1 DEF Edit
<1>6. ReceiptInv'
  BY <1>2, <1>3, <1>5 DEF ReceiptInv, KnownSig
<1>7. FreshInv'
  BY <1>1 DEF IInv, FreshInv, Edited
<1>8. QED BY <1>4, <1>6, <1>7 DEF IInv

\* A step of a mint before its end leaves the receipt alone.
LEMMA ReceiptUnchanged ==
  ASSUME OriginalInv, ReceiptInv, FreshInv, UNCHANGED <<receipt, original, edits>>
  PROVE  OriginalInv' /\ ReceiptInv' /\ FreshInv'
<1>1. OriginalInv'
  BY DEF OriginalInv, MintedLeg
<1>2. ReceiptInv'
  BY DEF ReceiptInv, KnownSig
<1>3. FreshInv'
  BY DEF FreshInv
<1>4. QED BY <1>1, <1>2, <1>3

\* Every step of a mint.
LEMMA MintStep ==
  ASSUME IInv, NEW w \in Minters, Mint(w)
  PROVE  IInv'
<1> USE DEF IInv
<1> USE ReceiptAssumption
<1>1. ASSUME NEW h \in Hosts, NEW e \in Evidences, NEW d \in Decisions, Begin(w, h, e, d)
      PROVE  IInv'
  <2>1. MinterInv'
    BY <1>1 DEF Begin, MinterInv, At, Goto
  <2>2. QED BY <1>1, <2>1, ReceiptUnchanged DEF Begin
<1>2. CASE KeyExists(w)
  <2>1. MinterInv'
    BY <1>2 DEF KeyExists, MinterInv, At, Goto
  <2>2. QED BY <1>2, <2>1, ReceiptUnchanged DEF KeyExists
<1>3. CASE ReadKey(w)
  <2>1. MinterInv'
    BY <1>3 DEF ReadKey, Return, MinterInv, At, Goto
  <2>2. QED BY <1>3, <2>1, ReceiptUnchanged DEF ReadKey
<1>4. CASE GenerateKey(w)
  <2>1. MinterInv'
    BY <1>4 DEF GenerateKey, MinterInv, At, Goto
  <2>2. QED BY <1>4, <2>1, ReceiptUnchanged DEF GenerateKey
<1>5. CASE WriteKey(w)
  <2>1. MinterInv'
    BY <1>5 DEF WriteKey, MinterInv, At, Goto
  <2>2. QED BY <1>5, <2>1, ReceiptUnchanged DEF WriteKey
<1>6. CASE Assemble(w)
  <2>1. MinterInv'
    BY <1>6 DEF Assemble, Return, MinterInv, At, Goto
  <2>2. PICK h \in Hosts, e \in Evidences, d \in Decisions : env[w] = <<h, e, d>>
    BY <1>6 DEF Assemble, MinterInv, At
  <2>3. h.cryptography => sk[w] \in Nat
    BY <1>6, <2>2 DEF Assemble, MinterInv, At
  <2>4. receipt' = mint(h, e, d, sk[w]) /\ original' = mint(h, e, d, sk[w])
    BY <1>6, <2>2 DEF Assemble
  <2>5. /\ mint(h, e, d, sk[w]) \in ReceiptType
        /\ mint(h, e, d, sk[w]).evidence = e
        /\ mint(h, e, d, sk[w]).decision = d
        /\ mint(h, e, d, sk[w]).evidence_hash = e
        /\ \A l \in Legs : MintedLeg(mint(h, e, d, sk[w]), l)
    BY <2>3, MintType DEF MinterInv
  <2>6. OriginalInv'
    <3>1. \A l \in Legs : MintedLeg(original, l)'
      BY <2>4, <2>5 DEF MintedLeg
    <3>2. QED BY <2>4, <2>5, <3>1 DEF OriginalInv
  <2>7. receipt' # NoReceipt
    BY <2>4, <2>5, ReceiptValuesAssumption
  <2>8. ReceiptInv'
    BY <2>4, <2>5, <2>7 DEF ReceiptInv, KnownSig
  <2>9. FreshInv'
    BY <1>6 DEF Assemble, FreshInv
  <2>10. QED BY <2>1, <2>6, <2>8, <2>9
<1>7. CASE Abandon(w)
  <2>1. MinterInv'
    BY <1>7 DEF Abandon, Return, MinterInv, At, Goto
  <2>2. QED BY <1>7, <2>1, ReceiptUnchanged DEF Abandon
<1>8. QED BY <1>1, <1>2, <1>3, <1>4, <1>5, <1>6, <1>7 DEF Mint

\* The invariant is inductive.
THEOREM Invariance == Spec => []IInv
<1>1. ASSUME IInv, [Next]_vars
      PROVE  IInv'
  <2>1. CASE UNCHANGED vars
    <3>1. MinterInv'
      BY <1>1, <2>1 DEF IInv, MinterInv, vars, minting, At
    <3>2. QED BY <1>1, <2>1, <3>1, ReceiptUnchanged DEF IInv, vars
  <2>2. CASE Next
    BY <1>1, <2>2, EditReceipt, MintStep DEF Next
  <2>3. QED BY <1>1, <2>1, <2>2
<1>2. QED BY InitInv, <1>1, PTL DEF Spec

-----------------------------------------------------------------------------
(* Key pairs and mints.                                                    *)

\* The mints that may still generate a key pair.
Undecided == {w \in Minters : pc[w] \in {"exists", "generate"}}

\* A mint generates at most one key pair.
CountInv ==
  /\ IsFiniteSet(Undecided)
  /\ fresh \in Nat /\ mints \in 0..MaxMints /\ edits \in 0..MaxEdits
  /\ fresh + Cardinality(Undecided) <= mints

\* A minter that goes on either is among the undecided afterwards or is not.
LEMMA UndecidedStep ==
  ASSUME MinterInv, NEW w \in Minters, NEW there, Goto(w, there)
  PROVE  Undecided' = IF there \in {"exists", "generate"}
                      THEN Undecided \cup {w} ELSE Undecided \ {w}
BY DEF MinterInv, Goto, Undecided

\* Every step keeps the count: a mint adds one undecided minter when it begins,
\* and a generated key pair takes one away.
LEMMA CountStep ==
  ASSUME MinterInv, CountInv, Next
  PROVE  CountInv'
<1> DEFINE n == Cardinality(Undecided)
<1>1. /\ IsFiniteSet(Undecided) /\ n \in Nat /\ fresh \in Nat /\ mints \in Nat
      /\ edits \in Nat /\ MaxMints \in Nat /\ MaxEdits \in Nat
      /\ mints <= MaxMints /\ edits <= MaxEdits /\ fresh + n <= mints
  BY ReceiptAssumption, FS_CardinalityType DEF CountInv
<1>2. ASSUME NEW w \in Minters, NEW h \in Hosts, NEW e \in Evidences, NEW d \in Decisions,
             Begin(w, h, e, d)
      PROVE  CountInv'
  <2>1. /\ Undecided' = Undecided \cup {w} \/ Undecided' = Undecided \ {w}
        /\ UNCHANGED <<fresh, edits>> /\ mints' = mints + 1 /\ mints < MaxMints
    BY <1>2, UndecidedStep DEF Begin
  <2>2. /\ IsFiniteSet(Undecided') /\ Cardinality(Undecided') \in {n - 1, n, n + 1}
    BY <1>1, <2>1, FS_AddElement, FS_RemoveElement
  <2>3. fresh + Cardinality(Undecided') <= mints + 1
    BY <1>1, <2>2
  <2>4. mints + 1 \in 0..MaxMints
    BY <1>1, <2>1
  <2>5. QED BY <2>1, <2>2, <2>3, <2>4 DEF CountInv
<1>3. ASSUME NEW w \in Minters,
             KeyExists(w) \/ ReadKey(w) \/ WriteKey(w) \/ Assemble(w) \/ Abandon(w)
      PROVE  CountInv'
  <2>1. UNCHANGED <<fresh, mints, edits>>
    BY <1>3 DEF KeyExists, ReadKey, WriteKey, Assemble, Abandon
  <2>2. Undecided' \subseteq Undecided
    <3>1. CASE KeyExists(w)
      <4>1. w \in Undecided
        BY <3>1 DEF KeyExists, At, Undecided
      <4>2. QED BY <3>1, <4>1, UndecidedStep DEF KeyExists
    <3>2. CASE ReadKey(w)
      BY <3>2, UndecidedStep DEF ReadKey, Return
    <3>3. CASE WriteKey(w)
      BY <3>3, UndecidedStep DEF WriteKey
    <3>4. CASE Assemble(w)
      BY <3>4, UndecidedStep DEF Assemble, Return
    <3>5. CASE Abandon(w)
      BY <3>5, UndecidedStep DEF Abandon, Return
    <3>6. QED BY <1>3, <3>1, <3>2, <3>3, <3>4, <3>5
  <2>3. IsFiniteSet(Undecided') /\ Cardinality(Undecided') <= n
    BY <1>1, <2>2, FS_Subset
  <2>4. fresh + Cardinality(Undecided') <= mints
    BY <1>1, <2>3, FS_CardinalityType
  <2>5. QED BY <2>1, <2>3, <2>4 DEF CountInv
<1>4. ASSUME NEW w \in Minters, GenerateKey(w)
      PROVE  CountInv'
  <2>1. fresh' = fresh + 1 /\ UNCHANGED <<mints, edits>> /\ w \in Undecided
    BY <1>4 DEF GenerateKey, At, Undecided
  <2>2. Undecided' = Undecided \ {w}
    BY <1>4, UndecidedStep DEF GenerateKey
  <2>3. IsFiniteSet(Undecided') /\ Cardinality(Undecided') = n - 1
    BY <1>1, <2>1, <2>2, FS_RemoveElement
  <2>4. fresh + 1 \in Nat /\ fresh + 1 + Cardinality(Undecided') <= mints
    BY <1>1, <2>3
  <2>5. QED BY <2>1, <2>3, <2>4 DEF CountInv
<1>5. ASSUME NEW r, Edited(r)
      PROVE  CountInv'
  <2>1. /\ UNCHANGED <<pc, fresh, mints>> /\ edits' = edits + 1 /\ edits < MaxEdits
    BY <1>5 DEF Edited, minting
  <2>2. Undecided' = Undecided
    BY <2>1 DEF Undecided
  <2>3. edits + 1 \in 0..MaxEdits
    BY <1>1, <2>1
  <2>4. QED BY <2>1, <2>2, <2>3 DEF CountInv
<1>6. CASE \E w \in Minters : Mint(w)
  BY <1>2, <1>3, <1>4, <1>6 DEF Mint
<1>7. CASE Edit
  <2>1. PICK r : Edited(r)
    BY <1>7 DEF Edit, EditEvidence, EditHash, EditDecision, DropSig, DropPub,
           DamageSig, ReplacePub, Reflow, Rewrite, Resign
  <2>2. QED BY <1>5, <2>1
<1>8. QED BY <1>6, <1>7 DEF Next

\* A mint generates at most one key pair, whatever the interleaving of the mints
\* on one key file.
THEOREM OneKeyPerMint == Spec => []CountInv
<1>1. Init => CountInv
  <2> SUFFICES ASSUME Init PROVE CountInv
    OBVIOUS
  <2>1. Undecided = {}
    BY DEF Init, Undecided
  <2>2. IsFiniteSet(Undecided) /\ Cardinality(Undecided) = 0
    BY <2>1, FS_EmptySet
  <2>3. fresh = 0 /\ mints = 0 /\ edits = 0 /\ MaxMints \in Nat /\ MaxEdits \in Nat
    BY ReceiptAssumption DEF Init
  <2>4. QED BY <2>2, <2>3 DEF CountInv
<1>2. ASSUME MinterInv, CountInv, UNCHANGED vars
      PROVE  CountInv'
  BY <1>2 DEF vars, minting, CountInv, Undecided
<1>3. IInv => MinterInv
  BY DEF IInv
<1>4. MinterInv /\ CountInv /\ [Next]_vars => CountInv'
  BY <1>2, CountStep
<1>5. QED BY Invariance, <1>1, <1>3, <1>4, PTL DEF Spec

\* Every variable of the key file, the mints and the receipt keeps its type; the
\* number of key pairs is bounded by the number of mints.
THEOREM TypeCorrect == Spec => []TypeOK
<1>1. IInv /\ CountInv => TypeOK
  <2> SUFFICES ASSUME IInv, CountInv PROVE TypeOK
    OBVIOUS
  <2>1. fresh \in 0..MaxMints
    BY FS_CardinalityType, ReceiptAssumption DEF CountInv
  <2>2. QED BY <2>1 DEF IInv, MinterInv, OriginalInv, ReceiptInv, CountInv, TypeOK
<1>2. QED BY Invariance, OneKeyPerMint, <1>1, PTL

-----------------------------------------------------------------------------
(* What a verdict is worth.                                                *)

\* A valid leg of the receipt file under a key that is not somebody else's is the
\* leg that was minted, and the body it covers is the minted one.
LEMMA ValidIsMinted ==
  ASSUME IInv, receipt # NoReceipt, NEW l \in Legs, NEW alg, NEW body,
         Valid(receipt, l, alg, body), receipt.legs[l].pub # OtherKey
  PROVE  /\ Minted(l)
         /\ original.legs[l].sig # Missing
         /\ original.legs[l].sig.key = original.legs[l].pub
         /\ original.legs[l].sig.body = <<original.evidence, original.decision>>
         /\ Body(original) = <<original.evidence, original.decision>>
         /\ body = Body(original)
<1>1. receipt.legs[l].sig = original.legs[l].sig /\ original.legs[l].sig # Missing
  <2>1. receipt.legs[l].sig.key = receipt.legs[l].pub
    BY DEF Valid
  <2>2. QED BY <2>1 DEF IInv, ReceiptInv, KnownSig, Foreign, Valid
<1>2. original # NoReceipt /\ MintedLeg(original, l)
  BY DEF IInv, ReceiptInv, OriginalInv
<1>3. PICK a, key : original.legs[l] = SignedLeg(a, key, <<original.evidence, original.decision>>)
  BY <1>1, <1>2 DEF MintedLeg, NoLeg
<1>4. receipt.legs[l].sig = [alg |-> alg, key |-> receipt.legs[l].pub, body |-> body]
  BY DEF Valid
<1>5. /\ original.legs[l].pub = key
      /\ original.legs[l].sig = [alg |-> a, key |-> key,
                                body |-> <<original.evidence, original.decision>>]
  BY <1>3 DEF SignedLeg
<1>6. receipt.legs[l].pub = key /\ body = <<original.evidence, original.decision>>
  <2>1. receipt.legs[l].sig.key = receipt.legs[l].pub /\ receipt.legs[l].sig.body = body
    BY <1>4
  <2>2. /\ original.legs[l].sig.key = key
        /\ original.legs[l].sig.body = <<original.evidence, original.decision>>
    BY <1>5
  <2>3. QED BY <1>1, <2>1, <2>2
<1>7. original.evidence_hash = original.evidence
  BY <1>2 DEF IInv, OriginalInv
<1>8. QED BY <1>1, <1>5, <1>6, <1>7 DEF Body, Minted

\* The same for what each of the verifiers takes for the body: the content of the
\* receipt file is the minted one.
LEMMA ValidIsContent ==
  ASSUME IInv, receipt # NoReceipt, hash_ok(receipt), NEW l \in Legs, NEW alg,
         receipt.legs[l].pub # OtherKey,
         \/ Valid(receipt, l, alg, Body(receipt))
         \/ Valid(receipt, l, alg, StandaloneBody(receipt))
  PROVE  SameContent
<1>1. Body(original) = <<original.evidence, original.decision>> /\ original.decision \in Decisions
      /\ (Body(receipt) = Body(original) \/ StandaloneBody(receipt) = Body(original))
  <2>1. original # NoReceipt /\ original.decision \in Decisions
    BY DEF IInv, ReceiptInv, OriginalInv
  <2>2. QED BY <2>1, ValidIsMinted
<1>2. receipt.evidence_hash = original.evidence /\ receipt.decision = original.decision
  BY <1>1, ReceiptAssumption DEF Body, StandaloneBody
<1>3. QED BY <1>1, <1>2 DEF SameContent, hash_ok, Body

\* The library's verdict that rests on a signature.
LEMMA LibraryPass ==
  ASSUME NEW r, NEW h, check_full(r, h)
  PROVE  /\ hash_ok(r)
         /\ \E l \in Legs : LibraryLeg(r, l, h) = "ok"
         /\ \A l \in Legs : LibraryLeg(r, l, h) # "fail"
BY DEF check_full, verify_receipt, Some

\* The standalone verifier's.
LEMMA StandalonePass ==
  ASSUME NEW r, NEW h, integrity_ok(r, h)
  PROVE  /\ hash_ok(r)
         /\ \E l \in Legs : StandaloneLeg(r, l, h) = "ok"
         /\ \A l \in Legs : StandaloneLeg(r, l, h) \notin {"fail", "raises"}
BY DEF integrity_ok, StandaloneLegs, Some

\* For every host, whatever edits were made and whoever signed again: the legs a
\* passing verdict rests on are minted or somebody else's, and one minted leg, or
\* the default verdict, vouches for the minted content.
THEOREM Unaltered == Spec => []PassMeansUnaltered
<1> DEFINE library(h) == {l \in Legs : LibraryLeg(receipt, l, h) \notin {"absent", "unverifiable"}}
           standalone(h) == {l \in Present(receipt) : StandaloneBackend(h, l)}
           Vouched(checked) ==
             /\ \A l \in checked : Minted(l) \/ Resigned(l)
             /\ (\E l \in checked : ~Resigned(l)) => SameContent
<1>1. ASSUME IInv, receipt # NoReceipt, hash_ok(receipt), NEW checked \in SUBSET Legs,
             \A l \in checked : \E alg : \/ Valid(receipt, l, alg, Body(receipt))
                                         \/ Valid(receipt, l, alg, StandaloneBody(receipt))
      PROVE  Vouched(checked)
  <2>1. ASSUME NEW l \in checked, ~Resigned(l)
        PROVE  Minted(l) /\ SameContent
    <3>1. PICK alg : \/ Valid(receipt, l, alg, Body(receipt))
                     \/ Valid(receipt, l, alg, StandaloneBody(receipt))
      BY <1>1
    <3>2. l \in Legs /\ receipt.legs[l].pub # OtherKey
      BY <2>1 DEF Resigned
    <3>3. SameContent
      BY <1>1, <3>1, <3>2, ValidIsContent
    <3>4. Minted(l)
      BY <1>1, <3>1, <3>2, ValidIsMinted
    <3>5. QED BY <3>3, <3>4
  <2>2. QED BY <2>1
<1>2. ASSUME IInv, receipt # NoReceipt, NEW h \in Hosts, check_full(receipt, h)
      PROVE  Vouched(library(h))
  <2>1. hash_ok(receipt) /\ \A l \in Legs : LibraryLeg(receipt, l, h) # "fail"
    BY <1>2, LibraryPass
  <2>2. ASSUME NEW l \in library(h)
        PROVE  Valid(receipt, l, LibraryAlg(h, l), Body(receipt))
    BY <2>1, <2>2 DEF LibraryLeg
  <2>3. QED BY <1>1, <1>2, <2>1, <2>2
<1>3. ASSUME IInv, receipt # NoReceipt, NEW h \in Hosts, integrity_ok(receipt, h)
      PROVE  Vouched(standalone(h))
  <2>1. hash_ok(receipt) /\ \A l \in Legs : StandaloneLeg(receipt, l, h) \notin {"fail", "raises"}
    BY <1>3, StandalonePass
  <2>2. ASSUME NEW l \in standalone(h)
        PROVE  l \in Legs /\ Valid(receipt, l, StandaloneAlg(l), StandaloneBody(receipt))
    BY <2>1, <2>2 DEF StandaloneLeg, Present
  <2>3. QED BY <1>1, <1>3, <2>1, <2>2
<1>4. ASSUME IInv, receipt # NoReceipt, NEW h \in Hosts, verified(receipt, h)
      PROVE  SameContent
  <2>1. PICK l \in Legs : StandaloneLeg(receipt, l, h) = "ok" /\ receipt.legs[l].pub = 0
    BY <1>4 DEF verified, trusted_legs
  <2>2. Valid(receipt, l, StandaloneAlg(l), StandaloneBody(receipt)) /\ hash_ok(receipt)
    BY <1>4, <2>1, StandalonePass DEF verified, StandaloneLeg
  <2>3. receipt.legs[l].pub # OtherKey
    BY <2>1, ReceiptAssumption
  <2>4. QED BY <1>4, <2>2, <2>3, ValidIsContent
<1>5. IInv => PassMeansUnaltered
  BY <1>2, <1>3, <1>4 DEF PassMeansUnaltered
<1>6. QED BY Invariance, <1>5, PTL

\* For every host: credit for the published issuer's key goes to a receipt one
\* of whose legs was minted with it, over what the receipt says now.
THEOREM Provenance == Spec => []ProvenanceIsEarned
<1>1. ASSUME IInv, receipt # NoReceipt, NEW h \in Hosts, verified(receipt, h)
      PROVE  \E l \in Legs :
               /\ original.legs[l].sig # Missing /\ original.legs[l].sig.key = 0
               /\ original.legs[l].sig.body = <<receipt.evidence, receipt.decision>>
  <2>1. hash_ok(receipt)
    BY <1>1, StandalonePass DEF verified
  <2>2. PICK l \in Legs : StandaloneLeg(receipt, l, h) = "ok" /\ receipt.legs[l].pub = 0
    BY <1>1 DEF verified, trusted_legs
  <2>3. Valid(receipt, l, StandaloneAlg(l), StandaloneBody(receipt))
        /\ receipt.legs[l].pub # OtherKey
    BY <2>2, ReceiptAssumption DEF StandaloneLeg
  <2>4. SameContent
    BY <1>1, <2>1, <2>3, ValidIsContent
  <2>5. /\ original.legs[l].sig # Missing
        /\ original.legs[l].sig.key = original.legs[l].pub /\ Minted(l)
        /\ original.legs[l].sig.body = Body(original)
    BY <1>1, <2>3, ValidIsMinted
  <2>6. Body(original) = <<receipt.evidence, receipt.decision>>
    BY <2>1, <2>4 DEF SameContent, Body, hash_ok
  <2>7. QED BY <2>2, <2>5, <2>6 DEF Minted
<1>2. IInv => ProvenanceIsEarned
  BY <1>1 DEF ProvenanceIsEarned
<1>3. QED BY Invariance, <1>2, PTL

-----------------------------------------------------------------------------
(* Hosts whose liboqs build has both mechanisms, or where no oqs imports.  *)

FullLiboqs ==
  \A h \in Hosts : h.oqs \in {NoOqs, BrokenOqs} \/ {"ML-DSA-65", "SLH-DSA"} \subseteq h.oqs

\* On such hosts the library and the standalone verifier ask for the same
\* algorithm, and the standalone one finds it whenever oqs is there.
LEMMA SameAlg ==
  ASSUME FullLiboqs, NEW h \in Hosts, NEW l \in Legs
  PROVE  /\ LibraryAlg(h, l) \in {StandaloneAlg(l), NoAlg}
         /\ StandaloneBackend(h, l) => /\ LibraryAlg(h, l) = StandaloneAlg(l)
                                       /\ StandaloneHas(h, l)
                                       /\ ~ImportRaises(h, l)
         /\ (h.dilithium_py => StandaloneBackend(h, "ml_dsa")) /\ ~StandaloneBackend(h, l) =>
              LibraryAlg(h, l) = NoAlg
<1>1. /\ h \in Host
      /\ h.oqs \in {NoOqs, BrokenOqs} \/ {"ML-DSA-65", "SLH-DSA"} \subseteq h.oqs
  BY ReceiptAssumption DEF FullLiboqs
<1>2. CASE l = "ed25519"
  BY <1>1, <1>2 DEF Host, LibraryAlg, StandaloneAlg, StandaloneBackend, StandaloneHas,
     ImportRaises
<1>3. CASE l \in PqLegs /\ h.oqs \in {NoOqs, BrokenOqs}
  <2>1. h.oqs \cap {"ML-DSA-65", "Dilithium3"} = {} /\ "ML-DSA-65" \notin h.oqs
        /\ "Dilithium3" \notin h.oqs
    BY <1>3 DEF NoOqs, BrokenOqs
  <2>2. QED
    BY <1>3, <2>1 DEF PqLegs, LibraryAlg, ml_dsa_alg, LiboqsBackend, StandaloneAlg,
       StandaloneBackend, NoAlg
<1>4. CASE l \in PqLegs /\ {"ML-DSA-65", "SLH-DSA"} \subseteq h.oqs
  <2>1. h.oqs \cap {"ML-DSA-65", "Dilithium3"} # {} /\ h.oqs \notin {NoOqs, BrokenOqs}
        /\ "ML-DSA-65" \in h.oqs /\ "SLH-DSA" \in h.oqs
    BY <1>4 DEF NoOqs, BrokenOqs
  <2>2. QED
    BY <1>4, <2>1 DEF PqLegs, LibraryAlg, ml_dsa_alg, LiboqsBackend, StandaloneAlg,
       StandaloneBackend, StandaloneHas, ImportRaises, NoAlg
<1>5. QED BY <1>1, <1>2, <1>3, <1>4 DEF Legs

\* With full liboqs builds, a receipt nobody touched verifies wherever one of
\* its legs can be checked and no answer of a verifier calls it tampered; where
\* importing oqs raises more than ImportError, its post-quantum legs get no answer
\* from the standalone verifier, and this says nothing of them.
THEOREM FreshVerifies == ASSUME FullLiboqs PROVE Spec => []FreshReceiptVerifies
<1>1. ASSUME IInv, Unedited, NEW h \in Hosts, NEW l \in Present(receipt)
      PROVE  /\ LibraryLeg(receipt, l, h) =
                   IF LibraryAlg(h, l) # NoAlg THEN "ok" ELSE "unverifiable"
             /\ ~ImportRaises(h, l) => StandaloneLeg(receipt, l, h) =
                   IF StandaloneBackend(h, l) THEN "ok" ELSE "unverifiable"
  <2>1. l \in Legs /\ receipt.legs[l].sig # Missing
    BY <1>1 DEF Present
  <2>2. receipt # NoReceipt /\ receipt = original
    BY <1>1 DEF Unedited, IInv, FreshInv
  <2>3. /\ MintedLeg(receipt, l) /\ receipt.evidence_hash = receipt.evidence
        /\ receipt.evidence \in Evidences /\ receipt.decision \in Decisions
    BY <1>1, <2>1, <2>2 DEF IInv, OriginalInv
  <2>4. PICK alg, key :
          /\ SomeAlg(l, alg) /\ key \in Nat
          /\ receipt.legs[l] = SignedLeg(alg, key, <<receipt.evidence, receipt.decision>>)
    BY <2>1, <2>3 DEF MintedLeg, NoLeg
  <2>5. alg = StandaloneAlg(l)
    <3>1. NoAlg \notin Algs
      BY DEF NoAlg, Algs, Mechanisms
    <3>2. QED BY <2>1, <2>4, <3>1, SameAlg DEF SomeAlg
  <2>6. /\ receipt.legs[l].sig = [alg |-> alg, key |-> key, body |-> Body(receipt)]
        /\ receipt.legs[l].pub = key /\ receipt.legs[l].text = "clean"
    BY <2>3, <2>4 DEF SignedLeg, Body
  <2>7. receipt.legs[l].pub # Missing
    BY <2>4, <2>6, ReceiptAssumption
  <2>8. receipt.legs[l].sig # Damaged
    <3>1. alg \in Algs /\ <<receipt.evidence, receipt.decision>> \in Bodies
      BY <2>3, <2>4 DEF SomeAlg, Bodies
    <3>2. receipt.legs[l].sig \in Signature
      BY <2>4, <3>1, SignedLegType
    <3>3. QED BY <3>2, ReceiptValuesAssumption
  <2>9. StandaloneBody(receipt) = Body(receipt)
    BY <2>3, ReceiptAssumption DEF StandaloneBody, Body
  <2>10. Valid(receipt, l, StandaloneAlg(l), Body(receipt))
    BY <2>1, <2>5, <2>6, <2>8 DEF Valid
  <2>11. LibraryLeg(receipt, l, h) =
           IF LibraryAlg(h, l) # NoAlg THEN "ok" ELSE "unverifiable"
    BY <2>1, <2>6, <2>7, <2>10, SameAlg DEF LibraryLeg
  <2>12. ~ImportRaises(h, l) => StandaloneLeg(receipt, l, h) =
           IF StandaloneBackend(h, l) THEN "ok" ELSE "unverifiable"
    BY <2>1, <2>6, <2>7, <2>9, <2>10, SameAlg DEF StandaloneLeg
  <2>13. QED BY <2>11, <2>12
<1>2. IInv => FreshReceiptVerifies
  BY <1>1 DEF FreshReceiptVerifies
<1>3. QED BY Invariance, <1>2, PTL

\* A leg the standalone verifier does not call tampered has its key, and is
\* written in clean base64 if this host decodes it.
LEMMA NotFailedWellFormed ==
  ASSUME NEW r, NEW h, \A l \in Legs : StandaloneLeg(r, l, h) # "fail"
  PROVE  WellFormed(r, h)
<1>1. ASSUME NEW l \in Present(r)
      PROVE  /\ r.legs[l].pub # Missing
             /\ r.legs[l].text = "clean" \/ (l = "ed25519" /\ ~h.cryptography)
  <2>1. l \in Legs /\ r.legs[l].sig # Missing /\ StandaloneLeg(r, l, h) # "fail"
    BY DEF Present
  <2>2. QED BY <2>1 DEF StandaloneLeg, StandaloneBackend, ImportRaises
<1>2. QED BY <1>1 DEF WellFormed

\* On a well-formed receipt with a decision the two verifiers agree leg by leg,
\* where the standalone one answers.
LEMMA LegsAgree ==
  ASSUME FullLiboqs, NEW h \in Hosts, h.dilithium_py => StandaloneBackend(h, "ml_dsa"),
         NEW r, r.decision # Missing, WellFormed(r, h), NEW l \in Legs,
         StandaloneLeg(r, l, h) # "raises"
  PROVE  StandaloneLeg(r, l, h) = LibraryLeg(r, l, h)
<1> Body(r) = StandaloneBody(r)
  BY DEF Body, StandaloneBody
<1>1. CASE r.legs[l].sig = Missing
  BY <1>1 DEF StandaloneLeg, LibraryLeg
<1>2. CASE r.legs[l].sig # Missing /\ StandaloneBackend(h, l)
  <2>1. /\ r.legs[l].pub # Missing /\ r.legs[l].text = "clean"
    BY <1>2 DEF WellFormed, Present, StandaloneBackend
  <2>2. LibraryAlg(h, l) = StandaloneAlg(l) /\ StandaloneHas(h, l) /\ ~ImportRaises(h, l)
    BY <1>2, SameAlg
  <2>3. StandaloneAlg(l) # NoAlg
    BY DEF StandaloneAlg, NoAlg, Legs, PqLegs
  <2>4. QED BY <1>2, <2>1, <2>2, <2>3 DEF StandaloneLeg, LibraryLeg
<1>3. CASE r.legs[l].sig # Missing /\ ~StandaloneBackend(h, l)
  <2>1. /\ r.legs[l].pub # Missing
        /\ r.legs[l].text = "clean" \/ l = "ed25519"
    BY <1>3 DEF WellFormed, Present
  <2>2. LibraryAlg(h, l) = NoAlg
    BY <1>3, SameAlg
  <2>3. ~ImportRaises(h, l)
    BY <1>3, <2>1 DEF StandaloneLeg, ImportRaises
  <2>4. QED BY <1>3, <2>1, <2>2, <2>3 DEF StandaloneLeg, LibraryLeg
<1>4. QED BY <1>1, <1>2, <1>3

\* With full liboqs builds the two implementations give every receipt file the
\* same verdict, up to the standalone verifier's strictness, wherever the latter
\* gives one and the receipt has its decision field.
THEOREM Agreement == ASSUME FullLiboqs PROVE Spec => []VerifiersAgree
<1>1. ASSUME NEW r, NEW h \in Hosts, h.dilithium_py => StandaloneBackend(h, "ml_dsa"),
             r.decision # Missing, ~Some(StandaloneLegs(r, h), "raises"), WellFormed(r, h)
      PROVE  integrity_ok(r, h) <=> check_full(r, h)
  <2>1. \A l \in Legs : StandaloneLeg(r, l, h) # "raises"
    BY <1>1 DEF Some, StandaloneLegs
  <2>2. \A l \in Legs : StandaloneLeg(r, l, h) = LibraryLeg(r, l, h)
    BY <1>1, <2>1, LegsAgree
  <2> DEFINE Sound == /\ hash_ok(r)
                      /\ \A l \in Legs : LibraryLeg(r, l, h) # "fail"
                      /\ \E l \in Legs : LibraryLeg(r, l, h) = "ok"
  <2>3. integrity_ok(r, h) <=> Sound
    BY <2>1, <2>2 DEF integrity_ok, StandaloneLegs, Some
  <2>4. check_full(r, h) <=> Sound
    BY DEF check_full, verify_receipt, Some
  <2>5. QED BY <2>3, <2>4
<1>2. ASSUME NEW r, NEW h \in Hosts, integrity_ok(r, h)
      PROVE  WellFormed(r, h)
  BY <1>2, StandalonePass, NotFailedWellFormed
<1>3. VerifiersAgree
  BY <1>1, <1>2 DEF VerifiersAgree
<1>4. QED BY <1>3, PTL
=============================================================================
