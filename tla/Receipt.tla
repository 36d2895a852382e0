------------------------------ MODULE Receipt ------------------------------
(***************************************************************************)
(* A governance receipt from the mint to the two verifiers: mint_receipt   *)
(* and _load_key of openagentontology/receipt.py, what may happen to the   *)
(* JSON file afterwards, and the verdicts of receipt.verify_receipt and of *)
(* the standalone verify_receipt.py on every host.                         *)
(*                                                                         *)
(* A hash is the value it was taken of.  A key pair is a number and a      *)
(* signature names its algorithm, its key and the body it covers; 0 is the *)
(* published issuer's key, and OtherKey one that somebody else holds.  The *)
(* post-quantum pairs are the ones module PqKeys shows one process to      *)
(* keep: whole, or with an empty secret half.                              *)
(***************************************************************************)
EXTENDS Naturals, FiniteSets

CONSTANTS
  Minters,     \* threads or processes that mint with one key file
  Hosts,       \* the installations on which receipts are minted and verified
  Evidences,   \* ontology documents with their summary
  Decisions,   \* verdict strings in the body
  MaxMints,    \* bound: mints begun in a behaviour
  MaxEdits,    \* bound: edits of the receipt file after its mint
  Absent,      \* content of a key file that does not exist
  Empty,       \* content of a key file opened for writing and not yet written
  Missing,     \* a receipt field that is not there
  Damaged,     \* signature bytes that are no signature of anything
  OtherKey,    \* a key pair none of the minters holds
  Blank,       \* the empty string, as a decision
  NoReceipt,
  Idle         \* input of a minter that is not minting

Mechanisms == {"ML-DSA-65", "Dilithium3", "SLH-DSA"}
NoOqs     == {"import oqs raises ImportError"}
BrokenOqs == {"import oqs raises SystemExit, OSError or RuntimeError"}
NoAlg == "none"

\* cryptography and dilithium_py: importable; oqs: the mechanisms it enables, or
\* how its import fails.
Host == [cryptography : BOOLEAN, dilithium_py : BOOLEAN,
         oqs : (SUBSET Mechanisms) \cup {NoOqs, BrokenOqs}]

ASSUME ReceiptAssumption ==
  /\ Hosts \subseteq Host
  /\ MaxMints \in Nat /\ MaxEdits \in Nat
  /\ Idle \notin Hosts \X Evidences \X Decisions
  /\ Absent \notin Nat /\ Empty \notin Nat /\ Absent # Empty
  /\ Missing \notin Nat \cup Evidences \cup Decisions \cup {OtherKey, Blank}
  /\ OtherKey \notin Nat /\ Blank \notin Decisions

Algs   == {"Ed25519"} \cup Mechanisms
PqLegs == {"ml_dsa", "slh_dsa"}
Legs   == {"ed25519"} \cup PqLegs

Bodies == (Evidences \cup {Missing}) \X (Decisions \cup {Missing, Blank})
Signature == [alg : Algs, key : Nat \cup {OtherKey}, body : Bodies]

\* Of a leg's two base64 strings: "spaced" has characters outside the base64
\* alphabet that a permissive decoder skips, "broken" cannot be decoded.
Leg == [sig : Signature \cup {Missing, Damaged}, pub : Nat \cup {Missing, OtherKey},
        text : {"clean", "spaced", "broken"}]

ReceiptType ==
  [evidence : Evidences \cup {Missing}, evidence_hash : Evidences \cup {Missing},
   decision : Decisions \cup {Missing}, legs : [Legs -> Leg],
   signed : BOOLEAN, signature_alg : SUBSET Legs]

ASSUME ReceiptValuesAssumption ==
  /\ Missing \notin Signature /\ Damaged \notin Signature /\ Missing # Damaged
  /\ NoReceipt \notin ReceiptType

VARIABLES
  keyFile,   \* content of the Ed25519 key file
  fresh,     \* Ed25519 key pairs generated so far
  pqKeys,    \* the post-quantum pair of each leg, Empty when its secret half is
  pc, sk,    \* per minter: where it is, and its local sk of _load_key
  env,       \* per minter: the host, the evidence and the decision of its mint
  mints,
  receipt,   \* the receipt file as it is now
  original,  \* history: the receipt as it was minted
  edits      \* how often it was edited since
minting == <<keyFile, fresh, pc, sk, env, mints>>
vars == <<minting, pqKeys, receipt, original, edits>>

Goto(w, there) == pc' = [pc EXCEPT ![w] = there]
\* mint_receipt returns or raises; its local variables are gone.
Return(w) == /\ Goto(w, "idle")
             /\ sk' = [sk EXCEPT ![w] = Absent]
             /\ env' = [env EXCEPT ![w] = Idle]
At(w, here) == pc[w] = here

-----------------------------------------------------------------------------
(* Which algorithm a host has for a leg.                                   *)

\* pqsign.py resolves its backend at import: liboqs with the newer or the older
\* name of the lattice scheme, else dilithium_py, else none.
LiboqsBackend(h) == h.oqs \cap {"ML-DSA-65", "Dilithium3"} # {}
ml_dsa_alg(h) ==
  CASE "ML-DSA-65" \in h.oqs -> "ML-DSA-65"
    [] "ML-DSA-65" \notin h.oqs /\ "Dilithium3" \in h.oqs -> "Dilithium3"
    [] ~LiboqsBackend(h) /\ h.dilithium_py -> "ML-DSA-65"
    [] OTHER -> NoAlg

LibraryAlg(h, l) ==
  CASE l = "ed25519" -> IF h.cryptography THEN "Ed25519" ELSE NoAlg
    [] l = "ml_dsa"  -> ml_dsa_alg(h)
    [] l = "slh_dsa" -> IF LiboqsBackend(h) /\ "SLH-DSA" \in h.oqs
                        THEN "SLH-DSA" ELSE NoAlg

\* The standalone verifier asks oqs for one fixed name per leg, and takes no
\* exception of its import but ImportError.
StandaloneAlg(l) ==
  CASE l = "ed25519" -> "Ed25519" [] l = "ml_dsa" -> "ML-DSA-65" [] l = "slh_dsa" -> "SLH-DSA"
StandaloneBackend(h, l) ==
  IF l = "ed25519" THEN h.cryptography ELSE h.oqs \notin {NoOqs, BrokenOqs}
ImportRaises(h, l) == l # "ed25519" /\ h.oqs = BrokenOqs
StandaloneHas(h, l) == l = "ed25519" \/ StandaloneAlg(l) \in h.oqs
-----------------------------------------------------------------------------
(* mint_receipt.                                                           *)

NoLeg == [sig |-> Missing, pub |-> Missing, text |-> "clean"]
SignedLeg(alg, key, body) ==
  [sig |-> [alg |-> alg, key |-> key, body |-> body], pub |-> key, text |-> "clean"]

\* sign_ml_dsa and sign_slh_dsa; "" for the leg when its secret key is empty.
PqLeg(h, l, body) ==
  IF LibraryAlg(h, l) # NoAlg /\ pqKeys[l] # Empty
  THEN SignedLeg(LibraryAlg(h, l), pqKeys[l], body) ELSE NoLeg

\* The legs named by pqsign.signature_alg, for a receipt Ed25519 signed.
signature_alg(h) == {"ed25519"} \cup {l \in PqLegs : LibraryAlg(h, l) # NoAlg}

mint(h, evidence, decision, key) ==
  LET body == <<evidence, decision>> IN
  [evidence |-> evidence, evidence_hash |-> evidence, decision |-> decision,
   legs |-> [l \in Legs |-> IF l # "ed25519" THEN PqLeg(h, l, body)
                            ELSE IF h.cryptography THEN SignedLeg("Ed25519", key, body)
                            ELSE NoLeg],
   signed |-> h.cryptography,
   signature_alg |-> IF h.cryptography THEN signature_alg(h) ELSE {}]

Init ==
  /\ keyFile \in {Absent, Empty, 0}
  /\ fresh = 0
  /\ pqKeys \in [PqLegs -> {0, 1, Empty}]
  /\ pc = [w \in Minters |-> "idle"]
  /\ sk = [w \in Minters |-> Absent]
  /\ env = [w \in Minters |-> Idle]
  /\ mints = 0
  /\ receipt = NoReceipt /\ original = NoReceipt
  /\ edits = 0

\* Without cryptography _load_key returns no key.
Begin(w, h, evidence, decision) ==
  /\ At(w, "idle")
  /\ mints < MaxMints
  /\ mints' = mints + 1
  /\ env' = [env EXCEPT ![w] = <<h, evidence, decision>>]
  /\ Goto(w, IF h.cryptography THEN "exists" ELSE "assemble")
  /\ UNCHANGED <<keyFile, fresh, sk, pqKeys, receipt, original, edits>>

KeyExists(w) ==
  /\ At(w, "exists")
  /\ Goto(w, IF keyFile # Absent THEN "read" ELSE "generate")
  /\ UNCHANGED <<keyFile, fresh, sk, env, mints, pqKeys, receipt, original, edits>>

\* Seeded fault: an empty key file is not noticed.
ReadKey_unchecked(w) ==
  /\ At(w, "read")
  /\ sk' = [sk EXCEPT ![w] = keyFile]
  /\ Goto(w, "assemble")
  /\ UNCHANGED <<keyFile, fresh, env, mints, pqKeys, receipt, original, edits>>

\* load_pem_private_key raises on an empty file and the mint is abandoned.
ReadKey(w) ==
  /\ At(w, "read")
  /\ IF keyFile = Empty
       THEN Return(w)
       ELSE /\ Goto(w, "assemble")
            /\ sk' = [sk EXCEPT ![w] = keyFile]
            /\ UNCHANGED env
  /\ UNCHANGED <<keyFile, fresh, mints, pqKeys, receipt, original, edits>>

\* generate(), and the truncation that starts write_bytes.
GenerateKey(w) ==
  /\ At(w, "generate")
  /\ fresh' = fresh + 1
  /\ sk' = [sk EXCEPT ![w] = fresh + 1]
  /\ keyFile' = Empty
  /\ Goto(w, "write")
  /\ UNCHANGED <<env, mints, pqKeys, receipt, original, edits>>

WriteKey(w) ==
  /\ At(w, "write")
  /\ keyFile' = sk[w]
  /\ Goto(w, "assemble")
  /\ UNCHANGED <<fresh, sk, env, mints, pqKeys, receipt, original, edits>>

\* Seeded fault: the public key is taken from the key file, not from sk.
Assemble_pub_from_file(w) ==
  /\ At(w, "assemble")
  /\ LET r == mint(env[w][1], env[w][2], env[w][3], sk[w])
         read == IF r.signed /\ keyFile \in Nat
                 THEN [r EXCEPT !.legs["ed25519"].pub = keyFile] ELSE r
     IN  receipt' = read /\ original' = read
  /\ Return(w)
  /\ UNCHANGED <<keyFile, fresh, mints, pqKeys, edits>>

\* The legs are signed and the receipt is handed over.
Assemble(w) ==
  /\ At(w, "assemble")
  /\ receipt' = mint(env[w][1], env[w][2], env[w][3], sk[w])
  /\ original' = receipt'
  /\ Return(w)
  /\ UNCHANGED <<keyFile, fresh, mints, pqKeys, edits>>

\* The minter dies, or a step of the mint raises; the key file stays as it is.
Abandon(w) ==
  /\ ~At(w, "idle")
  /\ Return(w)
  /\ UNCHANGED <<keyFile, fresh, mints, pqKeys, receipt, original, edits>>

-----------------------------------------------------------------------------
(* What may happen to the receipt file before somebody verifies it.        *)

Edited(r) ==
  /\ receipt # NoReceipt
  /\ mints = MaxMints /\ \A w \in Minters : At(w, "idle")
  /\ edits < MaxEdits
  /\ r # receipt
  /\ receipt' = r
  /\ edits' = edits + 1
  /\ UNCHANGED <<minting, pqKeys, original>>

\* The bytes the library and the standalone verifier take a receipt's body for:
\* the fields it has, and every field with "" for one it lacks.
Body(r) == <<r.evidence_hash, r.decision>>
StandaloneBody(r) ==
  <<r.evidence_hash, IF r.decision = Missing THEN Blank ELSE r.decision>>

EditEvidence(e) == Edited([receipt EXCEPT !.evidence = e])
EditHash(e)     == Edited([receipt EXCEPT !.evidence_hash = e])
EditDecision(d) == Edited([receipt EXCEPT !.decision = d])
DropSig(l)      == Edited([receipt EXCEPT !.legs[l].sig = Missing])
DropPub(l)      == Edited([receipt EXCEPT !.legs[l].pub = Missing])
DamageSig(l)    == /\ receipt # NoReceipt
                   /\ receipt.legs[l].sig # Missing
                   /\ Edited([receipt EXCEPT !.legs[l].sig = Damaged])
ReplacePub(l, k) == Edited([receipt EXCEPT !.legs[l].pub = k])
Reflow(l, text) == Edited([receipt EXCEPT !.legs[l].text = text])

\* What the comment on _PINNED_KEYS tells of: the evidence replaced, its hash
\* recomputed and the signatures stripped, with the published keys left in their
\* fields; then the body signed with a key of one's own.
Stripped(legs)  == [l \in Legs |-> [legs[l] EXCEPT !.sig = Missing]]
Rewrite(e)      == Edited([receipt EXCEPT !.evidence = e, !.evidence_hash = e,
                                          !.legs = Stripped(receipt.legs)])
Resign(l, body) == Edited([receipt EXCEPT
                             !.legs[l] = SignedLeg(StandaloneAlg(l), OtherKey, body)])

Edit ==
  \/ \E e \in Evidences \cup {Missing} : EditEvidence(e) \/ EditHash(e)
  \/ \E e \in Evidences : Rewrite(e)
  \/ \E d \in Decisions \cup {Missing} : EditDecision(d)
  \/ \E l \in Legs :
       \/ DropSig(l) \/ DropPub(l) \/ DamageSig(l)
       \/ \E k \in {0, OtherKey} : ReplacePub(l, k)
       \/ Resign(l, Body(receipt)) \/ Resign(l, StandaloneBody(receipt))
       \/ \E text \in {"spaced", "broken"} : Reflow(l, text)

Mint(w) ==
  \/ \E h \in Hosts, e \in Evidences, d \in Decisions : Begin(w, h, e, d)
  \/ KeyExists(w) \/ ReadKey(w) \/ GenerateKey(w) \/ WriteKey(w)
  \/ Assemble(w) \/ Abandon(w)

Next == (\E w \in Minters : Mint(w)) \/ Edit

Spec == Init /\ [][Next]_vars

-----------------------------------------------------------------------------
(* The two verifiers.                                                      *)

hash_ok(r) == r.evidence # Missing /\ r.evidence_hash = r.evidence

\* The signature was made with algorithm alg by the embedded key over the body.
Valid(r, l, alg, body) ==
  /\ r.legs[l].sig \notin {Missing, Damaged}
  /\ r.legs[l].sig = [alg |-> alg, key |-> r.legs[l].pub, body |-> body]

\* receipt.py, _leg: a permissive decoder, a leg without a key is no leg.
LibraryLeg(r, l, h) ==
  LET leg == r.legs[l]  alg == LibraryAlg(h, l) IN
  IF leg.sig = Missing \/ leg.pub = Missing THEN "absent"
  ELSE IF alg = NoAlg THEN "unverifiable"
  ELSE IF leg.text # "broken" /\ Valid(r, l, alg, Body(r)) THEN "ok" ELSE "fail"

Some(legs, status) == \E l \in Legs : legs[l] = status

\* receipt.py, verify_receipt.
verify_receipt(r, h) ==
  LET legs   == [l \in Legs |-> LibraryLeg(r, l, h)]
      signed == \E l \in Legs : legs[l] # "absent"
  IN  [legs   |-> legs,
       signed |-> hash_ok(r) /\ signed,
       sig_ok |-> hash_ok(r) /\ Some(legs, "ok"),
       ok     |-> /\ hash_ok(r)
                  /\ (~signed) \/ (~Some(legs, "fail") /\ Some(legs, "ok"))]

\* scripts/verify_receipts.py, check_full.
check_full(r, h) == LET v == verify_receipt(r, h) IN v.ok /\ v.sig_ok

\* verify_receipt.py, check_ed25519 and _check_pq: a strict decoder, and a
\* signature without a key fails; "raises" is an exception that leaves verify.
StandaloneLeg(r, l, h) ==
  LET leg == r.legs[l]  undecodable == leg.text # "clean" IN
  IF leg.sig = Missing THEN "absent"
  ELSE IF leg.pub = Missing \/ (l # "ed25519" /\ undecodable) THEN "fail"
  ELSE IF ImportRaises(h, l) THEN "raises"
  ELSE IF ~StandaloneBackend(h, l) THEN "unverifiable"
  ELSE IF /\ ~undecodable /\ StandaloneHas(h, l)
          /\ Valid(r, l, StandaloneAlg(l), StandaloneBody(r))
  THEN "ok" ELSE "fail"

StandaloneLegs(r, h) == [l \in Legs |-> StandaloneLeg(r, l, h)]

\* Seeded fault: a hash match is enough for a receipt without signatures.
integrity_ok_unsigned(r, h) ==
  LET legs == StandaloneLegs(r, h) IN
  /\ ~Some(legs, "raises")
  /\ hash_ok(r) /\ ~Some(legs, "fail")
  /\ Some(legs, "ok") \/ \A l \in Legs : legs[l] = "absent"

\* Seeded fault: one verified leg outweighs a broken one.
integrity_ok_any_leg(r, h) ==
  LET legs == StandaloneLegs(r, h) IN
  ~Some(legs, "raises") /\ hash_ok(r) /\ Some(legs, "ok")

\* verify_receipt.py, verify: the verdict with --any-issuer, if verify gives one.
integrity_ok(r, h) ==
  LET legs == StandaloneLegs(r, h) IN
  /\ ~Some(legs, "raises")
  /\ hash_ok(r) /\ ~Some(legs, "fail") /\ Some(legs, "ok")

\* Seeded fault: a published key in the receipt is credited unchecked.
trusted_legs_unchecked(r, h) == {l \in Legs : r.legs[l].pub = 0}

\* A leg that verified under the key pinned for its algorithm.
trusted_legs(r, h) ==
  {l \in Legs : StandaloneLeg(r, l, h) = "ok" /\ r.legs[l].pub = 0}

\* The default verdict, which requires a known issuer.
verified(r, h) == integrity_ok(r, h) /\ trusted_legs(r, h) # {}

-----------------------------------------------------------------------------
(* Properties.                                                             *)

\* Every variable keeps its type.
TypeOK ==
  /\ keyFile \in Nat \cup {Absent, Empty}
  /\ fresh \in 0..MaxMints /\ mints \in 0..MaxMints /\ edits \in 0..MaxEdits
  /\ pqKeys \in [PqLegs -> {0, 1, Empty}]
  /\ pc \in [Minters -> {"idle", "exists", "read", "generate", "write", "assemble"}]
  /\ sk \in [Minters -> Nat \cup {Absent}]
  /\ env \in [Minters -> (Hosts \X Evidences \X Decisions) \cup {Idle}]
  /\ receipt \in ReceiptType \cup {NoReceipt}
  /\ original \in ReceiptType \cup {NoReceipt}

Unedited == receipt # NoReceipt /\ edits = 0
Present(r) == {l \in Legs : r.legs[l].sig # Missing}

\* A receipt nobody touched is never called tampered, whatever race on the key
\* file its mint went through, and passes both verifiers on every host that
\* has a backend for one of its legs ("every present leg verifies on a host
\* that has the backend").  Only where importing oqs raises more than the
\* standalone verifier catches, its post-quantum legs get no answer from it.
FreshReceiptVerifies ==
  Unedited => \A h \in Hosts : \A l \in Present(receipt) :
    /\ LibraryLeg(receipt, l, h) = IF LibraryAlg(h, l) # NoAlg THEN "ok" ELSE "unverifiable"
    /\ ~ImportRaises(h, l) =>
         StandaloneLeg(receipt, l, h) = IF StandaloneBackend(h, l) THEN "ok" ELSE "unverifiable"

Minted(l) == /\ receipt.legs[l].sig = original.legs[l].sig
             /\ receipt.legs[l].pub = original.legs[l].pub
Resigned(l) == receipt.legs[l].pub = OtherKey
SameContent == /\ receipt.evidence = original.evidence
               /\ Body(receipt) = Body(original)

\* What a passing verdict vouches for, when somebody may have signed with a key
\* of their own: each leg the verifier checked is the minted one or theirs; as
\* soon as one is the minted one, evidence and body are the minted ones, and the
\* rest can only be a second signature on the same content.  The default verdict
\* of the standalone verifier is such a one, with --any-issuer it need not be.
PassMeansUnaltered ==
  receipt # NoReceipt => \A h \in Hosts :
    LET library    == {l \in Legs : LibraryLeg(receipt, l, h) \notin {"absent", "unverifiable"}}
        standalone == {l \in Present(receipt) : StandaloneBackend(h, l)}
        Vouched(checked) ==
          /\ \A l \in checked : Minted(l) \/ Resigned(l)
          /\ (\E l \in checked : ~Resigned(l)) => SameContent
    IN  /\ check_full(receipt, h) => Vouched(library)
        /\ integrity_ok(receipt, h) => Vouched(standalone)
        /\ verified(receipt, h) => SameContent

\* Without cryptography the Ed25519 strings are not decoded at all.
WellFormed(r, h) ==
  \A l \in Present(r) :
    /\ r.legs[l].pub # Missing
    /\ r.legs[l].text = "clean" \/ (l = "ed25519" /\ ~h.cryptography)

\* The two implementations agree: with the same backends they give a receipt
\* that rests on a signature the same verdict, except that the standalone one
\* is stricter about a leg without its key and about stray characters.  Left
\* out are the hosts where it dies on an import, and receipts without a decision
\* field, whose body the two take for different bytes.
VerifiersAgree ==
  receipt # NoReceipt /\ receipt.decision # Missing => \A h \in Hosts :
    (h.dilithium_py => StandaloneBackend(h, "ml_dsa"))
    /\ ~Some(StandaloneLegs(receipt, h), "raises") =>
      (integrity_ok(receipt, h) <=> check_full(receipt, h) /\ WellFormed(receipt, h))

\* The published issuer is credited only with a receipt one of whose legs was
\* minted with the issuer's key, over the evidence and the body it has now.
ProvenanceIsEarned ==
  receipt # NoReceipt => \A h \in Hosts : verified(receipt, h) =>
    \E l \in Legs :
      /\ original.legs[l].sig # Missing /\ original.legs[l].sig.key = 0
      /\ original.legs[l].sig.body = <<receipt.evidence, receipt.decision>>

\* What the docstring of verify_receipt.py says of a missing backend (line 60): its
\* leg is reported "unverifiable".  The code says so after an ImportError only: an
\* oqs without the leg's mechanism is reported as tampering, and one without its
\* C library leaves the verifier without a verdict.
MissingBackendIsUnverifiable ==
  Unedited => \A h \in Hosts : \A l \in Present(receipt) :
    StandaloneLeg(receipt, l, h) \in {"ok", "unverifiable"}
=============================================================================
