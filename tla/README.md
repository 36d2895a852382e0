# A TLA+ model of OpenAgentOntology

This directory specifies the core of OpenAgentOntology, checks it with TLC on small
instances, and proves its main invariants with TLAPS for every value of the constants.
It goes from the files of an agent to the published registry: the scan, the keys and
receipts, the onboarding and the merge gate around it, and the artifact directories.
The program reads the source of an AI agent, derives an ontology of its governed actions,
maps each action to security controls, scores the result and signs it as a receipt. The
model follows the Python code under `src/`, not its documents; where the two disagree a
run shows it (see *Findings*).

    tlc -config MCPqKeys_threads.cfg MCPqKeys.tla      # one run
    tlapm ReceiptProofs.tla                            # the proofs of one module

## 1. Inventory: what the system is made of

| Component | Source | State it keeps | Operations | Talks to |
|---|---|---|---|---|
| ingest | `openagentontology/ingest.py` | one flat record per file, one aggregate | six adapters, `_add`, `_merge_record`, `_extract_dir` | files in, facts to the generator |
| crosswalk | `crosswalk.py` | none (constant tables) | `map_action`, `_downgrade` | called per action by the generator |
| generator | `generate.py` | none | `generate` | facts in, `OntologyDoc` out |
| validator | `validate.py` | none | `validate` | document in, findings out; takes the asserted pairs from the crosswalk's table |
| trust profile | `trust_profile.py` | none | `score`, `_tier_for` | document in, score and tier out |
| pipeline | `pipeline.py` | none | `run_pipeline` | calls the five above, then receipt |
| post-quantum key store | `pqsign.py` | key files of a base path; per process two caches and two locks | `sign_*`, `verify_*`, `_load_*`, `clear_key_cache` | threads and processes through files and locks |
| receipt | `receipt.py` | the Ed25519 key file; the receipt | `mint_receipt`, `_load_key`, `verify_receipt` | uses the key store; its file travels to the verifiers |
| standalone verifier | `verify_receipt.py`, `scripts/verify_receipts.py` | pinned keys | `verify`, `check_full` | reads receipt files; written separately from `receipt.py` |
| AgentFDE | `fde.py` | files in `.cwn-fde` and, with `--apply`, in the target | `onboard`, `triage`, `_remediated_doc` | runs the pipeline, writes what a later scan reads |
| pull-request gate | `ci/pr_check.py`, the workflow | two scans, base and head | `evaluate` | reads the `--json` payload of two scans |
| CLI artifacts | `cli.py`, `sarif.py` | four files in an output directory | `main`, `_write_artifacts`, `_json_payload` | read by the gate, the registry and people |
| registry scans | `docs/registry/scan_top50.py`, `_gen_registry.py` | one directory and one clone per repository | `scan_one` with timeouts, the skip rule, `collect` | runs git and the CLI, reads what it wrote |
| the rest | `risk_profile.py`, `badge.py`, `mcp_server.py`, `graph_client.py`, generators | none | pure or read-only | read the document |

### What is hard, and what makes each part correct

* **Key store.** Threads race on a cache that is read without a lock, processes race on
  files with no lock at all, a write is a truncation and then the bytes, and a process may
  die between any two of these. Correct means: the two halves of a pair never mix, nothing
  is signed by a key that is not on disk, no leg disappears without a fault, the cache
  agrees with the disk, and every call returns.
* **Ingest, crosswalk, generator, validator.** Facts about one action come from several
  files in directory order; items and reasons are merged by different rules; a Task may
  mirror a Capability. Correct means: no control is called *asserted* unless a file named
  its reason for that very action, no action disappears, a later file only adds, and the
  validator accepts what the generator makes.
* **Trust profile.** Three rounded ratios with different denominators and a rounded
  weighted sum. Correct means: a tier is earned by coverage, naming a reason never lowers
  the score, and leaving an action unnamed or hiding an asserted one never raises it.
* **Receipt and its verifiers.** Two mints may race on one key file; minting and verifying
  hosts have different backends, some of which fail to import; the file may be damaged, edited
  or signed again with another key on its way; two verifiers written separately judge it.
  Correct means: an untouched receipt verifies, a verdict vouches for the minted content as
  soon as one checked leg is a minted one, the issuer is credited only with what it signed,
  and the two verifiers agree.
* **AgentFDE.** The tier it projects comes from no scan, its output lies in the tree the
  next scan reads, and it may fail at any write. Correct means: the projection is what the
  next scan finds wherever the declaration can stand for the actions, what it declares
  reads asserted from then on, no generated file takes the asserted reading away from
  an action people named themselves, and the next scan ends.
* **Pull-request gate.** It compares two payloads, either of which may be missing. Correct
  means: no chain of merges brings in an ungoverned high-risk action, and none that always
  had its base lowers the tier.
* **CLI artifacts and registry.** Files are written one by one over older ones; the driver
  kills git and scans that hang, may be stopped itself, and takes a directory with a profile
  for finished; the page generator reads while all this goes on. Correct means: a receipt
  vouches for the files beside it, no row of the page mixes two scans, every row is signed, a
  clone cut short is never scanned, what is published is never replaced, and a hang does not stop the run.

`PROJECT.json` lists every hazard with its line and the properties that cover it.

## 2. The modules

    Crosswalk  TrustScore        KeyStore
        \      /     \               | (INSTANCE)
          Scan      TrustEdits     PqKeys       Receipt       Registry
        /  |  \
    Fde  PrGate  Ontology
       \   |
       Adoption

Each state machine `M` has an instance for TLC, `MCM`, and its theorems in `MProofs`
(`TrustEdits` is its own instance). `TrustScore`, `Crosswalk` and `Scan` have operators
only. The lemmas about the score and the table are in `ScoreProofs`, those about records
and documents in `ScanProofs`:

    ScoreProofs
      |      \
    ScanProofs  TrustEditsProofs     PqKeysProofs   ReceiptProofs   RegistryProofs
      |      \
    OntologyProofs  AdoptionProofs

### PqKeys: `pqsign.py`

| Model | Code |
|---|---|
| `pkFile`, `skFile` | `{base}.mldsa.pk/.sk` and `{base}.slhdsa.pk/.sk`; `Absent`, `Empty` (truncated) or a key |
| `cache[p]` | `_ml_keys`, `_slh_keys` of process `p` |
| `keyLock[p]`, `mlLock[p]` | `_key_lock`, `_ml_lock` |
| `pc`, `leg`, `pk`, `sk` | where a thread is, and its local variables |
| `results` | every `(signature, public key)` returned so far |
| `SignCall` ... `SignReturns` | `sign_ml_dsa` / `sign_slh_dsa` through `_load_*`, one action per read, write, lock or unlock |
| `Keygen`/`WritePk`, `OpenSk`/`WriteSk` | the two `write_bytes` calls: truncation, then the bytes |
| `LoadRaises`, `Crash` | an exception leaves the `with` block; a process dies and its locks, threads and cache go |

A key pair is a number and both halves carry it, so a signature verifies exactly when
`pk = sk`. `Serialized` names the legs whose calls take `_ml_lock`: those of `dilithium_py`,
none with liboqs. For these `SignersExclude` says that signing and verifying take turns. `keygen` runs
under `_key_lock` only and may overlap a verify; `OnlyVerifyMeetsKeygen` says that this is
all it can meet of its leg.

`KeyStore` is what callers may rely on: a leg gets one pair, in one step and for good, and
a signature is made with it or not at all. `ImplementsKeyStore` says that the threads of one
process implement it, under the mapping that a leg has a pair once its secret-key file is
complete and that a result counts when it has both parts.

### Crosswalk, TrustScore, Scan, Ontology: from files to the score

`Crosswalk` holds the canonical table, the heuristic verbs and `map_action`; a label is
represented by the first heuristic row it matches. `TrustScore` holds the arithmetic of
`score` with Python's round-half-even. `Scan` holds what is computed from flat records:
`_add`, `_merge_record`, `generate`, `validate`, `ProfileOf`. `Ontology` is the state machine
of one scan:

| Model | Code |
|---|---|
| `kind`, `rec`, `agg` | the kind and the flat record of the file being read, and the aggregate in `_extract_dir` |
| `_from_rego` ... `_from_python` | what one declaration of a file of that kind can give: a set of items with their reasons |
| `Declare(k, ms)` | the adapter of kind `k` reads its next declaration and calls `_add` for its items |
| `RegoPackage` | a policy without keys and allow rules is one gate, named for its package |
| `EndFile` | `_merge_record` of the file into the aggregate |
| `RunPipeline` | `generate`, `validate`, `score`, in the order of `run_pipeline` |
| `doc`, `ok`, `profile` | the document, the verdict, the score with its tier |
| `mentions`, `merged` | history: what the adapters emitted, what each record brought to a merge |

Which declarations a file holds is open: any slug, any label. What an adapter makes of one is
not: a route is a Task, and with a write method a Capability of the same label too; a test is
a Capability and an acceptance line a gate; a deny key is its own reason; only the adapters
that search a text or read a `reason` field may find one that the label is not. Three things
are wider than the code: a slug is not tied to its label; Task ids, which three adapters prefix
differently (`act_`, `op_`, `fn_`), may meet; and a speckit's acceptance lines may share a
slug. An item of two files may meet another in every way the code allows and in a few more.
`TrustEdits` uses the same table and
arithmetic for edits of a source between two scans; an ontology is there the number of its
asserted actions by framework set, of heuristic and of ungoverned ones, which is all
`score` reads. The framework sets are those of the table's reasons; `Covered` adds up the
four there are (`TableSets` in `TrustEditsProofs` shows there is no other).

### Fde, PrGate, Adoption: `fde.py`, `ci/pr_check.py`

`Fde` has what AgentFDE computes: `triage`, `_remediated_doc`, and the two generated files
*as the scan reads them back*. A declared capability is named after the slug of its `name:`,
which is the label written without quotes (`ReadBack`): YAML gives back the same text, a text
cut at a comment, or nothing (`null`, `no`, `0`), where the id stands for it. A syntax error
leaves the whole file unread (`Malformed`), and a mapping, a list, a number, `true` or a date
ends the scan, because `_ascii` raises on what is no text (`NotText`, `Raises`). PyYAML is
installed, as `pyproject.toml` asks. The policy is a gate per reason and one for its `allow` rule. `PrGate` has the verdict over the
fields of two payloads. `Adoption` composes them with the scan:

| Model | Code |
|---|---|
| `own` | the flat record of what people wrote; `AddItem`, `RemoveItem`, `Discard` edit the tree |
| `outDecl`, `outRego`, `rootDecl` | `.cwn-fde/governance.agent.yaml`, `.cwn-fde/governance.rego`, and the copy `--apply` puts beside the agent |
| `outRaises`, `rootRaises` | a scan that reads that declaration raises |
| `ownAt`, `Scanned` | the sorted walk of `_extract_dir`: people's files are one chunk of it, before `.cwn-fde` (`.agents`, `.claude`), between it and the copy, or after both |
| `Onboard` | `onboard` up to the report: scan, triage, projection; `inside` is the default output directory |
| `WriteDecl` ... `Apply` | its writes, one by one; between them people do not edit |
| `Fail` | a write raises or the process dies; the open file may be left truncated, which reads as nothing |
| `main`, `InstallGate`, `Merge` | the payload of the branch pull requests go to; a merge passed `evaluate`, with a base scan or without |
| `origin`, `compared`, `report.valid`, `report.first` | history |

### Registry: `cli.py`, `scan_top50.py`, `_gen_registry.py`

| Model | Code |
|---|---|
| `disk[r][a]` | a file under `docs/scans/<slug>`: `None`, `Broken`, or the number of the scan it is from |
| `scan[p]` | a running `main`: its directory, what it has left to write, whether the first of it is open |
| `Start`, `OpenFile`, `WriteFile`, `End` | the pipeline; `write_text`, as a truncation and the bytes; the end, by itself or by a kill |
| `StartByHand` | someone scans into the same directory, with a receipt or with `--no-receipt` |
| `StartRun` ... `WriteMeta` | `main` and `scan_one` of the driver; `clone[r]` is the clone, whole, cut or gone |
| `CloneTimeout`, `ScanTimeout`, `Interrupt` | `subprocess.run` kills its child at the timeout; Ctrl-C at any point |
| `reading`, `OpenDirectory`, `ReadNext`, `AppendRow` | `collect`, one `_load` per step |
| `byHand`, `overlapped` | history |

Two writers of one file may leave a mix, which is `Broken`. Neither git nor a scan has to end
by itself.

### Receipt: `receipt.py`, `verify_receipt.py`

| Model | Code |
|---|---|
| `keyFile`, `Begin` ... `WriteKey` | `_load_key`: `exists`, read or generate, truncate, write, with no lock |
| `Assemble`, `mint` | the rest of `mint_receipt`: body, the three legs, `signed`, `signature_alg` |
| `Abandon` | the minter dies or a step raises |
| `Host` | what can be imported: `cryptography`, `dilithium_py`, and the mechanisms liboqs enables, or how `import oqs` fails: with `ImportError` (`NoOqs`) or with something else (`BrokenOqs`) |
| `LibraryAlg` | the backend `pqsign.py` resolves at import |
| `EditEvidence` ... `Reflow` | what happens to the file later: a changed, lost, damaged or re-wrapped field |
| `Rewrite`, `Resign` | the forgery the comment on `_PINNED_KEYS` records: new evidence with its hash and no signatures, then a leg signed with `OtherKey`; the published keys stay in their fields |
| `Body`, `StandaloneBody` | the bytes each verifier checks a signature against; without a `decision` they differ |
| `verify_receipt`, `check_full` | the library verifier, and its use on the published receipts |
| `StandaloneLeg`, `integrity_ok`, `trusted_legs`, `verified` | the standalone verifier, with `--any-issuer` and by default; "raises" is an exception that leaves it |

A hash is the value hashed; a signature names its algorithm, key and body. The
post-quantum pairs are constant in a behaviour and either whole or with an empty secret
half: this is what `PqKeys` proves of one process (`PairsMatch`), so `Receipt` does not
repeat the key store.

### Seeded faults

Operators named after a definition with a suffix (`ReadKey_unchecked`,
`integrity_ok_any_leg`, `LockAndRecheck_unlocked`, ...) are plausible bugs in the code that
definition models; several are faults its comments say it once had. No specification uses
them. Put in place of the original, each makes TLC violate the property it is paired with
in `PROJECT.json`: every property can fail.

## 3. The runs

| Run | Instance | Distinct states | Shows |
|---|---|---|---|
| `pq_threads` | 3 threads, 1 process, `dilithium_py`, 2 faults, 1 cache clear, key files present or not | 277,647 | `PairOnDisk`, `EveryLegVerifies`, `SignedByPersistedKey`, `NoLegDropped`, `CacheAgreesWithDisk`, `PersistedPairStays`, `SignersExclude`, `OnlyVerifyMeetsKeygen`, `ImplementsKeyStore` |
| `pq_liboqs` | 2 threads, 1 process, both legs, 1 fault, fairness | 118,032 | `CallsReturn` |
| `pq_first_run` | 3 processes, empty directory, no faults | violation | two processes mix a pair, a third signs with it |
| `ontology_scan` | 2 names in 4 buckets, 2 labels, 2 reasons, 2 files of 6 kinds, 3 declarations | 538,191 | `AssertedIsSourceNamed`, `NothingHidden`, `NamedReasonReachesDoc`, `ValidatorAccepts`, `LaterFilesOnlyAdd` |
| `ontology_reasons` | the same | violation | a reason named in a later file is lost |
| `trust_edits` | up to 13 governed actions, every edit | 27,132 | `NamingNeverLowers`, `UnnamedNeverRaises`, `HidingAssertedNeverPays`, `TierIsEarned` |
| `receipt_verify` | 2 minters, 2 mints, 8 kinds of host, 2 edits | 149,691 | `FreshReceiptVerifies`, `PassMeansUnaltered`, `VerifiersAgree`, `ProvenanceIsEarned` |
| `receipt_backend` | a full liboqs, one without SLH-DSA, one without its C library | violation | the standalone verifier calls an untouched receipt tampered or dies on it |
| `adoption` | 6 items people may write, 2 edits, 2 onboardings, 2 merges | 424,808 | `ProjectionNeverLowers`, `ProjectionIsReal`, `DeclaredReadsAsserted`, `OwnReasonsStay`, `RiskRatchet`, `TierRatchet` |
| `adoption_raises` | the same | violation | a scan of the onboarded tree raises |
| `registry` | 1 repository, 2 runs of the driver, 1 scan by hand, fairness | 509,861 | `ReceiptSealsSet`, `RowsAreOneScan`, `ScansKeptClones`, `FinishedStays`, `RunEnds` |
| `registry_unsigned` | the same | violation | a row without a receipt is laid out for good |

Each module's type invariant, `TypeOK`, is checked by its passing run (of the two of
`PqKeys`, by `pq_threads`).

**Why the bounds are enough.** Key store: a race needs the thread that publishes, one that
missed the cache before it, and one that uses the result; two faults allow a second one
while the first is being recovered from. The first-run violation needs three processes, two
that interleave their writes and one that reads both halves. Ontology: two files are the
least for a merge, three declarations let one id occur in both files and another collide with
it by label (the mirror rule); of the two labels one starts with a strong verb and the other is
a canonical reason no verb matches, the two reasons have different control sets. Actions under
an ambiguous verb are in `trust_edits` and in the proofs. Names are interchangeable (symmetry).
Trust edits: at 13 actions every tier border is crossed and all roundings of small
fractions occur. Receipt: two mints are the least that race; two edits, the
receipt rewritten and a leg signed again, are the forgery `verify_receipt.py` records, and the
least that damage one field and hide it in another. Minters, evidences and decisions are
interchangeable (symmetry). Edits are taken only when all mints are over, because a mint does
not read the receipt file. Adoption: two edits are
an item and a second one that shares its name, its label or its slug, or its removal; two
onboardings are the least of which one reads the other's output; two merges make a chain.
The items are the cases the code tells apart: the same name in two buckets, a label other
than the name, a label only AgentFDE's own table knows, one YAML takes for a mapping, one for
a syntax error and one it cuts, a gate named with a reason. A gate people leave without one,
and the items' other combinations, are in the proofs. Registry: no action and no property
relates the directories of two repositories, so one is enough; two runs let the second meet what the
first left behind, and one scan by hand overlaps the driver's. The proofs of section 5 do
not depend on any of these numbers.

`CHECK_DEADLOCK FALSE` is set where the system stops: after `RunPipeline`, and when the
bounds of mints, edits, onboardings, merges and runs are used up.

## 4. Fairness

`CallsReturn` and `RunEnds` need it. The `FairSpec` of `PqKeys` asks weak fairness of `Advance(w)` for each thread:
a thread that can run eventually runs, as the interpreter schedules it. No call, fault or
clear is required to happen. Weak fairness is enough for `_key_lock` because once a
pair is cached no call takes the lock again, so with boundedly many faults it cannot be
taken away for ever. It would not be enough for `_ml_lock`, which threads of an endless stream of
calls may keep taking from a waiting one (`threading.Lock` makes no promise of order), so
the property is claimed for liboqs, whose calls take no lock.

The `FairSpec` of `Registry` asks weak fairness of `DriverStep`, the steps the driver takes by
itself: it is one sequential process, and `subprocess.run` raises at the timeout whatever
the child does. `CloneEnds`, `End` and the writes of a scan are not among them: git and scans
may hang for ever, and people may stop neither. `RunEnds` holds because of the timeouts; the
mutant without one violates it.

## 5. What is proved

Every invariant and every action property the passing runs check is also a theorem, for all
values of the constants. An invariant of a run is seldom inductive; each module says what
has to be known besides it, in named conjuncts (`IInv`), and adds what only some theorems
need in a second layer that may use the first (`OnboardInv`, `TallyInv`, `CountInv`,
`SignerInv`).

**Key store** (`PqKeysProofs`). `TypeCorrect` and `SignersTakeTurns` hold for any processes.
The others assume `OneProcess`, that all threads share one process; without it most of
them are false, as `pq_first_run` shows. The invariant says who may be inside the `_key_lock`
section, what the files hold at each point of it (before the secret key is complete the pair on disk is not
yet one; afterwards both halves are the holder's), that a cached pair is the pair on disk,
and that every result carries that pair or an empty half. `EveryLegVerifies` alone is not
inductive: a thread about to return a pair has to be known to hold the persisted one.
`SignersTakeTurns` rests on `SignerInv`: a thread inside a serialized call is the holder of
its process's `_ml_lock`, which a crash empties together with the calls.
`KeygenAlone` follows from the same invariant: whoever generates a pair found no secret key
on disk, and whoever signs holds one that is there.
`Refines` proves that each step is a step of `KeyStore` or leaves its two variables alone:
writing the secret key is `Persist`, returning a signature is `HandOut` (`InitMaps`, `StepMaps`).

**Score** (`ScoreProofs`, `TrustEditsProofs`). For ontologies of any size. Rounding to even is
monotone on fractions although two fractions may round to either side of a middle: roundings
that would cross are neighbours, and one of them is odd (`RoundMonotone`). Hence the score is
monotone in its shares, frameworks and structure (`ScoreMonotone`), and each claim about an
edit is a comparison of cross-multiplied fractions: naming an action moves it from the whole
into the part (`NamingPays`), an unnamed one enlarges the whole (`UnnamedPaysNothing`), and
what leaves the part leaves the whole too (`HidingPaysNothing`). `TierTakesCoverage` turns the
tier bands back into a share of asserted actions, for the three frameworks the table asserts
(`TableFrameworks`, which goes through all its rows); `TierEarned` is its use here and in
`OntologyProofs`, for the documents of scans, which no run repeats.

**Scan** (`ScanProofs`, `OntologyProofs`). For any names, labels, reasons, files and items. The invariant
traces each entry of a record to an item that named it (`TraceInv`), says that only an item
leaves an entry (`EntryInv`), that every emitted item is in a record (`KeptInv`), that a
merged entry was kept or gave way to an earlier one (`MergedInv`), that the records are
finite (`FiniteInv`), that the document is `generate` of the final aggregate (`DocInv`) and the
verdict and the profile are of that document (`VerdictInv`). The lemmas `AddToRecord`,
`AddAllToRecord` and `MergeRecords` carry the first three over `_add` and `_merge_record`, and
`AdaptersDeclare` says of every adapter that its items are of one name and no Task has a
reason; `DocumentValidates` goes through the checks of `validate` for the document of any record.

**Receipt** (`ReceiptProofs`). For any minters, mints, evidences and edits. An edit may lose
or damage a signature, and adds none but those made with `OtherKey`, which no minter has
(`ReceiptInv`); each minted signature covers the minted body under the key minted with it
(`OriginalInv`, which rests on what the minter holds, `MinterInv`). `Unaltered` and
`Provenance` hold for every set of hosts. `Unaltered` does not say that a passing receipt is
the minted one: with `--any-issuer`, and for `check_full`, a receipt somebody else signed
altogether passes. It says what a verdict is worth leg by leg (`ValidIsMinted`,
`ValidIsContent`). `FreshVerifies` and `Agreement` assume `FullLiboqs`: oqs cannot be imported
on a host, for one reason or the other, or has both mechanisms. Without it
`FreshReceiptVerifies` is false, by what `receipt_backend` shows of a liboqs without SLH-DSA.
Where the import raises something other than `ImportError` the standalone verifier may have no
verdict; both properties leave such legs and receipts out, as `VerifiersAgree` does
those without a `decision`.
`TypeCorrect` needs that no mint generates two key pairs: key pairs and mints that may still
generate one are together no more than the mints begun (`CountInv`), in whatever order
the minters find the key file missing.

**Adoption** (`AdoptionProofs`). For any labels, slugs, proposals, files and numbers of edits,
onboardings and merges. `NamedStays` and `DeclaredStays` rest on `TreeInv`: a generated
declaration has an asserted reason at every id it has an item at, a generated policy leaves
no entry without a reason but that of its `allow` gate, people's named items are no Tasks
and none is called `allow`; `ReportInv` keeps what a running onboarding is about to write.
`ReadsAsserted` then carries an entry over the fold of the files, wherever people's are in the
walk (`ScannedFolds`), and over the mirror rule. Both theorems are about the scans that end;
`DeclaredStays` and `ProjectionComesTrue` also show that the scan after the onboarding does
end if YAML gives back the labels that were declared. `ProjectionPays` compares the scanned
and the projected document: the same actions, more of them asserted, no framework less, by `ScoreMonotone`; the projected document
validates. `ProjectionComesTrue` compares the projected document with the one the next scan
generates. They are not equal: a remediated Task comes back as a declared Capability, which
it then mirrors. Renaming the remediated actions is a bijection of the governed ones that keeps
their maps (`GovernedAfter`, `NextScanIsProjected`), and documents that correspond so have the
same profile (`SameProfile`). `ProjectionInv` keeps the projection
that of what people wrote until they edit again. `NoNewRisk` and `TierNeverDrops` need no
invariant of the tree at all: each
passed check is an inclusion and a comparison, and chains are transitive; without a base the
inclusion is into the empty set, which is why `NoNewRisk` needs no `compared`.

**Registry** (`RegistryProofs`). For any roster, any scans by hand, any number of runs, kills
and interrupts. In a directory only the driver scans, the profile is the file that commits
(`Fresh`): while it is missing or broken no receipt and no meta is there, once it is whole the
ontology is of its scan, and the driver's child is past both. From this follow `PublishedStays`
(`ProfileKept`) and, as the generator reads the profile first, `OneScanRows` (`ReadInv`: what
was read goes with the profile that is still on disk). `KeptClones` needs only that a clone
begins in an empty place (`CloneInv`). `ReceiptVouches` is about directories where no two scans
overlap (`SealInv`): a scan destroys the ontology first and makes the receipt last, so a
receipt of the ontology's scan means that scan wrote everything in between. `TypeCorrect`
bounds the scans of a directory by counting (`TallyInv`): a run of the driver starts at most one
scan per repository, and a repository it has still to reach has had one less.

The constants' assumptions (`ConstantsAssumption`, `ScanAssumption`, `FdeAssumption`,
`GateAssumption`, `AdoptionAssumption`, `RegistryAssumption`, `ReceiptAssumption`,
`ReceiptValuesAssumption`, `MaxActionsAssumption`) say that the special values are none of
the ordinary ones, that the bounds are numbers, and what is true of the code's tables: every
oversight word is a high-risk word, every high-risk word is in a strong heuristic row, no
reason's gate is called `allow`. `AdoptionAssumption` also says of people that they name no
gate `allow`, and of the adapters that a Task comes without a reason. TLC evaluates
them in every run.

**Only model-checked.** `CallsReturn` and `RunEnds`: liveness under fairness is beyond the
provers. The runs that expect a violation are TLC's alone too: their counterexamples are
behaviours.

## 6. Findings

1. **Overlapping first runs mix a key pair** (`pq_first_run`, `pqsign.py:143`). The
   exists-check and the two writes are not protected between processes; a later process
   signs with a pair whose halves do not match.
2. **A reason named in a later file is lost** (`ontology_reasons`, `ingest.py:518`). A gate
   first declared without a reason leaves `None`, and `setdefault` keeps it.
3. **The standalone verifier knows one kind of missing backend** (`receipt_backend`,
   `verify_receipt.py:230`). Its docstring says the leg of a missing backend is
   "unverifiable". With an oqs that lacks the mechanism, which `pqsign.py:75` provides for, the
   call raises and an untouched receipt is reported as tampered. With liboqs-python but no C
   library (`pqsign.py:78`) the import raises something other than `ImportError`, which nothing
   catches, and the verifier ends without a verdict on the other legs.
4. **A label can end every later scan** (`adoption_raises`, `fde.py:147`). AgentFDE writes
   labels into YAML without quotes; one that comes back as a mapping, a list or a number makes
   `_ascii` raise, and `ingest_path`, which says it never raises, does.
5. **A row without a receipt** (`registry_unsigned`, `_gen_registry.py:57`). A scan killed
   between its profile and its receipt leaves a directory the driver takes for finished and the
   generator lays out, on a page that says every row is a signed scan.

Differences met while modelling that no run is about; the model has what the code does:

* `SPEC.md:214-215` says advisory references are carried by asserted mappings only, while
  `crosswalk.py:214-215` also keeps them on downgraded ones.
* The comment at `pqsign.py:89` says the calls of the pure-Python backend are serialized;
  `keygen` (line 142) runs under the other lock and may overlap a verify.
  `OnlyVerifyMeetsKeygen` is what holds instead.
* The comment at `receipt.py:188` says `signature_alg` names every leg on the receipt. It names
  the backends of the host, so also a leg whose key file is empty, and none where
  `cryptography` is missing and post-quantum legs are there. No verifier reads the field.
* The standalone verifier's docstring (line 59) names `dilithium-py` as a backend and the code
  asks only `oqs`, which is why `VerifiersAgree` leaves out hosts with `dilithium_py` alone.
* A receipt without a `decision` is a different body for the two verifiers (`Body`,
  `StandaloneBody`): the library signs the fields that are there, the standalone verifier
  puts an empty string.
* Stray characters in base64 pass the library's decoder and fail the standalone one, and so
  does a signature without its key.
* `fde.py:112` calls the projected tier "the real post-remediation score". It is for a first,
  applied onboarding of actions that are capabilities under their own name, or Tasks nothing
  else is named after, with labels YAML gives back and no two of one slug
  (`ReadsAsProjected`). A decision or a gate, or a capability under another name, is declared
  as a new capability beside it; the default output directory adds the ungoverned `allow`
  gate of `governance.rego`.
* `fde.py:32` says a proposed reason counts only once a human confirms it. The default output
  directory is inside the target, so the next scan reads it as asserted unconfirmed.
* A second onboarding proposes only what is still unasserted and overwrites
  `governance.agent.yaml` with it (`fde.py:214`): what the first one declared, and edits by hand
  in that file, are gone at the next scan.
* `docs/CLAIMS_AND_NON_CLAIMS.md` (N7) says AgentFDE re-scans the generated manifest; it does not.
* Every high-risk word of the gate is in a strong heuristic row, so an action whose *label*
  has one is never ungoverned: rules 2 and 3 of `ci/pr_check.py` can only fire through the id,
  and rule 3 never without rule 2 (`GateAssumption`).
* The comment at `cli.py:94` says the ontology on disk matches the receipt's evidence; after a
  later `--no-receipt` scan it does not, as the old receipt stays. `ReceiptSealsSet` is what
  holds instead.
* A profile left truncated ends the driver's run with a traceback if its scan ended by itself,
  and is skipped by driver and generator for good.

## 7. What is not modelled, and the plan

Left out for good: the text of files and what a parser finds in it (Rego, OpenAPI, MCP,
SpecKit, Python; the items one declaration gives are modelled); `_slug`; ASCII checks and
wording; SVG, SARIF, HTML and console
layout; the read-only MCP server; the optional graph lookup, which no decision uses; the
risk profile, a second score nothing decides on; the generators of published files; fetching
a receipt over HTTP; canonical JSON and hashing beyond equality; the backend override
`OAO_SKIP_LIBOQS` (for the library, a host without oqs); and liboqs builds that only know the
older `Dilithium3`, which `Host` has but no run uses. An empty Ed25519 key file left by a crash
makes every later mint raise; the model has it (`ReadKey`) and no document promises otherwise.

Of the onboarding and the gate: the receipt of the projection and the report's text; people
who edit while `onboard` runs; a branch protection that merges pull requests checked against
an older base, where two that pass alone can lower the tier together. Of the registry: the
curated `manifest.json`, which overrides `_meta.json` field by field; a `rev-parse` that fails
and leaves the commit empty; `rmtree` that fails silently (Windows); a driver killed with
SIGKILL, whose child goes on; two drivers at a time; a checkout that fails after a clone,
which `scan_one` scans because it looks at no exit code.

Next, in this order:

1. The pipeline's last steps composed with the registry: the receipt of `Receipt` as the
   `receipt` file of `Registry`, and `scripts/verify_receipts.py` over published directories.
2. Proofs: what `PqKeys` keeps with several processes once the key files exist, which the
   first-run race does not touch; the receipt's legs against the registry's composition of 1.
3. The risk profile as operators, checked for the bounds its docstring states.
