------------------------------- MODULE PqKeys -------------------------------
(***************************************************************************)
(* The post-quantum key store of openagentontology/pqsign.py: the sidecar  *)
(* files {base}.mldsa.pk/.sk and {base}.slhdsa.pk/.sk of one key base, the *)
(* keypair cache of every process, and the threads that sign and verify    *)
(* with them.  A keypair is a number; its public and its secret half carry *)
(* the same number, so a signature made with the secret half sk verifies   *)
(* under the public half pk exactly when pk = sk.                          *)
(*                                                                         *)
(* A file write is what Path.write_bytes does: open-and-truncate, then the *)
(* bytes.  Processes share the files and nothing else; the threads of a    *)
(* process share its cache, its _key_lock and its _ml_lock.                *)
(***************************************************************************)
EXTENDS Naturals

CONSTANTS
  Workers,      \* the threads that call the module
  Procs,        \* the processes they belong to
  ProcOf,       \* ProcOf[w]: the process of thread w
  Legs,         \* the legs this host's backend offers ("ml_dsa", "slh_dsa")
  Serialized,   \* the legs whose sign and verify calls take _ml_lock
  Seedings,     \* which legs an earlier run may have left persisted keypairs of
  MaxFaults,    \* bound: crashes and failed writes in a behaviour
  MaxClears,    \* bound: calls of clear_key_cache in a behaviour
  Absent,       \* content of a file that does not exist
  Empty,        \* content of a file opened for writing and not yet written
  Nobody        \* holder of a free lock

ASSUME ConstantsAssumption ==
  /\ ProcOf \in [Workers -> Procs]
  /\ Serialized \subseteq Legs
  /\ Seedings \subseteq SUBSET Legs
  /\ MaxFaults \in Nat /\ MaxClears \in Nat
  /\ Absent \notin Nat /\ Empty \notin Nat /\ Absent # Empty
  /\ Nobody \notin Workers

VARIABLES
  pkFile, skFile,   \* content of the public-key and secret-key file of a leg
  fresh,            \* number of keypairs generated so far for a leg
  cache,            \* _ml_keys / _slh_keys of a process, per leg
  keyLock, mlLock,  \* holder of _key_lock and of _ml_lock of a process
  pc,               \* where a thread is
  leg,              \* the leg a thread is working for
  pk, sk,           \* the thread's local variables of the same name
  results,          \* every signing result handed to a caller so far
  faults, clears

disk   == <<pkFile, skFile, fresh>>
locks  == <<keyLock, mlLock>>
locals == <<pk, sk>>
bounds == <<faults, clears>>
vars   == <<disk, cache, locks, pc, leg, locals, results, bounds>>

Content == Nat \cup {Absent, Empty}

\* The pc values inside `with _key_lock:` in _load_ml_dsa and _load_slh_dsa.
Generating == {"keygen", "write_pk", "open_sk", "write_sk"}
Loading    == {"pk_exists", "sk_exists", "read_pk", "read_sk"}
KeySection == Generating \cup Loading \cup {"publish", "release"}
Locations  == KeySection \cup
              {"idle", "lock", "sign", "signing", "verify", "verifying"}

NoPair == [pk |-> Absent, sk |-> Absent]
Pair   == [pk : Content, sk : Content]
Cached(p, l) == cache[p][l] # NoPair

TypeOK ==
  /\ pkFile \in [Legs -> Content]
  /\ skFile \in [Legs -> Content]
  /\ fresh \in [Legs -> Nat]
  /\ cache \in [Procs -> [Legs -> Pair]]
  /\ keyLock \in [Procs -> Workers \cup {Nobody}]
  /\ mlLock \in [Procs -> Workers \cup {Nobody}]
  /\ pc \in [Workers -> Locations]
  /\ leg \in [Workers -> Legs]
  /\ pk \in [Workers -> Content]
  /\ sk \in [Workers -> Content]
  /\ results \subseteq [leg : Legs, pk : Content, sk : Content]
  /\ faults \in Nat /\ clears \in Nat

Init ==
  /\ \E seeded \in Seedings :
       /\ pkFile = [l \in Legs |-> IF l \in seeded THEN 0 ELSE Absent]
       /\ skFile = [l \in Legs |-> IF l \in seeded THEN 0 ELSE Absent]
  /\ fresh = [l \in Legs |-> 0]
  /\ cache = [p \in Procs |-> [l \in Legs |-> NoPair]]
  /\ keyLock = [p \in Procs |-> Nobody]
  /\ mlLock = [p \in Procs |-> Nobody]
  /\ pc = [w \in Workers |-> "idle"]
  /\ leg \in [Workers -> Legs]
  /\ pk = [w \in Workers |-> Absent]
  /\ sk = [w \in Workers |-> Absent]
  /\ results = {}
  /\ faults = 0 /\ clears = 0

Goto(w, there) == pc' = [pc EXCEPT ![w] = there]
At(w, here)    == pc[w] = here
TakePair(w, pair) == /\ pk' = [pk EXCEPT ![w] = pair.pk]
                     /\ sk' = [sk EXCEPT ![w] = pair.sk]

-----------------------------------------------------------------------------
(* sign_ml_dsa and sign_slh_dsa, up to and including the unlocked cache    *)
(* lookup of _load_ml_dsa and _load_slh_dsa.                               *)
SignCall(w, l) ==
  /\ At(w, "idle")
  /\ leg' = [leg EXCEPT ![w] = l]
  /\ IF Cached(ProcOf[w], l)
       THEN TakePair(w, cache[ProcOf[w]][l]) /\ Goto(w, "sign")
       ELSE Goto(w, "lock") /\ UNCHANGED locals
  /\ UNCHANGED <<disk, cache, locks, results, bounds>>

\* Seeded fault: the cache is filled without _key_lock.
LockAndRecheck_unlocked(w) ==
  /\ At(w, "lock")
  /\ Goto(w, "pk_exists")
  /\ UNCHANGED <<disk, cache, locks, leg, locals, results, bounds>>

(* Enter `with _key_lock:` and look in the cache again.                    *)
LockAndRecheck(w) ==
  LET p == ProcOf[w]  l == leg[w] IN
  /\ At(w, "lock")
  /\ keyLock[p] = Nobody
  /\ keyLock' = [keyLock EXCEPT ![p] = w]
  /\ IF Cached(p, l)
       THEN TakePair(w, cache[p][l]) /\ Goto(w, "release")
       ELSE Goto(w, "pk_exists") /\ UNCHANGED locals
  /\ UNCHANGED <<disk, cache, mlLock, leg, results, bounds>>

\* Seeded fault: an existing pair is never looked for.
PkExists_ignored(w) ==
  /\ At(w, "pk_exists")
  /\ Goto(w, "keygen")
  /\ UNCHANGED <<disk, cache, locks, leg, locals, results, bounds>>

PkExists(w) ==
  /\ At(w, "pk_exists")
  /\ Goto(w, IF pkFile[leg[w]] # Absent THEN "sk_exists" ELSE "keygen")
  /\ UNCHANGED <<disk, cache, locks, leg, locals, results, bounds>>

\* Seeded fault: the public-key file alone makes a stored pair.
SkExists_ignored(w) ==
  /\ At(w, "sk_exists")
  /\ Goto(w, "read_pk")
  /\ UNCHANGED <<disk, cache, locks, leg, locals, results, bounds>>

SkExists(w) ==
  /\ At(w, "sk_exists")
  /\ Goto(w, IF skFile[leg[w]] # Absent THEN "read_pk" ELSE "keygen")
  /\ UNCHANGED <<disk, cache, locks, leg, locals, results, bounds>>

ReadPk(w) ==
  /\ At(w, "read_pk")
  /\ pk' = [pk EXCEPT ![w] = pkFile[leg[w]]]
  /\ Goto(w, "read_sk")
  /\ UNCHANGED <<disk, cache, locks, leg, sk, results, bounds>>

ReadSk(w) ==
  /\ At(w, "read_sk")
  /\ sk' = [sk EXCEPT ![w] = skFile[leg[w]]]
  /\ Goto(w, "publish")
  /\ UNCHANGED <<disk, cache, locks, leg, pk, results, bounds>>

(* The backend's keygen returns a pair nobody has seen; write_bytes then   *)
(* truncates the public-key file.                                          *)
Keygen(w) ==
  LET l == leg[w]  key == fresh[l] + 1 IN
  /\ At(w, "keygen")
  /\ fresh' = [fresh EXCEPT ![l] = key]
  /\ TakePair(w, [pk |-> key, sk |-> key])
  /\ pkFile' = [pkFile EXCEPT ![l] = Empty]
  /\ Goto(w, "write_pk")
  /\ UNCHANGED <<skFile, cache, locks, leg, results, bounds>>

WritePk(w) ==
  /\ At(w, "write_pk")
  /\ pkFile' = [pkFile EXCEPT ![leg[w]] = pk[w]]
  /\ Goto(w, "open_sk")
  /\ UNCHANGED <<skFile, fresh, cache, locks, leg, locals, results, bounds>>

OpenSk(w) ==
  /\ At(w, "open_sk")
  /\ skFile' = [skFile EXCEPT ![leg[w]] = Empty]
  /\ Goto(w, "write_sk")
  /\ UNCHANGED <<pkFile, fresh, cache, locks, leg, locals, results, bounds>>

WriteSk(w) ==
  /\ At(w, "write_sk")
  /\ skFile' = [skFile EXCEPT ![leg[w]] = sk[w]]
  /\ Goto(w, "publish")
  /\ UNCHANGED <<pkFile, fresh, cache, locks, leg, locals, results, bounds>>

Publish(w) ==
  /\ At(w, "publish")
  /\ cache' = [cache EXCEPT ![ProcOf[w]][leg[w]] = [pk |-> pk[w], sk |-> sk[w]]]
  /\ Goto(w, "release")
  /\ UNCHANGED <<disk, locks, leg, locals, results, bounds>>

Release(w) ==
  /\ At(w, "release")
  /\ keyLock' = [keyLock EXCEPT ![ProcOf[w]] = Nobody]
  /\ Goto(w, "sign")
  /\ UNCHANGED <<disk, cache, mlLock, leg, locals, results, bounds>>

(* `if not sk: return "", ""`: the caller gets no signature for the leg.   *)
NoSignature(w) ==
  /\ At(w, "sign")
  /\ sk[w] = Empty
  /\ results' = results \cup {[leg |-> leg[w], pk |-> pk[w], sk |-> Empty]}
  /\ Goto(w, "idle")
  /\ UNCHANGED <<disk, cache, locks, leg, locals, bounds>>

\* Seeded fault: the call does not wait for _ml_lock.
EnterSigner_unlocked(w, here, there) ==
  /\ At(w, here)
  /\ Goto(w, there)
  /\ UNCHANGED <<disk, cache, locks, leg, locals, results, bounds>>

(* _ml_lock is taken for the legs of the pure-Python backend only.         *)
EnterSigner(w, here, there) ==
  LET p == ProcOf[w] IN
  /\ At(w, here)
  /\ IF leg[w] \in Serialized
       THEN mlLock[p] = Nobody /\ mlLock' = [mlLock EXCEPT ![p] = w]
       ELSE UNCHANGED mlLock
  /\ Goto(w, there)
  /\ UNCHANGED <<disk, cache, keyLock, leg, locals, results, bounds>>

LeaveSigner(w, here) ==
  LET p == ProcOf[w] IN
  /\ At(w, here)
  /\ mlLock' = IF mlLock[p] = w THEN [mlLock EXCEPT ![p] = Nobody] ELSE mlLock
  /\ Goto(w, "idle")
  /\ UNCHANGED <<disk, cache, keyLock, leg, locals, bounds>>

Sign(w) == sk[w] # Empty /\ EnterSigner(w, "sign", "signing")

SignReturns(w) ==
  /\ LeaveSigner(w, "signing")
  /\ results' = results \cup {[leg |-> leg[w], pk |-> pk[w], sk |-> sk[w]]}

(* verify_ml_dsa and verify_slh_dsa: no key file, only the backend.        *)
VerifyCall(w, l) ==
  /\ At(w, "idle")
  /\ leg' = [leg EXCEPT ![w] = l]
  /\ Goto(w, "verify")
  /\ UNCHANGED <<disk, cache, locks, locals, results, bounds>>

Verify(w) == EnterSigner(w, "verify", "verifying")
VerifyReturns(w) == LeaveSigner(w, "verifying") /\ UNCHANGED results

\* Seeded fault: the cache is left with no entries to look up.
ClearKeyCache_drops_entries(p) ==
  /\ clears < MaxClears
  /\ keyLock[p] = Nobody
  /\ cache' = [cache EXCEPT ![p] = [l \in {} |-> NoPair]]
  /\ clears' = clears + 1
  /\ UNCHANGED <<disk, locks, pc, leg, locals, results, faults>>

ClearKeyCache(p) ==
  /\ clears < MaxClears
  /\ keyLock[p] = Nobody
  /\ cache' = [cache EXCEPT ![p] = [l \in Legs |-> NoPair]]
  /\ clears' = clears + 1
  /\ UNCHANGED <<disk, locks, pc, leg, locals, results, faults>>

(* Process p dies and is started again: threads, locks and cache are gone, *)
(* the files stay as they are.                                             *)
Crash(p) ==
  /\ faults < MaxFaults
  /\ faults' = faults + 1
  /\ cache' = [cache EXCEPT ![p] = [l \in Legs |-> NoPair]]
  /\ keyLock' = [keyLock EXCEPT ![p] = Nobody]
  /\ mlLock' = [mlLock EXCEPT ![p] = Nobody]
  /\ pc' = [w \in Workers |-> IF ProcOf[w] = p THEN "idle" ELSE pc[w]]
  /\ UNCHANGED <<disk, leg, locals, results, clears>>

\* Seeded fault: the pair is cached before its files are written.
LoadRaises_after_caching(w) ==
  /\ faults < MaxFaults
  /\ faults' = faults + 1
  /\ pc[w] \in Generating
  /\ cache' = [cache EXCEPT ![ProcOf[w]][leg[w]] = [pk |-> pk[w], sk |-> sk[w]]]
  /\ keyLock' = [keyLock EXCEPT ![ProcOf[w]] = Nobody]
  /\ Goto(w, "idle")
  /\ UNCHANGED <<disk, mlLock, leg, locals, results, clears>>

\* Seeded fault: acquire() and release() without try/finally.
LoadRaises_holding_lock(w) ==
  /\ faults < MaxFaults
  /\ faults' = faults + 1
  /\ pc[w] \in Generating
  /\ Goto(w, "idle")
  /\ UNCHANGED <<disk, cache, locks, leg, locals, results, clears>>

(* keygen or a write raises (full disk, read-only home): the exception     *)
(* leaves the `with` block and reaches the caller; nothing was cached.     *)
LoadRaises(w) ==
  /\ faults < MaxFaults
  /\ faults' = faults + 1
  /\ pc[w] \in Generating
  /\ keyLock' = [keyLock EXCEPT ![ProcOf[w]] = Nobody]
  /\ Goto(w, "idle")
  /\ UNCHANGED <<disk, cache, mlLock, leg, locals, results, clears>>

-----------------------------------------------------------------------------
Advance(w) ==
  \/ LockAndRecheck(w) \/ PkExists(w) \/ SkExists(w) \/ ReadPk(w) \/ ReadSk(w)
  \/ Keygen(w) \/ WritePk(w) \/ OpenSk(w) \/ WriteSk(w)
  \/ Publish(w) \/ Release(w) \/ NoSignature(w)
  \/ Sign(w) \/ SignReturns(w) \/ Verify(w) \/ VerifyReturns(w)

Next ==
  \/ \E w \in Workers :
       \/ Advance(w)
       \/ LoadRaises(w)
       \/ \E l \in Legs : SignCall(w, l) \/ VerifyCall(w, l)
  \/ \E p \in Procs : ClearKeyCache(p) \/ Crash(p)

Spec == Init /\ [][Next]_vars

(* A running thread keeps running; nobody has to call, crash or clear.     *)
FairSpec == Spec /\ \A w \in Workers : WF_vars(Advance(w))

-----------------------------------------------------------------------------
(* What the store promises.                                                *)

(* Whatever was interrupted, a complete secret-key file lies beside the    *)
(* public key it was generated with: the order of the two write_bytes      *)
(* calls and the exists-check on both files keep a half-written pair from  *)
(* ever being completed by the half of another pair.                       *)
PairOnDisk == \A l \in Legs : skFile[l] \in Nat => pkFile[l] = skFile[l]

(* Every leg that is present in a receipt -- a signature and a public key, *)
(* neither of them empty -- verifies.                                      *)
Present(r) == r.sk # Empty /\ r.pk # Empty
EveryLegVerifies == \A r \in results : Present(r) => r.pk = r.sk

(* No receipt is ever signed by a key that is not the persisted one, not   *)
(* even by a thread that loaded its pair before a crash or a cache clear.  *)
SignedByPersistedKey ==
  \A r \in results : Present(r) => skFile[r.leg] = r.sk

(* As long as no process died and no write failed, a leg the backend       *)
(* offers is never left out of a receipt: no thread takes an empty file    *)
(* for a key.                                                              *)
NoLegDropped == faults = 0 => \A r \in results : Present(r)

(* A cached pair is the pair on disk: dropping the cache (clear_key_cache, *)
(* a restart) never changes which key a process signs with.                *)
CacheAgreesWithDisk ==
  \A p \in Procs, l \in Legs :
    Cached(p, l) => cache[p][l] = [pk |-> pkFile[l], sk |-> skFile[l]]

(* Once a secret key is on disk, no step replaces or truncates either half *)
(* of the pair.                                                            *)
PersistedPairStays ==
  [][\A l \in Legs : skFile[l] \in Nat =>
       skFile'[l] = skFile[l] /\ pkFile'[l] = pkFile[l]]_vars

(* Every call returns: no thread waits for _key_lock or _ml_lock for ever. *)
CallsReturn == \A w \in Workers : ~At(w, "idle") ~> At(w, "idle")

(* The abstract key store this module implements: a leg has a pair as soon *)
(* as its secret-key file is complete, and a signature without a public    *)
(* key, or none at all, counts for nothing.                                *)
Store == INSTANCE KeyStore WITH
  pair   <- [l \in Legs |-> IF skFile[l] \in Nat THEN skFile[l] ELSE Absent],
  signed <- {r \in results : Present(r)}

(* The threads of one process behave, whatever crashes, raises or is       *)
(* cleared, like a store whose pairs appear in one step and never change.  *)
ImplementsKeyStore == Store!Spec

(* Calls that sign or verify a serialized leg never overlap in a process,  *)
(* whatever crashes release: only keygen runs outside _ml_lock.            *)
InSigner(w) == pc[w] \in {"signing", "verifying"} /\ leg[w] \in Serialized
SignersExclude ==
  \A v, w \in Workers :
    v # w /\ ProcOf[v] = ProcOf[w] => ~(InSigner(v) /\ InSigner(w))

(* dilithium_py is not re-entrant and its calls are to be serialized, but *)
(* keygen runs under _key_lock only.  It may meet a verify, and in one     *)
(* process nothing else of its leg: neither a second keygen nor a          *)
(* signature, since nobody signs before the pair is on disk and nobody     *)
(* generates afterwards.                                                   *)
InBackend(w) == pc[w] \in {"keygen", "signing", "verifying"}
OnlyVerifyMeetsKeygen ==
  \A v, w \in Workers :
    v # w /\ leg[v] = leg[w] /\ pc[v] = "keygen" /\ InBackend(w) => pc[w] = "verifying"
=============================================================================
