---------------------------- MODULE PqKeysProofs ----------------------------
(***************************************************************************)
(* For any number of threads of one process, any set of legs and any       *)
(* sequence of crashes, failed writes and cache clears: the key store of   *)
(* PqKeys keeps its promises.  One process is a hypothesis, OneProcess:    *)
(* _key_lock is a threading.Lock and orders nothing between processes.     *)
(***************************************************************************)
EXTENDS PqKeys, TLAPS

OneProcess == \A v, w \in Workers : ProcOf[v] = ProcOf[w]

-----------------------------------------------------------------------------
(* The inductive invariant.                                                *)

\* The holder of _key_lock is the one thread inside the section it guards.
LockInv == \A w \in Workers : pc[w] \in KeySection <=> keyLock[ProcOf[w]] = w

\* A secret-key file appears only after its public key is completely written.
DiskInv == \A l \in Legs :
  /\ skFile[l] # Absent => pkFile[l] \in Nat
  /\ skFile[l] \in Nat => pkFile[l] = skFile[l]

\* A thread that generates a pair found no secret key, and none appears.
WriterInv == \A w \in Workers :
  /\ pc[w] \in {"keygen", "write_pk", "open_sk"} => skFile[leg[w]] = Absent
  /\ pc[w] \in {"write_pk", "open_sk", "write_sk"} => pk[w] \in Nat /\ sk[w] = pk[w]
  /\ pc[w] \in {"open_sk", "write_sk"} => pkFile[leg[w]] = pk[w]
  /\ pc[w] = "write_sk" => skFile[leg[w]] = Empty

\* A thread that reads a pair found a secret key, and the pair stays.
ReaderInv == \A w \in Workers :
  /\ pc[w] \in {"read_pk", "read_sk"} => skFile[leg[w]] # Absent
  /\ pc[w] = "read_sk" => pk[w] = pkFile[leg[w]]

\* The places a pair is known in: a thread, a cache, a receipt.
Loaded(w) == pc[w] \in {"publish", "release", "sign", "signing"}
OnDisk(l, p, s) == skFile[l] # Absent /\ p = pkFile[l] /\ s = skFile[l]
KnownInv ==
  /\ \A w \in Workers : Loaded(w) => OnDisk(leg[w], pk[w], sk[w])
  /\ \A p \in Procs, l \in Legs :
       Cached(p, l) => OnDisk(l, cache[p][l].pk, cache[p][l].sk)
  /\ \A r \in results : OnDisk(r.leg, r.pk, r.sk)

\* Nothing is known of a pair whose secret key is still being written.
UnfinishedInv == \A w \in Workers : pc[w] = "write_sk" =>
  /\ \A v \in Workers : Loaded(v) => leg[v] # leg[w]
  /\ \A p \in Procs : ~Cached(p, leg[w])
  /\ \A r \in results : r.leg # leg[w]

\* Without a fault, an empty secret-key file has a thread about to fill it.
FaultInv == faults = 0 => \A l \in Legs :
  skFile[l] = Empty => \E w \in Workers : pc[w] = "write_sk" /\ leg[w] = l

IInv == /\ TypeOK /\ LockInv /\ DiskInv /\ WriterInv /\ ReaderInv
        /\ KnownInv /\ UnfinishedInv /\ FaultInv
-----------------------------------------------------------------------------
(* Type correctness.                                                       *)

(* The first state is well typed: the key files an earlier run persisted   *)
(* hold a keypair, everything else is empty.                               *)
LEMMA InitType == Init => TypeOK
BY ConstantsAssumption DEF Init, TypeOK, Content, Locations, NoPair, Pair

(* Every step of pqsign.py and every fault keeps the types.                *)
LEMMA NextType == TypeOK /\ [Next]_vars => TypeOK'
<1> SUFFICES ASSUME TypeOK, [Next]_vars PROVE TypeOK'
  OBVIOUS
<1>0. ASSUME NEW p \in Procs, NEW l \in Legs
      PROVE cache[p][l].pk \in Content /\ cache[p][l].sk \in Content
  BY DEF TypeOK, Pair
<1> USE ConstantsAssumption DEF TypeOK, Content, Pair, Locations, KeySection,
      Generating, Loading, Goto, At, TakePair, disk, locks, locals, bounds
<1>1. ASSUME NEW w \in Workers, LockAndRecheck(w) PROVE TypeOK'
  <2>1. cache[ProcOf[w]][leg[w]].pk \in Content /\ cache[ProcOf[w]][leg[w]].sk \in Content
    BY <1>0
  <2> QED
    BY <1>1, <2>1 DEF LockAndRecheck
<1>2. ASSUME NEW w \in Workers, PkExists(w) PROVE TypeOK'
  BY <1>2 DEF PkExists
<1>3. ASSUME NEW w \in Workers, SkExists(w) PROVE TypeOK'
  BY <1>3 DEF SkExists
<1>4. ASSUME NEW w \in Workers, ReadPk(w) PROVE TypeOK'
  BY <1>4 DEF ReadPk
<1>5. ASSUME NEW w \in Workers, ReadSk(w) PROVE TypeOK'
  BY <1>5 DEF ReadSk
<1>6. ASSUME NEW w \in Workers, Keygen(w) PROVE TypeOK'
  BY <1>6 DEF Keygen
<1>7. ASSUME NEW w \in Workers, WritePk(w) PROVE TypeOK'
  BY <1>7 DEF WritePk
<1>8. ASSUME NEW w \in Workers, OpenSk(w) PROVE TypeOK'
  BY <1>8 DEF OpenSk
<1>9. ASSUME NEW w \in Workers, WriteSk(w) PROVE TypeOK'
  BY <1>9 DEF WriteSk
<1>10. ASSUME NEW w \in Workers, Publish(w) PROVE TypeOK'
  BY <1>10 DEF Publish
<1>11. ASSUME NEW w \in Workers, Release(w) PROVE TypeOK'
  BY <1>11 DEF Release
<1>12. ASSUME NEW w \in Workers, NoSignature(w) PROVE TypeOK'
  BY <1>12 DEF NoSignature
<1>13. ASSUME NEW w \in Workers, Sign(w) PROVE TypeOK'
  BY <1>13 DEF Sign, EnterSigner
<1>14. ASSUME NEW w \in Workers, SignReturns(w) PROVE TypeOK'
  BY <1>14 DEF SignReturns, LeaveSigner
<1>15. ASSUME NEW w \in Workers, Verify(w) PROVE TypeOK'
  BY <1>15 DEF Verify, EnterSigner
<1>16. ASSUME NEW w \in Workers, VerifyReturns(w) PROVE TypeOK'
  BY <1>16 DEF VerifyReturns, LeaveSigner
<1>17. ASSUME NEW w \in Workers, LoadRaises(w) PROVE TypeOK'
  BY <1>17 DEF LoadRaises
<1>18. ASSUME NEW w \in Workers, NEW l \in Legs, SignCall(w, l) PROVE TypeOK'
  <2>1. cache[ProcOf[w]][l].pk \in Content /\ cache[ProcOf[w]][l].sk \in Content
    BY <1>0
  <2> QED
    BY <1>18, <2>1 DEF SignCall
<1>19. ASSUME NEW w \in Workers, NEW l \in Legs, VerifyCall(w, l) PROVE TypeOK'
  BY <1>19 DEF VerifyCall
<1>20. ASSUME NEW p \in Procs, ClearKeyCache(p) PROVE TypeOK'
  BY <1>20 DEF ClearKeyCache, NoPair
<1>21. ASSUME NEW p \in Procs, Crash(p) PROVE TypeOK'
  BY <1>21 DEF Crash, NoPair
<1>22. CASE UNCHANGED vars
  BY <1>22 DEF vars
<1> QED
  BY <1>1, <1>2, <1>3, <1>4, <1>5, <1>6, <1>7, <1>8, <1>9, <1>10, <1>11, <1>12, <1>13, <1>14, <1>15, <1>16, <1>17, <1>18, <1>19, <1>20, <1>21, <1>22 DEF Next, Advance
-----------------------------------------------------------------------------
(* The inductive invariant.                                                *)

(* A host with or without persisted pairs starts in the invariant.         *)
LEMMA InitInv == Init => IInv
<1> SUFFICES ASSUME Init PROVE IInv
  OBVIOUS
<1>1. TypeOK
  BY InitType
<1>2. LockInv
  BY ConstantsAssumption DEF Init, LockInv, KeySection, Generating, Loading
<1>3. DiskInv /\ FaultInv
  BY ConstantsAssumption DEF Init, DiskInv, FaultInv
<1>4. WriterInv /\ ReaderInv /\ UnfinishedInv
  BY DEF Init, WriterInv, ReaderInv, UnfinishedInv
<1>5. KnownInv
  BY DEF Init, KnownInv, Loaded, Cached, NoPair
<1> QED
  BY <1>1, <1>2, <1>3, <1>4, <1>5 DEF IInv

(* In one process, two threads are never both inside the locked section.   *)
LEMMA OneInSection ==
  ASSUME OneProcess, TypeOK, LockInv,
         NEW v \in Workers, NEW w \in Workers,
         pc[v] \in KeySection, pc[w] \in KeySection
  PROVE  v = w
BY DEF OneProcess, LockInv

(* With one process, every step of a thread, a crash, a failed write and   *)
(* clear_key_cache keep the invariant.                                     *)
LEMMA NextInv == OneProcess /\ IInv /\ [Next]_vars => IInv'
<1> SUFFICES ASSUME OneProcess, IInv, [Next]_vars PROVE IInv'
  OBVIOUS
<1>0. TypeOK'
  BY NextType DEF IInv
<1> USE ConstantsAssumption DEF IInv, TypeOK, Content, Pair, Goto, At,
      disk, locks, locals, bounds, KeySection, Generating, Loading, OneProcess
<1> USE DEF LockInv, DiskInv, WriterInv, ReaderInv, KnownInv, UnfinishedInv,
      FaultInv, Loaded, OnDisk, Cached
(* Entering the section: a hit takes the cached pair, which is on disk.    *)
<1>1. ASSUME NEW w \in Workers, LockAndRecheck(w) PROVE IInv'
  <2> DEFINE p == ProcOf[w]
             l == leg[w]
  <2>1. LockInv' /\ DiskInv' /\ WriterInv' /\ ReaderInv' /\ FaultInv'
    BY <1>0, <1>1 DEF LockAndRecheck, TakePair
  <2>2. CASE Cached(p, l)
    <3>1. /\ pc' = [pc EXCEPT ![w] = "release"]
          /\ pk' = [pk EXCEPT ![w] = cache[p][l].pk]
          /\ sk' = [sk EXCEPT ![w] = cache[p][l].sk]
          /\ UNCHANGED <<pkFile, skFile, cache, leg, results>>
      BY <1>1, <2>2 DEF LockAndRecheck, TakePair
    <3>2. OnDisk(l, cache[p][l].pk, cache[p][l].sk)
      BY <2>2
    <3>3. KnownInv'
      BY <3>1, <3>2
    <3>4. UnfinishedInv'
      BY <2>2, <3>1
    <3> QED
      BY <1>0, <2>1, <3>3, <3>4
  <2>3. CASE ~Cached(p, l)
    <3>1. /\ pc' = [pc EXCEPT ![w] = "pk_exists"]
          /\ UNCHANGED <<pk, sk, pkFile, skFile, cache, leg, results>>
      BY <1>1, <2>3 DEF LockAndRecheck
    <3>2. KnownInv' /\ UnfinishedInv'
      BY <3>1
    <3> QED
      BY <1>0, <2>1, <3>2
  <2> QED
    BY <2>2, <2>3
(* The two exists-checks: either no secret key exists, or both files do.   *)
<1>2. ASSUME NEW w \in Workers, PkExists(w) PROVE IInv'
  BY <1>0, <1>2 DEF PkExists
<1>3. ASSUME NEW w \in Workers, SkExists(w) PROVE IInv'
  BY <1>0, <1>3 DEF SkExists
(* Reading: nobody else is in the section, so the two halves match.        *)
<1>4. ASSUME NEW w \in Workers, ReadPk(w) PROVE IInv'
  BY <1>0, <1>4 DEF ReadPk
<1>5. ASSUME NEW w \in Workers, ReadSk(w) PROVE IInv'
  <2>1. \A v \in Workers : pc[v] = "write_sk" => v = w
    BY <1>5, OneInSection DEF ReadSk
  <2>2. UnfinishedInv'
    BY <1>5, <2>1 DEF ReadSk
  <2> QED
    BY <1>0, <1>5, <2>2 DEF ReadSk
(* Generating: there is no secret key for the leg, so the pair is unknown. *)
<1>6. ASSUME NEW w \in Workers, Keygen(w) PROVE IInv'
  <2>1. \A v \in Workers : pc[v] \in KeySection => v = w
    BY <1>6, OneInSection DEF Keygen
  <2>2. DiskInv' /\ WriterInv' /\ ReaderInv'
    BY <1>0, <1>6, <2>1 DEF Keygen, TakePair
  <2>3. KnownInv' /\ UnfinishedInv'
    BY <1>0, <1>6, <2>1 DEF Keygen, TakePair
  <2> QED
    BY <1>0, <1>6, <2>2, <2>3 DEF Keygen
<1>7. ASSUME NEW w \in Workers, WritePk(w) PROVE IInv'
  BY <1>0, <1>7 DEF WritePk
<1>8. ASSUME NEW w \in Workers, OpenSk(w) PROVE IInv'
  <2>1. \A v \in Workers : pc[v] \in KeySection => v = w
    BY <1>8, OneInSection DEF OpenSk
  <2>2. DiskInv' /\ WriterInv' /\ ReaderInv'
    BY <1>0, <1>8, <2>1 DEF OpenSk
  <2>3. KnownInv' /\ UnfinishedInv' /\ FaultInv'
    BY <1>0, <1>8, <2>1 DEF OpenSk
  <2> QED
    BY <1>0, <1>8, <2>2, <2>3 DEF OpenSk
<1>9. ASSUME NEW w \in Workers, WriteSk(w) PROVE IInv'
  BY <1>0, <1>9 DEF WriteSk
(* Publishing: the pair is known to its thread already.                    *)
<1>10. ASSUME NEW w \in Workers, Publish(w) PROVE IInv'
  BY <1>0, <1>10 DEF Publish
<1>11. ASSUME NEW w \in Workers, Release(w) PROVE IInv'
  BY <1>0, <1>11 DEF Release
(* Signing and verifying touch neither files nor cache.                    *)
<1>12. ASSUME NEW w \in Workers, NoSignature(w) PROVE IInv'
  BY <1>0, <1>12 DEF NoSignature
<1>13. ASSUME NEW w \in Workers, Sign(w) PROVE IInv'
  BY <1>0, <1>13 DEF Sign, EnterSigner
<1>14. ASSUME NEW w \in Workers, SignReturns(w) PROVE IInv'
  BY <1>0, <1>14 DEF SignReturns, LeaveSigner
<1>15. ASSUME NEW w \in Workers, Verify(w) PROVE IInv'
  BY <1>0, <1>15 DEF Verify, EnterSigner
<1>16. ASSUME NEW w \in Workers, VerifyReturns(w) PROVE IInv'
  BY <1>0, <1>16 DEF VerifyReturns, LeaveSigner
(* Faults leave the files as they are and forget everything else.          *)
<1>17. ASSUME NEW w \in Workers, LoadRaises(w) PROVE IInv'
  BY <1>0, <1>17 DEF LoadRaises
<1>18. ASSUME NEW w \in Workers, NEW l \in Legs, SignCall(w, l) PROVE IInv'
  BY <1>0, <1>18 DEF SignCall, TakePair
<1>19. ASSUME NEW w \in Workers, NEW l \in Legs, VerifyCall(w, l) PROVE IInv'
  BY <1>0, <1>19 DEF VerifyCall
<1>20. ASSUME NEW p \in Procs, ClearKeyCache(p) PROVE IInv'
  BY <1>0, <1>20 DEF ClearKeyCache, NoPair
<1>21. ASSUME NEW p \in Procs, Crash(p) PROVE IInv'
  BY <1>0, <1>21 DEF Crash, NoPair
<1>22. CASE UNCHANGED vars
  BY <1>22 DEF vars
<1> QED
  BY <1>1, <1>2, <1>3, <1>4, <1>5, <1>6, <1>7, <1>8, <1>9, <1>10, <1>11,
     <1>12, <1>13, <1>14, <1>15, <1>16, <1>17, <1>18, <1>19, <1>20, <1>21,
     <1>22 DEF Next, Advance

-----------------------------------------------------------------------------
(* The variables of PqKeys keep their types in every behaviour, with any   *)
(* number of processes.                                                    *)
THEOREM TypeCorrect == Spec => []TypeOK
<1>1. Init => TypeOK
  BY InitType
<1>2. TypeOK /\ [Next]_vars => TypeOK'
  BY NextType
<1> QED
  BY <1>1, <1>2, PTL DEF Spec

(* The inductive invariant holds in every behaviour of one process.        *)
THEOREM Invariance == OneProcess => (Spec => []IInv)
<1> SUFFICES ASSUME OneProcess PROVE Spec => []IInv
  OBVIOUS
<1>1. Init => IInv
  BY InitInv
<1>2. IInv /\ [Next]_vars => IInv'
  BY NextInv
<1> QED
  BY <1>1, <1>2, PTL DEF Spec

(* Every leg present in a receipt verifies, whatever threads of the        *)
(* process loaded, generated, cleared or lost (_load_ml_dsa and            *)
(* _load_slh_dsa are safe among threads).                                  *)
THEOREM LegsVerify == OneProcess => (Spec => []EveryLegVerifies)
<1>1. IInv => EveryLegVerifies
  BY DEF IInv, KnownInv, OnDisk, DiskInv, EveryLegVerifies, Present, TypeOK,
         Content
<1> QED
  BY <1>1, Invariance, PTL

(* A complete secret key lies beside its own public key, whatever write    *)
(* was interrupted.                                                        *)
THEOREM PairsMatch == OneProcess => (Spec => []PairOnDisk)
<1>1. IInv => PairOnDisk
  BY DEF IInv, DiskInv, PairOnDisk
<1> QED
  BY <1>1, Invariance, PTL

(* Every signature was made with the key that is on disk now: no receipt   *)
(* is orphaned by a crash, a failed write or a cache clear.                *)
THEOREM NoOrphanedReceipt == OneProcess => (Spec => []SignedByPersistedKey)
<1>1. IInv => SignedByPersistedKey
  BY DEF IInv, KnownInv, OnDisk, DiskInv, SignedByPersistedKey
<1> QED
  BY <1>1, Invariance, PTL

(* Without a fault no leg is dropped: no thread reads a file that is being *)
(* written.                                                                *)
THEOREM NothingDropped == OneProcess => (Spec => []NoLegDropped)
<1>1. IInv => NoLegDropped
  BY DEF IInv, KnownInv, OnDisk, DiskInv, FaultInv, UnfinishedInv,
         NoLegDropped, Present, TypeOK, Content
<1> QED
  BY <1>1, Invariance, PTL

(* The cache of a process never goes stale.                                *)
THEOREM CacheCoherent == OneProcess => (Spec => []CacheAgreesWithDisk)
<1>1. IInv => CacheAgreesWithDisk
  <2> SUFFICES ASSUME IInv, NEW p \in Procs, NEW l \in Legs, Cached(p, l)
               PROVE  cache[p][l] = [pk |-> pkFile[l], sk |-> skFile[l]]
    BY DEF CacheAgreesWithDisk
  <2>1. cache[p][l] \in Pair
    BY DEF IInv, TypeOK
  <2> QED
    BY <2>1 DEF IInv, KnownInv, OnDisk, Pair
<1> QED
  BY <1>1, Invariance, PTL

(* The steps that write a file or answer a caller; every other one leaves  *)
(* the files and the results alone.                                        *)
LEMMA FileSteps ==
  ASSUME [Next]_vars
  PROVE  \/ UNCHANGED <<pkFile, skFile, results>>
         \/ \E w \in Workers :
              \/ Keygen(w) \/ WritePk(w) \/ OpenSk(w) \/ WriteSk(w)
              \/ SignReturns(w) \/ NoSignature(w)
<1>1. ASSUME NEW w \in Workers,
             \/ LockAndRecheck(w) \/ PkExists(w) \/ SkExists(w) \/ ReadPk(w) \/ ReadSk(w)
             \/ Publish(w) \/ Release(w) \/ LoadRaises(w)
      PROVE  UNCHANGED <<pkFile, skFile, results>>
  BY <1>1 DEF LockAndRecheck, PkExists, SkExists, ReadPk, ReadSk, Publish, Release,
     LoadRaises, disk
<1>2. ASSUME NEW w \in Workers,
             \/ Sign(w) \/ Verify(w) \/ VerifyReturns(w)
             \/ \E l \in Legs : SignCall(w, l) \/ VerifyCall(w, l)
      PROVE  UNCHANGED <<pkFile, skFile, results>>
  BY <1>2 DEF Sign, Verify, VerifyReturns, EnterSigner, LeaveSigner, SignCall, VerifyCall, disk
<1>3. ASSUME NEW p \in Procs, ClearKeyCache(p) \/ Crash(p)
      PROVE  UNCHANGED <<pkFile, skFile, results>>
  BY <1>3 DEF ClearKeyCache, Crash, disk
<1>4. CASE UNCHANGED vars
  BY <1>4 DEF vars, disk
<1> QED
  BY <1>1, <1>2, <1>3, <1>4 DEF Next, Advance

(* A persisted pair is final.                                              *)
THEOREM PairStays == OneProcess => (Spec => PersistedPairStays)
<1> DEFINE Stays == \A l \in Legs : skFile[l] \in Nat =>
                      skFile'[l] = skFile[l] /\ pkFile'[l] = pkFile[l]
<1>1. IInv /\ [Next]_vars => [Stays]_vars
  <2> SUFFICES ASSUME IInv, Next PROVE Stays
    OBVIOUS
  <2> USE ConstantsAssumption DEF IInv, TypeOK, WriterInv, disk, At
  <2>1. ASSUME NEW w \in Workers, Keygen(w) PROVE Stays
    BY <2>1 DEF Keygen
  <2>2. ASSUME NEW w \in Workers, WritePk(w) PROVE Stays
    BY <2>2 DEF WritePk
  <2>3. ASSUME NEW w \in Workers, OpenSk(w) PROVE Stays
    BY <2>3 DEF OpenSk
  <2>4. ASSUME NEW w \in Workers, WriteSk(w) PROVE Stays
    BY <2>4 DEF WriteSk
  <2>5. ASSUME NEW w \in Workers, SignReturns(w) \/ NoSignature(w) PROVE Stays
    BY <2>5 DEF SignReturns, NoSignature, LeaveSigner
  <2>6. CASE UNCHANGED <<pkFile, skFile>>
    BY <2>6
  <2> QED
    BY <2>1, <2>2, <2>3, <2>4, <2>5, <2>6, FileSteps
<1>2. OneProcess => (Spec => [][Stays]_vars)
  BY <1>1, Invariance, PTL DEF Spec
<1> QED
  BY <1>2 DEF PersistedPairStays

(* In one process a keygen meets neither a signature nor another keygen of *)
(* its leg: its holder of _key_lock found no secret key, and what anybody  *)
(* signs with is on disk.                                                  *)
THEOREM KeygenAlone == OneProcess => (Spec => []OnlyVerifyMeetsKeygen)
<1> SUFFICES ASSUME OneProcess PROVE Spec => []OnlyVerifyMeetsKeygen
  OBVIOUS
<1>1. IInv => OnlyVerifyMeetsKeygen
  <2> SUFFICES ASSUME IInv, NEW v \in Workers, NEW w \in Workers, v # w,
                      leg[v] = leg[w], pc[v] = "keygen", InBackend(w)
               PROVE  pc[w] = "verifying"
    BY DEF OnlyVerifyMeetsKeygen
  <2>1. skFile[leg[v]] = Absent
    BY DEF IInv, WriterInv
  <2>2. pc[w] # "signing"
    BY <2>1 DEF IInv, KnownInv, Loaded, OnDisk
  <2>3. pc[w] # "keygen"
    BY DEF IInv, LockInv, OneProcess, KeySection, Generating
  <2> QED
    BY <2>2, <2>3 DEF InBackend
<1> QED
  BY <1>1, Invariance, PTL

-----------------------------------------------------------------------------
(* _ml_lock.                                                               *)

\* A call inside the backend for a serialized leg holds the lock of its process.
SignerInv == \A w \in Workers : InSigner(w) => mlLock[ProcOf[w]] = w

(* Every step keeps it, in any number of processes: a call takes the lock  *)
(* on its way in, and a crash empties the backend with the lock.           *)
LEMMA SignerNext == TypeOK /\ SignerInv /\ [Next]_vars => SignerInv'
<1> SUFFICES ASSUME TypeOK, SignerInv, [Next]_vars PROVE SignerInv'
  OBVIOUS
<1> USE DEF SignerInv, InSigner, At, Goto, locks, disk, locals, bounds
<1>1. ASSUME NEW w \in Workers, NEW here \in {"sign", "verify"},
             NEW there \in {"signing", "verifying"}, EnterSigner(w, here, there)
      PROVE  SignerInv'
  <2> SUFFICES ASSUME NEW v \in Workers, InSigner(v)'
               PROVE  mlLock'[ProcOf[v]] = v
    OBVIOUS
  <2>1. CASE v = w
    BY <1>1, <2>1, ConstantsAssumption DEF EnterSigner, TypeOK
  <2>2. CASE v # w
    <3>1. mlLock[ProcOf[v]] = v
      BY <1>1, <2>2 DEF EnterSigner, TypeOK
    <3>2. \/ mlLock' = mlLock
          \/ /\ mlLock[ProcOf[w]] = Nobody
             /\ mlLock' = [mlLock EXCEPT ![ProcOf[w]] = w]
      BY <1>1 DEF EnterSigner
    <3>3. v # Nobody /\ ProcOf[v] \in Procs /\ mlLock \in [Procs -> Workers \cup {Nobody}]
      BY ConstantsAssumption DEF TypeOK
    <3> QED
      BY <3>1, <3>2, <3>3
  <2> QED
    BY <2>1, <2>2
<1>2. ASSUME NEW w \in Workers, NEW here \in {"signing", "verifying"}, LeaveSigner(w, here)
      PROVE  SignerInv'
  BY <1>2, ConstantsAssumption DEF LeaveSigner, TypeOK
<1>3. ASSUME NEW w \in Workers, NEW l \in Legs, SignCall(w, l) \/ VerifyCall(w, l)
      PROVE  SignerInv'
  BY <1>3 DEF SignCall, VerifyCall, TypeOK
<1>4. ASSUME NEW w \in Workers, UNCHANGED <<mlLock, leg>>,
             NEW there \in Locations \ {"signing", "verifying"}, pc' = [pc EXCEPT ![w] = there]
      PROVE  SignerInv'
  BY <1>4 DEF TypeOK
<1>5. ASSUME NEW w \in Workers,
             \/ LockAndRecheck(w) \/ PkExists(w) \/ SkExists(w) \/ ReadPk(w) \/ ReadSk(w)
             \/ Keygen(w) \/ WritePk(w) \/ OpenSk(w) \/ WriteSk(w)
             \/ Publish(w) \/ Release(w) \/ NoSignature(w) \/ LoadRaises(w)
      PROVE  SignerInv'
  <2>1. UNCHANGED <<mlLock, leg>>
        /\ \E there \in {"idle", "release", "pk_exists", "sk_exists", "keygen", "read_pk",
                          "read_sk", "write_pk", "open_sk", "write_sk", "publish", "sign"} :
             pc' = [pc EXCEPT ![w] = there]
    BY <1>5 DEF LockAndRecheck, PkExists, SkExists, ReadPk, ReadSk, Keygen, WritePk, OpenSk,
       WriteSk, Publish, Release, NoSignature, LoadRaises
  <2>. QED BY <1>4, <2>1 DEF Locations, KeySection, Generating, Loading
<1>6. ASSUME NEW p \in Procs, Crash(p) PROVE SignerInv'
  BY <1>6, ConstantsAssumption DEF Crash, TypeOK
<1>7. CASE UNCHANGED <<mlLock, leg, pc>>
  BY <1>7
<1> QED
  BY <1>1, <1>2, <1>3, <1>5, <1>6, <1>7
     DEF Next, Advance, Sign, SignReturns, Verify, VerifyReturns, ClearKeyCache, vars

(* Two threads of a process are never both signing or verifying a          *)
(* serialized leg.                                                         *)
THEOREM SignersTakeTurns == Spec => []SignersExclude
<1>1. Init => SignerInv
  BY DEF Init, SignerInv, InSigner
<1>2. SignerInv => SignersExclude
  BY DEF SignerInv, SignersExclude
<1> QED
  BY <1>1, <1>2, SignerNext, TypeCorrect, PTL DEF Spec

-----------------------------------------------------------------------------
(* The abstract store.                                                     *)

\* What the refinement mapping makes of the files and of the results.
MappedPair   == [l \in Legs |-> IF skFile[l] \in Nat THEN skFile[l] ELSE Absent]
MappedSigned == {r \in results : Present(r)}

(* The first state maps to an initial store: the pairs an earlier run left *)
(* are its persisted pairs.                                                *)
LEMMA InitMaps == Init => Store!Init
BY DEF Init, Store!Init

(* A step maps to the appearance of a pair when the secret key is written, *)
(* to a signature handed out when a sign call returns, and to nothing      *)
(* otherwise.                                                              *)
LEMMA StepMaps ==
  IInv /\ [Next]_vars => [Store!Next]_(Store!vars)
<1> SUFFICES ASSUME IInv, [Next]_vars
             PROVE  Store!Next \/ UNCHANGED <<MappedPair, MappedSigned>>
  BY DEF Store!vars, MappedPair, MappedSigned
<1> USE ConstantsAssumption
<1>1. ASSUME NEW w \in Workers, WriteSk(w), NEW l \in Legs, l = leg[w]
      PROVE  Store!Persist(l)
  <2>1. /\ skFile[l] = Empty /\ sk[w] \in Nat
        /\ skFile' = [skFile EXCEPT ![l] = sk[w]]
        /\ results' = results
        /\ skFile \in [Legs -> Content]
    BY <1>1 DEF WriteSk, At, IInv, WriterInv, TypeOK
  <2>2. MappedPair' = [MappedPair EXCEPT ![l] = sk[w]]
    BY <2>1 DEF MappedPair
  <2>3. MappedPair[l] = Absent /\ MappedPair'[l] = sk[w]
    BY <2>1, <2>2 DEF MappedPair
  <2>4. MappedSigned' = MappedSigned
    BY <2>1 DEF MappedSigned, Present
  <2> QED
    BY <2>1, <2>2, <2>3, <2>4 DEF Store!Persist, MappedPair, MappedSigned
<1>2. ASSUME NEW w \in Workers, SignReturns(w)
      PROVE  Store!HandOut(leg[w]) \/ UNCHANGED <<MappedPair, MappedSigned>>
  <2> DEFINE new == [leg |-> leg[w], pk |-> pk[w], sk |-> sk[w]]
  <2>1. /\ leg[w] \in Legs
        /\ results' = results \cup {new} /\ skFile' = skFile
        /\ OnDisk(leg[w], pk[w], sk[w])
    BY <1>2 DEF SignReturns, LeaveSigner, At, disk, IInv, KnownInv, Loaded, TypeOK
  <2>2. MappedPair' = MappedPair
    BY <2>1 DEF MappedPair
  <2>3. CASE Present(new)
    <3>1. sk[w] \in Nat /\ pk[w] = sk[w] /\ skFile[leg[w]] = sk[w]
      BY <2>1, <2>3 DEF OnDisk, Present, IInv, DiskInv, TypeOK, Content
    <3>2. MappedPair[leg[w]] = sk[w] /\ MappedPair[leg[w]] # Absent
      BY <2>1, <3>1 DEF MappedPair
    <3>3. MappedSigned' = MappedSigned \cup {new}
      BY <2>1, <2>3 DEF MappedSigned, Present
    <3>4. Store!HandOut(leg[w])
      BY <2>2, <3>1, <3>2, <3>3 DEF Store!HandOut, MappedPair, MappedSigned
    <3> QED BY <3>4
  <2>4. CASE ~Present(new)
    BY <2>1, <2>2, <2>4 DEF MappedSigned, Present
  <2> QED BY <2>3, <2>4
<1>3. ASSUME NEW w \in Workers, NoSignature(w)
      PROVE  UNCHANGED <<MappedPair, MappedSigned>>
  BY <1>3 DEF NoSignature, disk, MappedPair, MappedSigned, Present
<1>4. ASSUME NEW w \in Workers, OpenSk(w)
      PROVE  UNCHANGED <<MappedPair, MappedSigned>>
  <2>1. skFile[leg[w]] = Absent
    BY <1>4 DEF OpenSk, At, IInv, WriterInv
  <2>2. /\ skFile' = [skFile EXCEPT ![leg[w]] = Empty] /\ results' = results
        /\ skFile \in [Legs -> Content]
    BY <1>4 DEF OpenSk, IInv, TypeOK
  <2> QED
    BY <2>1, <2>2 DEF MappedPair, MappedSigned, Present
<1>5. CASE UNCHANGED <<skFile, results>>
  BY <1>5 DEF MappedPair, MappedSigned, Present
<1>6. ASSUME NEW w \in Workers, Keygen(w) \/ WritePk(w)
      PROVE  UNCHANGED <<skFile, results>>
  BY <1>6 DEF Keygen, WritePk
<1>7. ASSUME NEW w \in Workers, WriteSk(w) PROVE Store!Next
  <2>1. PICK l \in Legs : l = leg[w]
    BY <1>7 DEF IInv, TypeOK
  <2>2. Store!Persist(l)
    BY <1>1, <1>7, <2>1
  <2> QED
    BY <2>2 DEF Store!Next
<1>8. ASSUME NEW w \in Workers, Store!HandOut(leg[w]) PROVE Store!Next
  BY <1>8 DEF Store!Next, IInv, TypeOK
<1> QED
  BY <1>2, <1>3, <1>4, <1>5, <1>6, <1>7, <1>8, FileSteps

(* The threads of one process implement the abstract key store, through    *)
(* every crash, failed write and cache clear: _load_ml_dsa and             *)
(* _load_slh_dsa make a pair appear at once and never change it.           *)
THEOREM Refines == OneProcess => (Spec => ImplementsKeyStore)
<1> SUFFICES ASSUME OneProcess PROVE Spec => Store!Spec
  BY DEF ImplementsKeyStore
<1> QED
  BY InitMaps, StepMaps, Invariance, PTL DEF Spec, Store!Spec
=============================================================================
