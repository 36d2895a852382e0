------------------------------ MODULE KeyStore ------------------------------
(***************************************************************************)
(* What openagentontology/pqsign.py promises to the callers of             *)
(* sign_ml_dsa and sign_slh_dsa: one keypair per leg.  It appears on disk  *)
(* in one step, it never changes afterwards, and a signature is made with  *)
(* it or not at all.  Files, caches, locks, threads and crashes are the    *)
(* business of PqKeys, which implements this specification for the threads *)
(* of one process.                                                         *)
(***************************************************************************)
EXTENDS Naturals

CONSTANTS Legs, Absent

VARIABLES
  pair,     \* the persisted keypair of a leg, Absent before the first
  signed    \* every signature handed out, with the public key it came with

vars == <<pair, signed>>

Init ==
  /\ pair \in [Legs -> Nat \cup {Absent}]
  /\ signed = {}

\* The first signer of a leg makes its keypair.
Persist(l) ==
  /\ pair[l] = Absent
  /\ pair'[l] \in Nat
  /\ pair' = [pair EXCEPT ![l] = pair'[l]]
  /\ UNCHANGED signed

\* A caller gets a signature under the persisted pair, both halves of it.
HandOut(l) ==
  /\ pair[l] # Absent
  /\ signed' = signed \cup {[leg |-> l, pk |-> pair[l], sk |-> pair[l]]}
  /\ UNCHANGED pair

Next == \E l \in Legs : Persist(l) \/ HandOut(l)

Spec == Init /\ [][Next]_vars
=============================================================================
