----------------------------- MODULE MCReceipt -----------------------------
(* Values for the constants of Receipt. *)
EXTENDS Receipt, TLC

CONSTANTS w1, w2, e1, e2, d1, d2

LiboqsFull == {"ML-DSA-65", "SLH-DSA"}

\* The documented tiers: liboqs, dilithium_py or neither, with and without
\* cryptography.
DocumentedHosts ==
  {[cryptography |-> c, dilithium_py |-> d, oqs |-> o] :
     c \in BOOLEAN, d \in BOOLEAN, o \in {NoOqs}}
  \cup {[cryptography |-> c, dilithium_py |-> FALSE, oqs |-> LiboqsFull] : c \in BOOLEAN}

\* liboqs-python installed without its C library.
BrokenHosts ==
  {[cryptography |-> TRUE, dilithium_py |-> d, oqs |-> BrokenOqs] : d \in BOOLEAN}

AllHosts == DocumentedHosts \cup BrokenHosts

ReceiptSymmetry == Permutations(Minters) \cup Permutations(Evidences)
                   \cup Permutations(Decisions)

\* A full liboqs, one without the hash-based mechanism, and one without its C
\* library.
IncompleteLiboqs ==
  {[cryptography |-> TRUE, dilithium_py |-> FALSE, oqs |-> o] :
     o \in {LiboqsFull, {"ML-DSA-65"}, BrokenOqs}}
=============================================================================
