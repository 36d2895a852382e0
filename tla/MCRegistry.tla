----------------------------- MODULE MCRegistry -----------------------------
(* An instance of Registry for TLC: one repository, since no action and no *)
(* invariant relates the directories of two.                               *)
EXTENDS Registry
CONSTANT r1
OneRepo == <<r1>>
=============================================================================
