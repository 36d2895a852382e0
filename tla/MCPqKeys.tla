------------------------------ MODULE MCPqKeys ------------------------------
(* Instances of PqKeys for TLC.                                            *)
EXTENDS PqKeys, TLC

CONSTANTS w1, w2, w3, p1, p2, p3

AllInOneProcess == [w \in Workers |-> p1]
TwoProcesses    == [w \in Workers |-> IF w = w1 THEN p1 ELSE p2]
ThreeProcesses  == [w \in Workers |-> CASE w = w1 -> p1 [] w = w2 -> p2 [] w = w3 -> p3]

MlDsa    == {"ml_dsa"}                \* dilithium_py
BothLegs == {"ml_dsa", "slh_dsa"}     \* liboqs
NoLegs   == {}

FirstRun   == {{}}             \* no key file exists yet
AnyEarlier == SUBSET Legs      \* some legs were persisted by an earlier run
AllEarlier == {Legs}           \* every leg was

ThreadSymmetry == Permutations(Workers)
=============================================================================
