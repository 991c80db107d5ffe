----------------------------- MODULE MCServing -----------------------------
(* Instances of Serving for TLC.                                           *)
EXTENDS Serving, TLC

NodeSymmetry == Permutations(Nodes)

============================================================================
