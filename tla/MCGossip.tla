------------------------------ MODULE MCGossip ------------------------------
(* Instances of Gossip for TLC.                                            *)
EXTENDS Gossip, TLC

KeySymmetry == Permutations(Keys)

============================================================================
