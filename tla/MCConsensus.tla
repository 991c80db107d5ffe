---------------------------- MODULE MCConsensus ----------------------------
(* Consensus on small instances: members, events and ids are interchangeable. *)
EXTENDS Consensus, TLC

Symmetry == Permutations(Peers) \cup Permutations(Ids) \cup Permutations(Events)

============================================================================
