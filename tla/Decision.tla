------------------------------ MODULE Decision ------------------------------
(* What consensus on MASTER events promises: under a proposal id the members *)
(* decide at most one event, once and for all.                               *)

CONSTANTS Ids, Events

VARIABLE decided    \* the events decided under each id

Init == decided = [i \in Ids |-> {}]

\* The first member commits the event of a proposal.
Decide(i, e) ==
    /\ decided[i] = {}
    /\ decided' = [decided EXCEPT ![i] = {e}]

Next == \E i \in Ids, e \in Events : Decide(i, e)

Spec == Init /\ [][Next]_decided

============================================================================
