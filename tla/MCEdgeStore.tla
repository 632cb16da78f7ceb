---------------------------- MODULE MCEdgeStore -----------------------------
(* TLC instance of EdgeStore. *)
EXTENDS EdgeStore, TLC

CONSTANT SharedKey   \* a key that several operations are sent with

MCKeys == Ops \cup {SharedKey}

\* Every operation is sent under a key of its own, or under the shared one.
MCEnvelopes == {e \in [id : Ops, key : MCKeys] : e.key \in {e.id, SharedKey}}

Symmetry == Permutations(Ops) \cup Permutations(Tickets) \cup Permutations(Orders)
=============================================================================
