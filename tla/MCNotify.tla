------------------------------ MODULE MCNotify ------------------------------
(* The symmetry of the instances of Notify. *)
EXTENDS Notify, TLC

Symmetry == Permutations(Node) \cup Permutations(Callback)
               \cup Permutations(Handler) \cup Permutations(Type)
=============================================================================
