------------------------------ MODULE MCSession ------------------------------
(* A small instance of Session for TLC. *)
EXTENDS Session, TLC

Symmetry == Permutations(Request) \cup Permutations(Handler) \cup Permutations(ProjectRoot)
==============================================================================
