---------------------------- MODULE MCAppServer ----------------------------
(* Instances of AppServer for TLC. *)
EXTENDS AppServer, TLC

Symmetry == Permutations(Turns) \cup Permutations(Responders)
=============================================================================
