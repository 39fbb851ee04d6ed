------------------------------ MODULE MCTopic ------------------------------
(* Topic with its constants given by a .cfg, and the symmetry of its names. *)
EXTENDS Topic, TLC

Symmetry == Permutations(Publishers) \cup Permutations(Subs)
=============================================================================
