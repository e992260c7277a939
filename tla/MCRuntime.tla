------------------------------ MODULE MCRuntime ------------------------------
(* Model-checking instance of Runtime: one command per attempt of App.Run. *)
EXTENDS Runtime, TLC

Symmetry == Permutations(Cmds)
=============================================================================
