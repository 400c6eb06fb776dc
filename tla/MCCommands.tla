----------------------------- MODULE MCCommands -----------------------------
(***************************************************************************)
(* An instance of Commands for TLC: two parents, configurations that share *)
(* both halves, one half or none.                                          *)
(***************************************************************************)
EXTENDS Commands, TLC

Config(a, b) == [k \in Kinds |-> IF k = "database" THEN a ELSE b]
TwoPaths == {1, 2}
SharedHalves == {Config(1, 1), Config(1, 2), Config(2, 1)}
CommandSymmetry == Permutations(Procs) \cup Permutations(Dirs) \cup Permutations(Files)
                     \cup Permutations(Trees)
=============================================================================
