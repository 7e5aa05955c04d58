-------------------------- MODULE MCUniqueConstraint --------------------------
(* Small instances of UniqueConstraint for TLC. *)
EXTENDS UniqueConstraint, TLC

Symmetry == Permutations(Res) \cup Permutations(Writer) \cup Permutations(Val)

=============================================================================
