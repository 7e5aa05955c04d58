------------------------- MODULE MCRevisionLifecycle -------------------------
(* Small instances of RevisionLifecycle for TLC. *)
EXTENDS RevisionLifecycle, TLC

\* versions whose string order is their deployment order ("v1" < "v2")
InOrder == [s \in Sv |-> s]

\* versions "v9", "v10", ...: the newest is the smallest string
Reversed == [s \in Sv |-> MaxSv - s]

Symmetry == Permutations(Value)

=============================================================================
