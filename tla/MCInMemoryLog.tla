--------------------------- MODULE MCInMemoryLog ---------------------------
(* Small instances of InMemoryLog for TLC. *)
EXTENDS InMemoryLog

Symmetry == Permutations(Threads)

=============================================================================
