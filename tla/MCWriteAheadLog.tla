-------------------------- MODULE MCWriteAheadLog --------------------------
(* Small instances of WriteAheadLog for TLC; liveness rules symmetry out. *)
EXTENDS WriteAheadLog

=============================================================================
