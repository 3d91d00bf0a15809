-------------------------- MODULE MCHerbertServer --------------------------
(* Small instances of HerbertServer for TLC; liveness rules symmetry out. *)
EXTENDS HerbertServer

OneGroup == {<<"g">>}
OneTopic == {<<"t">>}

=============================================================================
