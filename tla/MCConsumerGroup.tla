-------------------------- MODULE MCConsumerGroup --------------------------
(* Small instances of ConsumerGroup for TLC; liveness rules symmetry out. *)
EXTENDS ConsumerGroup

=============================================================================
