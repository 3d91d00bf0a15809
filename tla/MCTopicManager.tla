--------------------------- MODULE MCTopicManager ---------------------------
(* Small instances of TopicManager for TLC. *)
EXTENDS TopicManager

Symmetry ==
  Permutations(Threads) \cup Permutations(Ids) \cup Permutations(Topics)
    \cup Permutations(Schemas)

=============================================================================
