-------------------------- MODULE MCOffsetManager --------------------------
(* Small instances of OffsetManager for TLC. *)
EXTENDS OffsetManager

(* The groups "g" and "g:h", the topic "t": the key of "g:h" is read back  *)
(* as that of "g" with "h:t", the two then share it, and the pair of "g"   *)
(* with "t" is Distinct.                                                   *)
ColonGroups == {<<"g">>, <<"g", "h">>}
OneTopic == {<<"t">>}

(* What is left of several entries when one is read twice, and a key that  *)
(* nobody has committed.                                                   *)
ColonReadings == {[k \in {<<"g", "h", "t">>} |-> 1], [k \in {<<"g", "g", "t">>} |-> 0]}

Symmetry == Permutations(Threads)

=============================================================================
