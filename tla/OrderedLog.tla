----------------------------- MODULE OrderedLog -----------------------------
(***************************************************************************)
(* What a topic store promises its consumers, with everything about locks, *)
(* buffers and files left out.  Producers put records in one total order   *)
(* (log) and the store publishes them to consumers in exactly that order,  *)
(* each once (published).                                                  *)
(*                                                                         *)
(* If crashes are allowed (Lossy), one may lose a suffix of the log; what  *)
(* is left is published when the process is back, at the same offsets.     *)
(* The constant Durable says whether a published record may be among the   *)
(* lost ones: with Durable = TRUE this is the write-ahead promise of       *)
(* README.md:13 ("an in-memory log which is backed by a write-ahead log    *)
(* for durability").                                                       *)
(***************************************************************************)
EXTENDS Naturals, Sequences

CONSTANTS
  Records,   \* everything that can be logged
  Lossy,     \* a Boolean; TRUE: there are crashes
  Durable    \* a Boolean; TRUE: a crash never loses a published record

VARIABLES
  log,       \* the accepted records, in their final order
  published  \* the records a consumer can fetch, by offset

logVars == <<log, published>>

Init ==
  /\ log = <<>>
  /\ published = <<>>

Accept(r) ==
  /\ log' = Append(log, r)
  /\ UNCHANGED published

(* The next unpublished record becomes visible. *)
Reveal ==
  /\ Len(published) < Len(log)
  /\ published' = Append(published, log[Len(published) + 1])
  /\ UNCHANGED log

(* A crash keeps the first n records. *)
Lose(n) ==
  /\ Lossy
  /\ Durable => n >= Len(published)
  /\ log' = SubSeq(log, 1, n)
  /\ published' = log'

Next ==
  \/ \E r \in Records : Accept(r)
  \/ Reveal
  \/ \E n \in 0..Len(log) : Lose(n)

Spec == Init /\ [][Next]_logVars

=============================================================================
