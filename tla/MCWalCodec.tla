----------------------------- MODULE MCWalCodec -----------------------------
(* Small instances of WalCodec for TLC. *)
EXTENDS WalCodec

(* A byte is 0 to 3: the indicators, the newline, and one that is no text. *)
SomeText == {0, 1, 2}

(* The second name reads as a name, a newline and an indicator.            *)
SomeNames == {<<1>>, <<1, 2, 1>>}

(* No bytes, a newline, and the bytes of a whole record.                   *)
SomePayloads == {<<>>, <<2>>, <<1, 2, 0, 0, 0>>}

(* The length of the first takes both bytes; the last byte is the mark.    *)
SomeStreams == {<<3, 2, 0, 3>>, <<1, 3>>}

(* A schema and nothing behind it.                                         *)
SchemaOnly == {<<0, 0>>}

=============================================================================
