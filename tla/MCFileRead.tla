----------------------------- MODULE MCFileRead -----------------------------
(* Values for model-checking FileRead: the AND of two words, bit by bit. *)
EXTENDS FileRead, Bitwise

BitAnd(a, b) == a & b

=============================================================================
