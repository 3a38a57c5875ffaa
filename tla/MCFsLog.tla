------------------------------ MODULE MCFsLog ------------------------------
(* Values for model-checking FsLog: the AND of two words, bit by bit. *)
EXTENDS FsLog, Bitwise

BitAnd(a, b) == a & b

=============================================================================
