---------------------------- MODULE MCFileWrite ----------------------------
(* FileWrite needs no definitions for TLC. *)
EXTENDS FileWrite

=============================================================================
