--------------------------- MODULE MCFolderCall ---------------------------
(* What the master asks for: the whole folder, or the files of some days. *)
EXTENDS FolderCall

Wanted == {AllFiles, <<2 * Q, 4 * Q - 1>>}
WholeFolder == {AllFiles}

=============================================================================
