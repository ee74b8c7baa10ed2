--------------------------- MODULE MCNotesOutbox ---------------------------
(* Small instances of NotesOutbox for TLC. *)
EXTENDS NotesOutbox, TLC

\* The pages of a device are alike.
TabSymmetry == Permutations(Tabs)
=============================================================================
