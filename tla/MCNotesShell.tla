---------------------------- MODULE MCNotesShell ----------------------------
(* Small instances of NotesShell. *)
EXTENDS NotesShell, TLC

\* Nothing tells two folders apart but what is in them.
MCSymmetry == Permutations(Folders)
=============================================================================
