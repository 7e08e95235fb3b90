------------------------------ MODULE MCSidebar ------------------------------
(* Small instances of Sidebar. *)
EXTENDS Sidebar, TLC

CONSTANTS f1, f2, f3

\* f1, and f2 in it; a third folder may be created.
OneInOther == [f \in Folders |-> IF f = f1 THEN Root ELSE IF f = f2 THEN f1 ELSE Absent]

TextSymmetry == Permutations(Texts)
=============================================================================
