---------------------------- MODULE MCFolderTree ----------------------------
(* Instances of FolderTree for model checking. *)
EXTENDS FolderTree

CONSTANTS f1, f2, f4, n1, c1, c2

\* A chain of two folders, and one yet to be created.
Chain == [f \in Folder |-> CASE f = f1 -> Root [] f = f2 -> f1 [] OTHER -> Absent]

\* Bulk moves by one client and everything else by the other.
BulkAndOthers == [c \in Client |-> IF c = c1 THEN {"reorder"}
                                           ELSE {"patch", "create", "delete", "file"}]
=============================================================================
