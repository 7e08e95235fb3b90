---------------------------- MODULE MCFolderPlan ----------------------------
(* Instances of FolderPlan for model checking. *)
EXTENDS FolderPlan, TLC

CONSTANTS f1, f2, f3, f4, c1, c2

\* Two tabs of one user, who owns f2 and f3 and has a share on f1, which its owner
\* keeps in f2; f3 is in f4, on which the user has no right.
Rights == [c \in Client |-> [f \in Folder |->
    CASE f \in {f2, f3} -> "OWNER"
      [] f = f1 -> "EDIT"
      [] f = f4 -> "NONE"]]
Nested == [f \in Folder |-> CASE f = f1 -> f2 [] f = f3 -> f4 [] OTHER -> Root]

InOrder == <<f1, f2, f3, f4>>

\* f3 has the same name as f1.
SameNames == [f \in Folder |-> IF f = f3 THEN f1 ELSE f]

\* The tabs have the same rights.
Tabs == Permutations(Client)
=============================================================================
