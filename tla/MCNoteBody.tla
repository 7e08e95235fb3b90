----------------------------- MODULE MCNoteBody -----------------------------
(* Instances of NoteBody for model checking. *)
EXTENDS NoteBody, TLC

CONSTANTS t1, t2, a1, u1, u2, u3

\* Text only.
Nothing == [u \in Update |-> NoAsset]
Keeps == [u \in Update |-> NoUpdate]

\* u1 embeds the asset, u2 removes it again, u3 embeds it anew (undo).
Embeds == [u \in Update |-> IF u = u2 THEN NoAsset ELSE a1]
Removes == [u \in Update |-> IF u = u2 THEN u1 ELSE NoUpdate]

TabSymmetry == Permutations(Tab)
=============================================================================
