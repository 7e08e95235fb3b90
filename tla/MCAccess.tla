------------------------------ MODULE MCAccess ------------------------------
(* Instances of Access for model checking. *)
EXTENDS Access, TLC

CONSTANTS ann, bob, n1, n2, f1, f2, f3

Own(u, p) == [owner |-> u, parent |-> p]
Row(x, y, z) == [f \in Folder |-> CASE f = f1 -> x [] f = f2 -> y [] f = f3 -> z]
Filed(f) == [n \in Note |-> IF n = n1 THEN [author |-> ann, folder |-> f, archived |-> FALSE] ELSE None]
Shared(x, a, until) == [on |-> x, to |-> bob, access |-> a, until |-> until, by |-> ann, made |-> 0]

\* A tree of ann's as deep as the chain reaches, with a folder of bob's one
\* deeper, and a share for bob at the top (he has shared the note back), on the
\* note, or lower down.
SmallSeeds ==
    {[folder |-> Row(Own(ann, None), Own(ann, f1), Own(bob, f2)), note |-> Filed(f2), shares |-> s] :
        s \in {{Shared(f1, EDIT, Forever), [Shared(n1, VIEW, Forever) EXCEPT !.to = ann, !.by = bob]},
               {Shared(n1, EDIT, 1)},
               {Shared(f2, VIEW, Forever)}}}

\* What changes the rights of the other, and what those rights are for.
Roles == [u \in User |->
            IF u = ann THEN {"file", "move", "share", "revoke", "rmdir", "destroy"}
            ELSE {"read", "edit", "archive", "restore", "file", "copy", "create", "mkdir", "token", "revoke"}]
=============================================================================
