------------------------------- MODULE Folders -------------------------------
(***************************************************************************)
(* What FolderTree and FolderPlan say of folders alike.  A tree is given   *)
(* by the parent of every folder.                                          *)
(***************************************************************************)
EXTENDS Naturals

CONSTANTS
    Folder,      \* folder ids, those of folders yet to be created included
    Client,      \* those who send requests: browser tabs
    Root,        \* parentId null
    Absent       \* in place of a parent: there is no such folder

ASSUME OutsideAssumption == Root \notin Folder /\ Absent \notin Folder /\ Root # Absent

\* Every folder in S has its parent in S, if it has one.
UpClosed(p, S) == \A f \in S : p[f] \in Folder => p[f] \in S

\* What isDescendant decides: the walk from c through its parents meets a.  The
\* folders of that walk are the least upward closed set that c is in.
IsDescendant(p, a, c) == \A S \in SUBSET Folder : c \in S /\ UpClosed(p, S) => a \in S

\* No folders are one another's only ancestors.
Acyclic(p) == \A S \in SUBSET Folder : S # {} => \E f \in S : p[f] \notin S
=============================================================================
