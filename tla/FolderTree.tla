----------------------------- MODULE FolderTree -----------------------------
(***************************************************************************)
(* The folder tree and the requests that change it: PATCH and DELETE       *)
(* /api/folders/[id], PATCH /api/folders/reorder, POST /api/folders and    *)
(* the filing of a note by PATCH /api/notes/[id].  Every route reads,      *)
(* decides and then writes without a transaction around the three, so      *)
(* that requests interleave between the reads and the write.               *)
(*                                                                         *)
(* All clients may edit all folders here, each has at most one request     *)
(* under way, and a folder that is Absent may yet be created.  The order   *)
(* of siblings is left to the module FolderPlan.                           *)
(***************************************************************************)
EXTENDS Folders

CONSTANTS
    Note,        \* notes
    Gone,        \* in place of a parent: the folder has been deleted
    Initial,     \* the tree to start from
    Ops          \* which of AllOps each client sends

ASSUME GoneAssumption == Gone \notin Folder \cup {Root, Absent}

AllOps == {"patch", "reorder", "create", "delete", "file"}
ASSUME OpsAssumption == Ops \in [Client -> SUBSET AllOps]

VARIABLES
    parent,      \* Folder.parentId
    filed,       \* Note.folderId
    req,         \* the request of each client
    raced        \* history: was a move written although another move had been
                 \* written since it read the tree?

vars == <<parent, filed, req, raced>>

-----------------------------------------------------------------------------
(* Trees *)

Tree == [Folder -> Folder \cup {Root, Absent, Gone}]

Exists(p, f) == p[f] \notin {Absent, Gone}

\* The tree is well formed: what has children exists.
Rooted(p) == \A f \in Folder : p[f] \in Folder => Exists(p, p[f])

ASSUME InitialAssumption == Initial \in Tree /\ Rooted(Initial) /\ Acyclic(Initial)

-----------------------------------------------------------------------------
Idle == [op |-> "idle", pc |-> "idle", ids |-> {}, note |-> {}, to |-> Root,
         seen |-> Initial, stale |-> FALSE]

\* ids: the folders that are moved, created or deleted; to: the new parent;
\* seen: the tree as read, while a check still needs it; stale: has a move been
\* written since it was read?
Request == [op: AllOps \cup {"idle"}, pc: {"idle", "read", "checked"}, ids: SUBSET Folder,
            note: SUBSET Note, to: Folder \cup {Root}, seen: Tree, stale: BOOLEAN]

TypeOK ==
    /\ parent \in Tree /\ Rooted(parent)
    /\ filed \in [Note -> Folder \cup {Root}]
    /\ \A n \in Note : filed[n] \in Folder => Exists(parent, filed[n])
    /\ req \in [Client -> Request]
    /\ raced \in BOOLEAN

Init ==
    /\ parent = Initial
    /\ filed = [n \in Note |-> Root]
    /\ req = [c \in Client |-> Idle]
    /\ raced = FALSE

Begin(c, op) == op \in Ops[c] /\ req[c] = Idle

Known(q) == q \in Folder => Exists(parent, q)

\* Those of the folders ms that would get an ancestor of theirs as a child.
Cyclic(p, ms, q) == q # Root /\ \E m \in ms : IsDescendant(p, m, q)

\* The request of c has passed its checks.
Checked(c, op, ids, note, to) ==
    req' = [req EXCEPT ![c] = [op |-> op, pc |-> "checked", ids |-> ids, note |-> note,
                               to |-> to, seen |-> Initial, stale |-> FALSE]]

Done(c) == req' = [req EXCEPT ![c] = Idle]

-----------------------------------------------------------------------------
(* Moving folders *)

\* Mutant: only the folder itself is refused as its parent.
CheckPatchSelfOnly(c, f, q) ==
    /\ Begin(c, "patch")
    /\ Exists(parent, f) /\ q # f /\ Known(q)
    /\ Checked(c, "patch", {f}, {}, q)
    /\ UNCHANGED <<parent, filed, raced>>

\* PATCH /api/folders/[id] with a parentId, up to the update: access to both
\* folders, then the tree is read and the guard evaluated.
CheckPatch(c, f, q) ==
    /\ Begin(c, "patch")
    /\ Exists(parent, f) /\ q # f /\ Known(q)
    /\ ~Cyclic(parent, {f}, q)
    /\ Checked(c, "patch", {f}, {}, q)
    /\ UNCHANGED <<parent, filed, raced>>

\* PATCH /api/folders/reorder reads the tree first ...
ReadTree(c, ms, q) ==
    /\ Begin(c, "reorder")
    /\ ms # {} /\ \A m \in ms : Exists(parent, m)
    /\ Known(q)
    /\ req' = [req EXCEPT ![c] = [op |-> "reorder", pc |-> "read", ids |-> ms, note |-> {},
                                  to |-> q, seen |-> parent, stale |-> FALSE]]
    /\ UNCHANGED <<parent, filed, raced>>

\* Mutant: the guard is left out.
CheckReorderUnguarded(c) ==
    LET r == req[c] IN
    /\ r.pc = "read"
    /\ IF Known(r.to) /\ \A m \in r.ids : Exists(parent, m)
       THEN req' = [req EXCEPT ![c].pc = "checked", ![c].seen = Initial]
       ELSE Done(c)
    /\ UNCHANGED <<parent, filed, raced>>

\* ... then resolves access, to folders that may be gone by now, and evaluates
\* the guard on the tree it has read.
CheckReorder(c) ==
    LET r == req[c] IN
    /\ r.pc = "read"
    /\ IF Known(r.to) /\ (\A m \in r.ids : Exists(parent, m)) /\ ~Cyclic(r.seen, r.ids, r.to)
       THEN req' = [req EXCEPT ![c] = [r EXCEPT !.pc = "checked", !.seen = Initial]]
       ELSE Done(c)
    /\ UNCHANGED <<parent, filed, raced>>

\* The tree after the move.
Move(p, ms, q) == [f \in Folder |-> IF f \in ms THEN q ELSE p[f]]

\* Mutant: an upsert brings a deleted folder back.
WriteMoveUpserts(c) ==
    LET r == req[c] IN
    /\ r.op \in {"patch", "reorder"} /\ r.pc = "checked"
    /\ IF Known(r.to)
       THEN /\ parent' = Move(parent, r.ids, r.to)
            /\ raced' = (raced \/ r.stale)
            /\ req' = [d \in Client |-> IF d = c \/ req[d] = Idle THEN Idle
                                        ELSE [req[d] EXCEPT !.stale = TRUE]]
       ELSE Done(c) /\ UNCHANGED <<parent, raced>>
    /\ UNCHANGED filed

\* The update or, for a reorder, the transaction of updates: it fails as a
\* whole when a folder it names is gone.
WriteMove(c) ==
    LET r == req[c] IN
    /\ r.op \in {"patch", "reorder"} /\ r.pc = "checked"
    /\ IF Known(r.to) /\ \A m \in r.ids : Exists(parent, m)
       THEN /\ parent' = Move(parent, r.ids, r.to)
            /\ raced' = (raced \/ r.stale)
            /\ req' = [d \in Client |-> IF d = c \/ req[d] = Idle THEN Idle
                                        ELSE [req[d] EXCEPT !.stale = TRUE]]
       ELSE Done(c) /\ UNCHANGED <<parent, raced>>
    /\ UNCHANGED filed

-----------------------------------------------------------------------------
(* Creating and deleting folders, filing notes *)

\* POST /api/folders: access to the parent, then the insert.
CheckCreate(c, f, q) ==
    /\ Begin(c, "create")
    /\ parent[f] = Absent /\ \A d \in Client : f \notin req[d].ids
    /\ Known(q)
    /\ Checked(c, "create", {f}, {}, q)
    /\ UNCHANGED <<parent, filed, raced>>

WriteCreate(c) ==
    LET r == req[c] IN
    /\ r.op = "create"
    /\ parent' = IF Known(r.to) THEN Move(parent, r.ids, r.to) ELSE parent
    /\ Done(c)
    /\ UNCHANGED <<filed, raced>>

\* DELETE /api/folders/[id] counts what is in the folder ...
CheckDelete(c, f) ==
    /\ Begin(c, "delete")
    /\ Exists(parent, f)
    /\ \A g \in Folder : parent[g] # f
    /\ \A n \in Note : filed[n] # f
    /\ Checked(c, "delete", {f}, {}, Root)
    /\ UNCHANGED <<parent, filed, raced>>

\* Mutant: the references to a deleted folder stay.
WriteDeleteKeepsReferences(c) ==
    LET r == req[c] IN
    /\ r.op = "delete"
    /\ parent' = [f \in Folder |-> IF f \in r.ids THEN Gone ELSE parent[f]]
    /\ Done(c)
    /\ UNCHANGED <<filed, raced>>

\* ... and deletes it by id later; references to it become null (SetNull).
WriteDelete(c) ==
    LET r == req[c] IN
    /\ r.op = "delete"
    /\ parent' = [f \in Folder |-> IF f \in r.ids THEN Gone
                                   ELSE IF parent[f] \in r.ids THEN Root ELSE parent[f]]
    /\ filed' = [n \in Note |-> IF filed[n] \in r.ids THEN Root ELSE filed[n]]
    /\ Done(c)
    /\ UNCHANGED raced

\* PATCH /api/notes/[id] with a folderId.
CheckFile(c, n, q) ==
    /\ Begin(c, "file")
    /\ Known(q)
    /\ Checked(c, "file", {}, {n}, q)
    /\ UNCHANGED <<parent, filed, raced>>

WriteFile(c) ==
    LET r == req[c] IN
    /\ r.op = "file"
    /\ filed' = IF Known(r.to) THEN [n \in Note |-> IF n \in r.note THEN r.to ELSE filed[n]]
                ELSE filed
    /\ Done(c)
    /\ UNCHANGED <<parent, raced>>

-----------------------------------------------------------------------------
Next ==
    \E c \in Client :
        \/ \E f \in Folder, q \in Folder \cup {Root} : CheckPatch(c, f, q) \/ CheckCreate(c, f, q)
        \/ \E ms \in SUBSET Folder, q \in Folder \cup {Root} : ReadTree(c, ms, q)
        \/ \E f \in Folder : CheckDelete(c, f)
        \/ \E n \in Note, q \in Folder \cup {Root} : CheckFile(c, n, q)
        \/ CheckReorder(c) \/ WriteMove(c)
        \/ WriteCreate(c) \/ WriteDelete(c) \/ WriteFile(c)

Spec == Init /\ [][Next]_vars

-----------------------------------------------------------------------------
(* Properties *)

\* Cycles come from racing moves alone: until a move is written on top of a
\* move that its check has not seen, the tree stays a tree, through bulk moves
\* and whatever is created, deleted and filed between a check and its write.
\* (folders/[id]/route.ts:86-110, folders/reorder/route.ts:51-95)
OnlyRacesMakeCycles == raced \/ Acyclic(parent)

\* A folder that has been deleted stays deleted, even for moves and creations
\* that were checked before.
GoneStaysGone == [][\A f \in Folder : parent[f] = Gone => parent'[f] = Gone]_parent

=============================================================================
