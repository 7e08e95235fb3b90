----------------------------- MODULE FolderPlan -----------------------------
(***************************************************************************)
(* The folder sidebar: what the pure functions of lib/notes/folder-tree.ts *)
(* compute from a client's list of folders - the drop plan, the order of   *)
(* siblings, the path of a folder and back - and what happens to the       *)
(* folders when plans computed from lists that may be out of date reach    *)
(* PATCH /api/folders/reorder, which reads the tree, asks for the rights   *)
(* and writes in three steps that those of other requests may separate.    *)
(*                                                                         *)
(* A client is the tab of a user, whose folders are those it owns or has a *)
(* share on, with all that is in them.  Creations and deletions are single *)
(* steps here; their interleaving is the subject of FolderTree.            *)
(***************************************************************************)
EXTENDS Folders, FiniteSets, Sequences, SequencesExt

CONSTANTS
    Grant,       \* the right each client has been given on a folder itself
    NameOf,      \* the name of a folder, case and surrounding blanks removed
    Order,       \* all folders, sorted by name
    Start,       \* the parents to start from
    NoPlan,      \* null
    MaxWrites    \* bound on the number of successful requests

ASSUME OrderAssumption == Order \in Seq(Folder) /\ ToSet(Order) = Folder
Right == {"NONE", "VIEW", "EDIT", "OWNER"}
ASSUME GrantAssumption == Grant \in [Client -> [Folder -> Right]]

\* parentId is a foreign key, and no folders are one another's only ancestors.
Forest(p) ==
    /\ p \in [Folder -> Folder \cup {Root, Absent}] /\ Acyclic(p)
    /\ \A f \in Folder : p[f] \in Folder => p[p[f]] # Absent

ASSUME StartAssumption == Forest(Start)

VARIABLES
    rows,        \* the Folder table
    list,        \* the folders each client has fetched last
    sent,        \* the reorder request of each client, or NoPlan
    writes,      \* successful requests so far
    overtaken    \* history: was a reorder written although another one had been
                 \* written since it read the tree?

planVars == <<rows, list, sent, writes, overtaken>>

-----------------------------------------------------------------------------
(* Lists of folders *)

Has(l, f) == f \in Folder /\ l.parent[f] # Absent

ParentIn(l, f) == IF Has(l, f) THEN l.parent[f] ELSE Root

\* Mutant: the walk starts above the parent.
WalkMeetsFromGrandparent(l, ancestor, candidate) ==
    LET meets[walk \in (Folder \cup {Root}) \X SUBSET Folder] ==
            /\ walk[1] # Root /\ walk[1] \notin walk[2]
            /\ walk[1] = ancestor \/ meets[<<ParentIn(l, walk[1]), walk[2] \cup {walk[1]}>>]
    IN ancestor = candidate \/ meets[<<ParentIn(l, ParentIn(l, candidate)), {}>>]

\* isDescendant: the walk from candidate through its parents meets ancestor.  A
\* walk is where it is and what it has seen; it ends where it has been.
WalkMeets(l, ancestor, candidate) ==
    LET meets[walk \in (Folder \cup {Root}) \X SUBSET Folder] ==
            /\ walk[1] # Root /\ walk[1] \notin walk[2]
            /\ walk[1] = ancestor \/ meets[<<ParentIn(l, walk[1]), walk[2] \cup {walk[1]}>>]
    IN ancestor = candidate \/ meets[<<ParentIn(l, candidate), {}>>]

\* childrenOf: by position, then by name.
Index(f) == CHOOSE i \in 1 .. Len(Order) : Order[i] = f
Before(l, f, g) == \/ l.position[f] < l.position[g]
                   \/ l.position[f] = l.position[g] /\ Index(f) < Index(g)
Sorted(l, S) ==
    [i \in 1 .. Cardinality(S) |-> CHOOSE f \in S : Cardinality({g \in S : Before(l, g, f)}) = i - 1]
ChildrenOf(l, q) == Sorted(l, {f \in Folder : l.parent[f] = q})

\* buildFolderTree: folders whose parent is not in the list become roots.
TreeRoots(l) == {f \in Folder : Has(l, f) /\ ~Has(l, l.parent[f])}

\* What hangs below no root is not in the tree.
Shown(l) == {f \in Folder : Has(l, f) /\ \E r \in TreeRoots(l) : WalkMeets(l, r, f)}

-----------------------------------------------------------------------------
(* Paths *)

\* The loop of folderPath: where its cursor is after so many rounds.
Cursor(l, f) ==
    LET at[n \in Nat] == IF n = 0 THEN f ELSE ParentIn(l, at[n - 1]) IN at

\* The rounds until it is above the root or where it has been.
Ends(at, n) == at[n] = Root \/ \E m \in 0 .. n - 1 : at[m] = at[n]
Rounds(at) == CHOOSE n \in 1 .. Cardinality(Folder) : Ends(at, n) /\ \A m \in 1 .. n - 1 : ~Ends(at, m)

\* The folders from the root, or from the first unknown one, down to f.
Chain(l, f) ==
    LET at == Cursor(l, f)
        n == Rounds(at)
    IN [i \in 1 .. n |-> at[n - i]]

\* folderPath: the names on the chain, or nothing if a folder is unknown.
FolderPath(l, f) ==
    LET chain == Chain(l, f) IN
    IF \A i \in 1 .. Len(chain) : Has(l, chain[i])
    THEN [i \in 1 .. Len(chain) |-> NameOf[chain[i]]] ELSE <<>>

\* The first folder, as the list is ordered, of those.
First(l, hits) ==
    IF hits = {} THEN Absent ELSE CHOOSE f \in hits : \A g \in hits \ {f} : Before(l, f, g)

\* Mutant: the first folder of that name, wherever it is.
ResolveAnywhere(l, path) ==
    IF path = <<>> THEN Absent ELSE First(l, {f \in Folder : Has(l, f) /\ NameOf[f] = path[Len(path)]})

\* resolveFolderPath: down from the root, each time to the first folder of
\* that name; Absent if there is none.
ResolveFolderPath(l, path) ==
    LET at[i \in 0 .. Len(path)] ==
            IF i = 0 THEN Root
            ELSE First(l, {f \in Folder : Has(l, f) /\ l.parent[f] = at[i - 1] /\ NameOf[f] = path[i]})
    IN IF path = <<>> THEN Absent ELSE at[Len(path)]

\* The folder whose notes are listed once f has been clicked: NotesShell keeps
\* the path of f in the URL and resolves it.
Selected(l, f) == ResolveFolderPath(l, FolderPath(l, f))

-----------------------------------------------------------------------------
(* Plans *)

Mode == {"before", "inside", "after"}

Place(s, target, mode) ==
    LET i == CHOOSE i \in 1 .. Len(s) : s[i] = target IN IF mode = "before" THEN i ELSE i + 1

\* The siblings of a plan, without the dragged folder.
Others(l, q, d) == {f \in Folder \ {d} : l.parent[f] = q}

\* Mutant: the place is looked up while the dragged folder is still in the list.
ComputeReorderUnfiltered(l, d, target, mode) ==
    LET parent == IF mode = "inside" THEN target ELSE l.parent[target]
        others == Sorted(l, Others(l, parent, d))
        at == IF mode = "inside" THEN Len(others) + 1 ELSE Place(ChildrenOf(l, parent), target, mode)
    IN IF d = target \/ (parent # Root /\ WalkMeets(l, d, parent)) THEN NoPlan
       ELSE [parent |-> parent,
             ids |-> InsertAt(others, IF at > Len(others) + 1 THEN Len(others) + 1 ELSE at, d)]

\* computeReorder.
ComputeReorder(l, d, target, mode) ==
    LET parent == IF mode = "inside" THEN target ELSE l.parent[target]
        others == Sorted(l, Others(l, parent, d))
        at == IF mode = "inside" THEN Len(others) + 1 ELSE Place(others, target, mode)
    IN IF d = target \/ (parent # Root /\ WalkMeets(l, d, parent)) THEN NoPlan
       ELSE [parent |-> parent, ids |-> InsertAt(others, at, d)]

\* computeRootReorder.
ComputeRootReorder(l, d) == [parent |-> Root, ids |-> Append(Sorted(l, Others(l, Root, d)), d)]

\* isNoopReorder.
IsNoopReorder(l, plan) == ChildrenOf(l, plan.parent) = plan.ids

-----------------------------------------------------------------------------
(* The lists of the clients *)

\* The folders S of a list.
Part(l, S) ==
    [parent |-> [f \in Folder |-> IF f \in S THEN l.parent[f] ELSE Absent],
     position |-> [f \in Folder |-> IF f \in S THEN l.position[f] ELSE 0]]

\* A right on a folder extends to what is in it.
Reaches(c, f, rights) ==
    /\ Has(rows, f)
    /\ \E g \in Folder : Grant[c][g] \in rights /\ Has(rows, g) /\ WalkMeets(rows, g, f)

\* What the server lists for a client: what it owns or has a share on, with
\* everything below.
Listing(c) == Part(rows, {f \in Folder : Reaches(c, f, {"VIEW", "EDIT", "OWNER"})})

CanEdit(c, f) == Reaches(c, f, {"EDIT", "OWNER"})

\* partitionSharedFolders: the section of a client's own folders has all but
\* those it has a share on and those below them.
OwnFolders(c, l) ==
    {f \in Folder : Has(l, f) /\ \A g \in Folder :
        Grant[c][g] \in {"VIEW", "EDIT"} /\ Has(l, g) => ~WalkMeets(l, g, f)}
OwnSection(c, l) == Part(l, OwnFolders(c, l))
SharedSection(c, l) == Part(l, Folder \ OwnFolders(c, l))

PlanInit ==
    /\ rows = [parent |-> Start, position |-> [f \in Folder |-> 0]]
    /\ list = [c \in Client |-> Listing(c)]
    /\ sent = [c \in Client |-> NoPlan]
    /\ writes = 0
    /\ overtaken = FALSE

\* refreshFolders.
Refresh(c) ==
    /\ list' = [list EXCEPT ![c] = Listing(c)]
    /\ UNCHANGED <<rows, sent, writes, overtaken>>

-----------------------------------------------------------------------------
(* Requests *)

\* A request carries the plan; the route refuses a list of ids with repetitions,
\* which no plan has.  stage: what the route has done; stale: has a reorder been
\* written since it read the tree?  What was dropped where, and whether the list
\* it was computed from is still what the server has, is for properties only.
PlanRequest == [parent: Folder \cup {Root}, ids: Seq(Folder), dragged: Folder,
                target: Folder \cup {Root}, mode: Mode, current: BOOLEAN,
                stage: {"sent", "read", "allowed"}, stale: BOOLEAN]

ASSUME NoPlanAssumption == NoPlan \notin PlanRequest

\* l is the list that the plan was computed from.
Send(c, l, plan, d, target, mode) ==
    /\ plan # NoPlan /\ ~IsNoopReorder(l, plan)
    /\ sent' = [sent EXCEPT ![c] =
            [parent |-> plan.parent, ids |-> plan.ids, dragged |-> d, target |-> target,
             mode |-> mode, current |-> list[c] = Listing(c), stage |-> "sent", stale |-> FALSE]]
    /\ UNCHANGED <<rows, list, writes, overtaken>>

\* applyDrop: a row of the own section is dropped on another one or on the root.
Drop(c, d) ==
    LET l == OwnSection(c, list[c]) IN
    /\ sent[c] = NoPlan
    /\ Has(l, d)
    /\ \/ \E target \in Folder, mode \in Mode :
             /\ Has(l, target)
             /\ Send(c, l, ComputeReorder(l, d, target, mode), d, target, mode)
       \/ Send(c, l, ComputeRootReorder(l, d), d, Root, "inside")

Served(c) == [sent EXCEPT ![c] = NoPlan]
Refuse(c) == sent' = Served(c) /\ UNCHANGED <<rows, list, writes, overtaken>>

\* The folders a plan names are in the table.
AllThere(plan) ==
    /\ \A f \in ToSet(plan.ids) : Has(rows, f)
    /\ plan.parent # Root => Has(rows, plan.parent)

\* Mutant: the guard of the client is relied upon.
ReadReorderUnguarded(c) ==
    LET plan == sent[c] IN
    /\ plan # NoPlan /\ plan.stage = "sent"
    /\ IF AllThere(plan)
       THEN /\ sent' = [sent EXCEPT ![c] = [plan EXCEPT !.stage = "read"]]
            /\ UNCHANGED <<rows, list, writes, overtaken>>
       ELSE Refuse(c)

\* PATCH /api/folders/reorder reads the tree: the folders must be in this copy,
\* and on this copy the guard is evaluated, whose answer the next step cannot
\* change ...
ReadReorder(c) ==
    LET plan == sent[c] IN
    /\ plan # NoPlan /\ plan.stage = "sent"
    /\ IF AllThere(plan) /\ (plan.parent # Root =>
            \A f \in ToSet(plan.ids) : ~WalkMeets(rows, f, plan.parent))
       THEN /\ sent' = [sent EXCEPT ![c] = [plan EXCEPT !.stage = "read"]]
            /\ UNCHANGED <<rows, list, writes, overtaken>>
       ELSE Refuse(c)

\* ... asks for the right to each folder and to the parent ...
AllowReorder(c) ==
    LET plan == sent[c] IN
    /\ plan # NoPlan /\ plan.stage = "read"
    /\ IF /\ \A f \in ToSet(plan.ids) : CanEdit(c, f)
          /\ plan.parent # Root => CanEdit(c, plan.parent)
       THEN /\ sent' = [sent EXCEPT ![c] = [plan EXCEPT !.stage = "allowed"]]
            /\ UNCHANGED <<rows, list, writes, overtaken>>
       ELSE Refuse(c)

\* A request under way once the Folder table has changed, by a reorder or else.
Marked(plan, moved) ==
    [plan EXCEPT !.current = FALSE, !.stale = plan.stale \/ (moved /\ plan.stage # "sent")]

\* The Folder table has changed.
Write(new, pending, moved) ==
    /\ writes < MaxWrites
    /\ writes' = writes + 1
    /\ rows' = new
    /\ sent' = [c \in Client |-> IF pending[c] = NoPlan THEN NoPlan ELSE Marked(pending[c], moved)]
    /\ UNCHANGED list

Reordered(plan) ==
    LET ids == ToSet(plan.ids) IN
    [parent |-> [f \in Folder |-> IF f \in ids THEN plan.parent ELSE rows.parent[f]],
     position |-> [f \in Folder |->
         IF f \in ids THEN (CHOOSE i \in 1 .. Len(plan.ids) : plan.ids[i] = f) - 1
         ELSE rows.position[f]]]

\* ... and writes in one transaction, which fails if a folder is gone.
WriteReorder(c) ==
    LET plan == sent[c] IN
    /\ plan # NoPlan /\ plan.stage = "allowed"
    /\ IF AllThere(plan)
       THEN Write(Reordered(plan), Served(c), TRUE) /\ overtaken' = (overtaken \/ plan.stale)
       ELSE Refuse(c)

\* Ids are not used again: no list and no request names the folder.
Unheard(f) ==
    \A c \in Client :
        /\ \A g \in Folder : list[c].parent[g] # f
        /\ ~Has(list[c], f)
        /\ sent[c] # NoPlan => f \notin ToSet(sent[c].ids) \cup {sent[c].parent, sent[c].target}

\* POST /api/folders, by the owner to be: at the default position 0.
Create(c, f, q) ==
    /\ ~Has(rows, f) /\ Unheard(f) /\ Grant[c][f] = "OWNER"
    /\ q = Root \/ CanEdit(c, q)
    /\ Write([rows EXCEPT !.parent[f] = q, !.position[f] = 0], sent, FALSE)
    /\ UNCHANGED overtaken

\* DELETE /api/folders/[id] of a folder without children.
Delete(f) ==
    /\ Has(rows, f) /\ \A g \in Folder : rows.parent[g] # f
    /\ Write([rows EXCEPT !.parent[f] = Absent, !.position[f] = 0], sent, FALSE)
    /\ UNCHANGED overtaken

PlanNext ==
    \/ \E c \in Client :
        \/ Refresh(c) \/ ReadReorder(c) \/ AllowReorder(c) \/ WriteReorder(c)
        \/ \E d \in Folder : Drop(c, d)
        \/ \E f \in Folder, q \in Folder \cup {Root} : Create(c, f, q)
    \/ \E f \in Folder : Delete(f)

PlanSpec == PlanInit /\ [][PlanNext]_planVars

-----------------------------------------------------------------------------
(* Properties *)

\* Every folder a client has fetched has a row in one of the two sections of its
\* sidebar, until a reorder is written on top of another one that its guard has
\* not seen: but for that race no drop, however old the list it was computed
\* from and whatever is written between the steps of its request, makes a
\* cycle, and what hangs below a folder the client may not see, or below one
\* of the other section, becomes a root.
\* (folder-tree.ts:23-42, shared-folders.ts:9-35, reorder/route.ts:51-99)
EverythingShown ==
    overtaken \/ \A c \in Client : \A f \in Folder :
        Has(list[c], f) => f \in Shown(OwnSection(c, list[c])) \cup Shown(SharedSection(c, list[c]))

\* A drop on a sidebar that is up to date, to the root or into a folder of the
\* own section, is accepted and does what it shows: in that section the dragged
\* folder lands beside its target, or last in it, nothing else changes its
\* parent, and no other siblings change their order, be they in the section or
\* outside.  A table that races have put a cycle in is excepted.
\* (folder-tree.ts:163-203, FolderTree.tsx:169-192, reorder/route.ts:51-99)
Siblings(l, f, g) == l.parent[f] = l.parent[g]
Adjacent(l, S, f, g) ==
    /\ Siblings(l, f, g) /\ Before(l, f, g)
    /\ \A h \in S : ~(Siblings(l, f, h) /\ Before(l, f, h) /\ Before(l, h, g))
LandsAs(r, own) ==
    CASE r.mode = "inside" ->
            /\ rows'.parent[r.dragged] = r.target
            /\ \A f \in own \ {r.dragged} :
                 rows'.parent[f] = r.target => Before(rows', f, r.dragged)
      [] r.mode = "before" -> Adjacent(rows', own, r.dragged, r.target)
      [] r.mode = "after" -> Adjacent(rows', own, r.target, r.dragged)
OthersStay(d, own) ==
    /\ \A f \in Folder \ {d} : rows'.parent[f] = rows.parent[f]
    /\ \A f, g \in Folder \ {d} :
         Siblings(rows', f, g) /\ (f \in own <=> g \in own) => (Before(rows', f, g) <=> Before(rows, f, g))
Handled(c) == sent[c] # NoPlan /\ sent'[c] = NoPlan
DropLands(c) ==
    LET r == sent[c]
        own == OwnFolders(c, Listing(c))
    IN Handled(c) /\ r.current /\ r.parent \in own \cup {Root} /\ Acyclic(rows.parent)
         => LandsAs(r, own) /\ OthersStay(r.dragged, own)
FreshDropLands == [][\A c \in Client : DropLands(c)]_planVars

\* isDescendant decides what Folders states of it: the ancestor is in every
\* set of folders that has the candidate and, with a folder, its parent - on
\* lists with unknown parents and with cycles as well. (folder-tree.ts:90-106)
DescendantAgrees ==
    \A c \in Client : \A a, f \in Folder : WalkMeets(list[c], a, f) = IsDescendant(list[c].parent, a, f)

\* The path of a folder leads back to it wherever the path is unambiguous: the
\* folders on it are all listed, no two siblings have the same name and the
\* list has no cycle. (folder-tree.ts:224-267)
Unambiguous(l) ==
    \A f, g \in Folder : Has(l, f) /\ f # g /\ l.parent[f] = l.parent[g] => NameOf[f] # NameOf[g]
PathsLeadBack ==
    \A c \in Client : Unambiguous(list[c]) /\ Acyclic(list[c].parent) =>
        \A f \in Folder : FolderPath(list[c], f) # <<>> => Selected(list[c], f) = f

=============================================================================
