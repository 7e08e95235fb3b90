---------------------------- MODULE FolderTreeProofs ---------------------------
(***************************************************************************)
(* Proofs about FolderTree and FolderPlan, for any sets of folders, notes  *)
(* and clients.                                                            *)
(*                                                                         *)
(* The argument for FolderTree: what a check has established about the     *)
(* tree it read is still true of the current tree when the move is         *)
(* written, unless another move was written in between.  Creating a folder *)
(* adds a leaf; deleting one only cuts links; neither brings a folder      *)
(* below another.                                                          *)
(*                                                                         *)
(* For FolderPlan, whose isDescendant walks with a set of visited folders: *)
(* what the walk decides satisfies the equation of the walk when it is     *)
(* stated over closed sets, and only one function does, since the visited  *)
(* set grows.  So its guards are those of FolderTree and the lemmas on     *)
(* trees apply to its rows: what the guard has found on the tree it read   *)
(* holds until another reorder is written.  The list of a client is cut    *)
(* out of the rows, and its two sections are cut out of the list.          *)
(*                                                                         *)
(* What a drop does: siblings are sorted by rank, which lists each of them *)
(* once in a strict total order; a plan is that list with one more folder  *)
(* in it; and a request whose list is still what the server has is a plan  *)
(* of its section, since every write marks the requests under way.  The    *)
(* route accepts it: the folders between two of a section are in it too,   *)
(* and it owns what is in it or has it in a folder it owns.                *)
(*                                                                         *)
(* What a path does: the cursor ends above the root because it cannot go   *)
(* round in a tree, and the resolver, going down, meets the folders of the *)
(* cursor in reverse, one at a time, since names tell siblings apart.      *)
(***************************************************************************)
EXTENDS FolderTree, FolderPlan, FiniteSetTheorems, WellFoundedInduction, TLAPS

USE DEF Exists

-----------------------------------------------------------------------------
(* Trees *)

\* A bulk move keeps a tree a tree if the new parent is below none of the
\* folders moved.
LEMMA MoveKeepsAcyclic ==
    ASSUME NEW p \in Tree, Acyclic(p), NEW ms \in SUBSET Folder,
           NEW q \in Folder \cup {Root}, ~Cyclic(p, ms, q)
    PROVE  Acyclic(Move(p, ms, q))
<1> SUFFICES ASSUME NEW S \in SUBSET Folder, S # {},
                    \A f \in S : Move(p, ms, q)[f] \in S
             PROVE FALSE
    BY DEF Acyclic
<1>1. \A f \in S : IF f \in ms THEN q \in S ELSE p[f] \in S
    BY DEF Move
<1>2. PICK m \in S : m \in ms
    BY <1>1 DEF Acyclic
<1>3. q \in S /\ q \in Folder /\ q # Root
    BY <1>1, <1>2, OutsideAssumption, GoneAssumption
\* Above q there is none of ms.
<1> DEFINE Up == {f \in Folder : IsDescendant(p, f, q)}
<1>4. q \in Up
    BY <1>3 DEF IsDescendant
<1>5. \A f \in ms : f \notin Up
    BY <1>3 DEF Cyclic
<1>6. UpClosed(p, Up)
    BY DEF UpClosed, IsDescendant
<1>7. Up \cap S # {} /\ Up \cap S \in SUBSET Folder
    BY <1>3, <1>4
<1>8. \A f \in Up \cap S : p[f] \in Up \cap S
    BY <1>1, <1>5, <1>6 DEF UpClosed
<1> QED
    BY <1>7, <1>8 DEF Acyclic

\* Cutting links off keeps a tree a tree and brings nothing below anything.
Cut(p, q) == \A f \in Folder : q[f] = p[f] \/ q[f] \notin Folder

LEMMA CutKeepsAcyclic ==
    ASSUME NEW p \in Tree, NEW q \in Tree, Cut(p, q), Acyclic(p)
    PROVE  Acyclic(q)
BY DEF Acyclic, Cut

LEMMA CutKeepsApart ==
    ASSUME NEW p \in Tree, NEW q \in Tree, Cut(p, q),
           NEW a, NEW c \in Folder, ~IsDescendant(p, a, c)
    PROVE  ~IsDescendant(q, a, c)
BY DEF IsDescendant, UpClosed, Cut

\* New leaves: folders that had not been created get a parent that has.
Grown(p, q, new) ==
    /\ \A f \in Folder \ new : q[f] = p[f]
    /\ \A f \in new : p[f] = Absent /\ (q[f] \in Folder => Exists(p, q[f]))

LEMMA GrownKeepsAcyclic ==
    ASSUME NEW p \in Tree, NEW q \in Tree, NEW new \in SUBSET Folder,
           Grown(p, q, new), Rooted(p), Acyclic(p)
    PROVE  Acyclic(q)
<1> SUFFICES ASSUME NEW S \in SUBSET Folder, S # {}
             PROVE  \E f \in S : q[f] \notin S
    BY DEF Acyclic
<1>1. CASE S \subseteq new
    BY <1>1 DEF Grown
<1>2. CASE ~(S \subseteq new)
    <2>1. PICK f \in S \ new : p[f] \notin S \ new
        BY <1>2 DEF Acyclic
    <2>2. p[f] \notin S
        BY <2>1 DEF Grown, Rooted
    <2> QED BY <2>1, <2>2 DEF Grown
<1> QED BY <1>1, <1>2

LEMMA GrownKeepsApart ==
    ASSUME NEW p \in Tree, NEW q \in Tree, NEW new \in SUBSET Folder,
           Grown(p, q, new), Rooted(p),
           NEW a, NEW c \in Folder \ new, ~IsDescendant(p, a, c)
    PROVE  ~IsDescendant(q, a, c)
<1>1. PICK S \in SUBSET Folder : c \in S /\ UpClosed(p, S) /\ a \notin S
    BY DEF IsDescendant
<1> DEFINE T == S \ new
<1>2. c \in T /\ a \notin T /\ T \in SUBSET Folder
    BY <1>1
<1>3. UpClosed(q, T)
    BY <1>1 DEF UpClosed, Grown, Rooted
<1> HIDE DEF T
<1> QED BY <1>2, <1>3 DEF IsDescendant

\* A check against an older tree p holds of the current tree q if since then
\* folders were only created, deleted or made roots.
Older(p, q) == \A f \in Folder : p[f] # Absent => q[f] \in {p[f], Root, Gone}

LEMMA OlderKeepsApart ==
    ASSUME NEW p \in Tree, NEW q \in Tree, Older(p, q), Rooted(p),
           NEW a, NEW c \in Folder, p[c] # Absent, ~IsDescendant(p, a, c)
    PROVE  ~IsDescendant(q, a, c)
<1>1. PICK S \in SUBSET Folder : c \in S /\ UpClosed(p, S) /\ a \notin S
    BY DEF IsDescendant
<1> DEFINE T == {f \in S : p[f] # Absent}
<1>2. c \in T /\ a \notin T /\ T \in SUBSET Folder
    BY <1>1
<1>3. UpClosed(q, T)
    BY <1>1, OutsideAssumption, GoneAssumption DEF UpClosed, Older, Rooted
<1> HIDE DEF T
<1> QED BY <1>2, <1>3 DEF IsDescendant

-----------------------------------------------------------------------------
(* The invariant *)

\* What the requests under way name: ids that were born, or that no other
\* request names while they are not.
NamesOK ==
    /\ \A c \in Client : \A f \in req[c].ids :
          IF req[c].op = "create" THEN parent[f] = Absent ELSE parent[f] # Absent
    /\ \A c, d \in Client : req[c].op = "create" /\ req[d].op = "create" /\ c # d
          => req[c].ids \cap req[d].ids = {}
    /\ \A c \in Client : req[c].to \in Folder => parent[req[c].to] # Absent

\* The tree a reorder has read is older than the current one by creations and
\* deletions alone, if no move was written since.
ReadOK ==
    \A c \in Client : req[c].pc = "read" /\ ~req[c].stale =>
        /\ Older(req[c].seen, parent)
        /\ Rooted(req[c].seen)
        /\ req[c].to \in Folder => req[c].seen[req[c].to] # Absent

\* What the check has established still holds if no move was written since.
CheckOK ==
    \A c \in Client :
        req[c].op \in {"patch", "reorder"} /\ req[c].pc = "checked" /\ ~req[c].stale
            => ~Cyclic(parent, req[c].ids, req[c].to)

Inv == TypeOK /\ NamesOK /\ ReadOK /\ CheckOK /\ OnlyRacesMakeCycles

LEMMA InitInv == Init => Inv
<1> SUFFICES ASSUME Init PROVE Inv
    OBVIOUS
<1>1. Idle \in Request
    BY InitialAssumption DEF Idle, Request
<1>2. TypeOK
    BY <1>1, InitialAssumption, OutsideAssumption, GoneAssumption DEF Init, TypeOK
<1>3. NamesOK /\ ReadOK /\ CheckOK
    BY OutsideAssumption, GoneAssumption DEF Init, NamesOK, ReadOK, CheckOK, Idle
<1>4. OnlyRacesMakeCycles
    BY InitialAssumption DEF Init, OnlyRacesMakeCycles
<1> QED BY <1>2, <1>3, <1>4 DEF Inv

\* A step that only answers a request.
LEMMA DoneInv ==
    ASSUME Inv, NEW c \in Client, Done(c), UNCHANGED <<parent, filed, raced>>
    PROVE  Inv'
<1>1. Idle \in Request
    BY InitialAssumption DEF Idle, Request
<1>2. TypeOK'
    BY <1>1 DEF Inv, TypeOK, Done
<1>3. \A d \in Client : req'[d] = req[d] \/ req'[d] = Idle
    BY DEF Inv, TypeOK, Done
<1>4. NamesOK'
    BY <1>3, OutsideAssumption, GoneAssumption DEF Inv, NamesOK, Idle
<1>5. ReadOK' /\ CheckOK'
    BY <1>3 DEF Inv, ReadOK, CheckOK, Idle
<1>6. OnlyRacesMakeCycles'
    BY DEF Inv, OnlyRacesMakeCycles
<1> QED BY <1>2, <1>4, <1>5, <1>6 DEF Inv

\* A step that accepts a request with ids ids and parent to.
LEMMA BeginInv ==
    ASSUME Inv, NEW c \in Client, NEW r \in Request, Known(r.to), r.stale = FALSE,
           req' = [req EXCEPT ![c] = r], UNCHANGED <<parent, filed, raced>>,
           \A f \in r.ids : IF r.op = "create"
                            THEN parent[f] = Absent /\ \A d \in Client : f \notin req[d].ids
                            ELSE parent[f] # Absent,
           r.pc = "read" => r.seen = parent,
           r.op \in {"patch", "reorder"} /\ r.pc = "checked" => ~Cyclic(parent, r.ids, r.to)
    PROVE  Inv'
<1>1. req'[c] = r /\ \A d \in Client \ {c} : req'[d] = req[d]
    BY DEF Inv, TypeOK
<1>2. TypeOK'
    BY DEF Inv, TypeOK
<1>3. NamesOK'
    BY <1>1 DEF Inv, NamesOK, Known
<1>4. ReadOK'
    <2>1. Older(parent, parent) /\ Rooted(parent)
        BY DEF Inv, TypeOK, Older
    <2> QED BY <1>1, <2>1 DEF Inv, ReadOK, Known
<1>5. CheckOK'
    BY <1>1 DEF Inv, CheckOK
<1>6. OnlyRacesMakeCycles'
    BY DEF Inv, OnlyRacesMakeCycles
<1> QED BY <1>2, <1>3, <1>4, <1>5, <1>6 DEF Inv

LEMMA CheckReorderInv ==
    ASSUME Inv, NEW c \in Client, CheckReorder(c)
    PROVE  Inv'
<1> DEFINE r == req[c]
           good == [r EXCEPT !.pc = "checked", !.seen = Initial]
<1>1. CASE Done(c)
    BY <1>1, DoneInv DEF CheckReorder
<1>2. CASE /\ Known(r.to) /\ ~Cyclic(r.seen, r.ids, r.to)
           /\ req' = [req EXCEPT ![c] = good]
    <2>0. r \in Request /\ r.pc = "read" /\ UNCHANGED <<parent, filed, raced>>
        BY <1>2 DEF CheckReorder, Inv, TypeOK
    <2>1. /\ good \in Request /\ good.pc = "checked" /\ good.op = r.op /\ good.ids = r.ids
          /\ good.to = r.to /\ good.stale = r.stale
        BY <2>0, InitialAssumption DEF Request
    <2>2. req'[c] = good /\ \A d \in Client \ {c} : req'[d] = req[d]
        BY <1>2 DEF Inv, TypeOK
    <2>3. TypeOK'
        BY <1>2, <2>0, <2>1 DEF Inv, TypeOK
    <2>4. NamesOK'
        <3>1. \A d \in Client : req'[d].op = req[d].op /\ req'[d].ids = req[d].ids
                                  /\ req'[d].to = req[d].to
            BY <2>1, <2>2
        <3> QED BY <2>0, <3>1 DEF Inv, NamesOK
    <2>5. ReadOK'
        BY <2>0, <2>1, <2>2 DEF Inv, ReadOK
    <2>6. ~r.stale => ~Cyclic(parent, r.ids, r.to)
        <3> SUFFICES ASSUME ~r.stale, r.to # Root, NEW m \in r.ids
                     PROVE ~IsDescendant(parent, m, r.to)
            BY DEF Cyclic
        <3>1. r.to \in Folder /\ r.seen \in Tree /\ m \in Folder /\ parent \in Tree
            BY <2>0 DEF Request, Inv, TypeOK
        <3>2. Older(r.seen, parent) /\ Rooted(r.seen) /\ r.seen[r.to] # Absent
            BY <2>0, <3>1 DEF Inv, ReadOK
        <3>3. ~IsDescendant(r.seen, m, r.to)
            BY <1>2 DEF Cyclic
        <3> QED BY <3>1, <3>2, <3>3, OlderKeepsApart
    <2>7. CheckOK'
        <3> HIDE DEF good
        <3> SUFFICES ASSUME NEW d \in Client,
                            req'[d].op \in {"patch", "reorder"}, req'[d].pc = "checked", ~req'[d].stale
                     PROVE  ~Cyclic(parent, req'[d].ids, req'[d].to)
            BY <2>0 DEF CheckOK, Cyclic, IsDescendant
        <3>1. CASE d = c
            BY <2>1, <2>2, <2>6, <3>1
        <3>2. CASE d # c
            BY <2>2, <3>2 DEF Inv, CheckOK
        <3> QED BY <3>1, <3>2
    <2>8. OnlyRacesMakeCycles'
        BY <2>0 DEF Inv, OnlyRacesMakeCycles
    <2> QED BY <2>3, <2>4, <2>5, <2>7, <2>8 DEF Inv
<1> QED BY <1>1, <1>2 DEF CheckReorder

LEMMA WriteMoveInv ==
    ASSUME Inv, NEW c \in Client, WriteMove(c)
    PROVE  Inv'
<1> DEFINE r == req[c]
<1>0. r \in Request /\ r.op \in {"patch", "reorder"} /\ r.pc = "checked" /\ UNCHANGED filed
    BY DEF WriteMove, Inv, TypeOK
<1>1. CASE Done(c) /\ UNCHANGED <<parent, raced>>
    BY <1>0, <1>1, DoneInv
<1>2. CASE /\ Known(r.to) /\ \A m \in r.ids : Exists(parent, m)
           /\ parent' = Move(parent, r.ids, r.to)
           /\ raced' = (raced \/ r.stale)
           /\ req' = [d \in Client |-> IF d = c \/ req[d] = Idle THEN Idle
                                       ELSE [req[d] EXCEPT !.stale = TRUE]]
    <2>1. Idle \in Request
        BY InitialAssumption DEF Idle, Request
    <2>2. \A d \in Client : [req[d] EXCEPT !.stale = TRUE] \in Request
        BY DEF Inv, TypeOK, Request
    <2>3. r.ids \in SUBSET Folder /\ r.to \in Folder \cup {Root} /\ parent \in Tree
        BY <1>0 DEF Request, Inv, TypeOK
    <2>4. parent' \in Tree
        BY <1>2, <2>3 DEF Move, Tree
    <2>5. \A f \in Folder : Exists(parent, f) <=> Exists(parent', f)
        BY <1>2, <2>3, OutsideAssumption, GoneAssumption DEF Move
    <2>6. Rooted(parent')
        BY <1>2, <2>3, <2>5 DEF Rooted, Move, Known, Inv, TypeOK
    <2>7. TypeOK'
        <3>1. req' \in [Client -> Request]
            BY <1>2, <2>1, <2>2 DEF Inv, TypeOK
        <3>2. \A n \in Note : filed'[n] \in Folder => Exists(parent', filed'[n])
            BY <1>0, <2>5 DEF Inv, TypeOK
        <3>3. raced' \in BOOLEAN
            BY <1>0, <1>2 DEF Inv, TypeOK, Request
        <3> QED BY <1>0, <2>4, <2>6, <3>1, <3>2, <3>3 DEF Inv, TypeOK
    <2>8. \A d \in Client : \/ req'[d] = Idle
                            \/ /\ req'[d].op = req[d].op /\ req'[d].ids = req[d].ids
                               /\ req'[d].to = req[d].to /\ req'[d].stale
        BY <1>2 DEF Inv, TypeOK, Request
    <2>9. \A f \in Folder : parent'[f] = Absent <=> parent[f] = Absent
        BY <1>2, <2>3, OutsideAssumption, GoneAssumption DEF Move
    <2>10. NamesOK'
        <3>1. \A d \in Client : req[d].ids \in SUBSET Folder
            BY DEF Inv, TypeOK, Request
        <3> QED BY <2>8, <2>9, <3>1, OutsideAssumption, GoneAssumption DEF Inv, NamesOK, Idle
    <2>11. ReadOK' /\ CheckOK'
        BY <2>8 DEF ReadOK, CheckOK, Idle
    <2>12. OnlyRacesMakeCycles'
        <3>1. CASE raced \/ r.stale
            BY <1>2, <3>1 DEF OnlyRacesMakeCycles
        <3>2. CASE ~raced /\ ~r.stale
            BY <1>0, <1>2, <2>3, <3>2, MoveKeepsAcyclic DEF Inv, CheckOK, OnlyRacesMakeCycles
        <3> QED BY <3>1, <3>2
    <2> QED BY <2>7, <2>10, <2>11, <2>12 DEF Inv
<1> QED BY <1>1, <1>2 DEF WriteMove

LEMMA WriteCreateInv ==
    ASSUME Inv, NEW c \in Client, WriteCreate(c)
    PROVE  Inv'
<1> DEFINE r == req[c]
<1>0. r \in Request /\ r.op = "create" /\ UNCHANGED <<filed, raced>> /\ Done(c)
    BY DEF WriteCreate, Inv, TypeOK
<1>1. CASE ~Known(r.to)
    BY <1>0, <1>1, DoneInv DEF WriteCreate
<1>2. CASE Known(r.to)
    <2>1. r.ids \in SUBSET Folder /\ r.to \in Folder \cup {Root} /\ parent \in Tree
        BY <1>0 DEF Request, Inv, TypeOK
    <2>2. parent' = Move(parent, r.ids, r.to) /\ parent' \in Tree
        BY <1>2, <2>1 DEF WriteCreate, Move, Tree
    <2>3. Grown(parent, parent', r.ids)
        BY <1>0, <1>2, <2>1, <2>2 DEF Grown, Move, Known, Inv, NamesOK
    <2>4. Rooted(parent)
        BY DEF Inv, TypeOK
    <2>5. \A f \in Folder : Exists(parent, f) => parent'[f] = parent[f]
        BY <2>3 DEF Grown
    <2>6. Rooted(parent')
        BY <2>3, <2>4, <2>5 DEF Rooted, Grown
    <2>7. Idle \in Request
        BY InitialAssumption DEF Idle, Request
    <2>8. TypeOK'
        BY <1>0, <2>2, <2>5, <2>6, <2>7 DEF Inv, TypeOK, Done
    <2>9. req'[c] = Idle /\ \A d \in Client \ {c} : req'[d] = req[d]
        BY <1>0 DEF Inv, TypeOK, Done
    <2>10. \A f \in Folder \ r.ids : parent'[f] = parent[f]
        BY <2>3 DEF Grown
    <2>11. \A f \in Folder : parent[f] # Absent => parent'[f] # Absent
        BY <2>3 DEF Grown
    <2>12. \A d \in Client : req[d].ids \in SUBSET Folder
        BY DEF Inv, TypeOK, Request
    <2>13. NamesOK'
        BY <1>0, <2>9, <2>10, <2>11, <2>12, OutsideAssumption, GoneAssumption DEF Inv, NamesOK, Idle
    <2>14. ASSUME NEW d \in Client, req'[d].pc = "read", ~req'[d].stale
           PROVE  Older(req'[d].seen, parent')
        <3>1. req'[d] = req[d] /\ Older(req[d].seen, parent)
            BY <2>9, <2>14 DEF Inv, ReadOK, Idle
        <3>2. \A f \in Folder : req[d].seen[f] # Absent => parent[f] # Absent
            BY <3>1, OutsideAssumption, GoneAssumption DEF Older
        <3> QED BY <3>1, <3>2, <2>3 DEF Older, Grown
    <2>15. ReadOK'
        BY <2>9, <2>14 DEF Inv, ReadOK, Idle
    <2>16. ASSUME NEW d \in Client, req'[d].op \in {"patch", "reorder"},
                  req'[d].pc = "checked", ~req'[d].stale
           PROVE  ~Cyclic(parent', req'[d].ids, req'[d].to)
        <3>1. req'[d] = req[d] /\ ~Cyclic(parent, req[d].ids, req[d].to) /\ req[d] \in Request
            BY <2>9, <2>16 DEF Inv, TypeOK, CheckOK, Idle
        <3> SUFFICES ASSUME req[d].to # Root, NEW m \in req[d].ids
                     PROVE  ~IsDescendant(parent', m, req[d].to)
            BY <3>1 DEF Cyclic
        <3>2. req[d].to \in Folder /\ parent[req[d].to] # Absent
            BY <3>1 DEF Request, Inv, NamesOK
        <3>3. req[d].to \notin r.ids
            BY <3>2, <2>3 DEF Grown
        <3> QED BY <3>1, <3>2, <3>3, <2>1, <2>2, <2>3, <2>4, GrownKeepsApart DEF Cyclic
    <2>17. CheckOK'
        BY <2>16 DEF CheckOK
    <2>18. OnlyRacesMakeCycles'
        BY <1>0, <2>1, <2>2, <2>3, <2>4, GrownKeepsAcyclic DEF Inv, OnlyRacesMakeCycles
    <2> QED BY <2>8, <2>13, <2>15, <2>17, <2>18 DEF Inv
<1> QED BY <1>1, <1>2

LEMMA WriteDeleteInv ==
    ASSUME Inv, NEW c \in Client, WriteDelete(c)
    PROVE  Inv'
<1> DEFINE r == req[c]
<1>0. /\ r \in Request /\ r.op = "delete" /\ UNCHANGED raced /\ Done(c)
      /\ parent' = [f \in Folder |-> IF f \in r.ids THEN Gone
                                     ELSE IF parent[f] \in r.ids THEN Root ELSE parent[f]]
      /\ filed' = [n \in Note |-> IF filed[n] \in r.ids THEN Root ELSE filed[n]]
    BY DEF WriteDelete, Inv, TypeOK
<1>1. r.ids \in SUBSET Folder /\ parent \in Tree /\ Rooted(parent)
    BY <1>0 DEF Request, Inv, TypeOK
<1>2. parent' \in Tree
    BY <1>0, <1>1 DEF Tree
<1>3. /\ Cut(parent, parent')
      /\ \A f \in Folder : parent'[f] \in {parent[f], Root, Gone}
    BY <1>0, OutsideAssumption, GoneAssumption DEF Cut
<1>4. \A f \in Folder \ r.ids : Exists(parent, f) => Exists(parent', f)
    BY <1>0, OutsideAssumption, GoneAssumption
<1>5. Rooted(parent')
    BY <1>0, <1>1, <1>4, OutsideAssumption, GoneAssumption DEF Rooted
<1>6. \A n \in Note : filed'[n] \in Folder => Exists(parent', filed'[n])
    BY <1>0, <1>4, OutsideAssumption, GoneAssumption DEF Inv, TypeOK
<1>7. Idle \in Request
    BY InitialAssumption DEF Idle, Request
<1>8. TypeOK'
    BY <1>0, <1>2, <1>5, <1>6, <1>7 DEF Inv, TypeOK, Done
<1>9. req'[c] = Idle /\ \A d \in Client \ {c} : req'[d] = req[d]
    BY <1>0 DEF Inv, TypeOK, Done
<1>10. \A d \in Client : req[d].ids \in SUBSET Folder
    BY DEF Inv, TypeOK, Request
<1>11. \A f \in Folder : parent'[f] = Absent <=> parent[f] = Absent
    <2>1. \A f \in r.ids : parent[f] # Absent
        BY <1>0 DEF Inv, NamesOK
    <2>2. \A f \in Folder : parent[f] \in r.ids => parent[f] # Absent
        BY <1>1, OutsideAssumption, GoneAssumption
    <2> QED BY <1>0, <2>1, <2>2, OutsideAssumption, GoneAssumption
<1>12. NamesOK'
    BY <1>9, <1>10, <1>11, OutsideAssumption, GoneAssumption DEF Inv, NamesOK, Idle
<1>13. ReadOK'
    <2>1. ASSUME NEW d \in Client, Older(req[d].seen, parent)
          PROVE  Older(req[d].seen, parent')
        BY <1>3, <2>1 DEF Older
    <2> QED BY <1>9, <2>1 DEF Inv, ReadOK, Idle
<1>14. ASSUME NEW d \in Client, req'[d].op \in {"patch", "reorder"},
              req'[d].pc = "checked", ~req'[d].stale
       PROVE  ~Cyclic(parent', req'[d].ids, req'[d].to)
    <2>1. req'[d] = req[d] /\ ~Cyclic(parent, req[d].ids, req[d].to) /\ req[d] \in Request
        BY <1>9, <1>14 DEF Inv, TypeOK, CheckOK, Idle
    <2> SUFFICES ASSUME req[d].to # Root, NEW m \in req[d].ids
                 PROVE  ~IsDescendant(parent', m, req[d].to)
        BY <2>1 DEF Cyclic
    <2>2. req[d].to \in Folder
        BY <2>1 DEF Request
    <2> QED BY <1>1, <1>2, <1>3, <2>1, <2>2, CutKeepsApart DEF Cyclic
<1>15. CheckOK'
    BY <1>14 DEF CheckOK
<1>16. OnlyRacesMakeCycles'
    BY <1>0, <1>1, <1>2, <1>3, CutKeepsAcyclic DEF Inv, OnlyRacesMakeCycles
<1> QED BY <1>8, <1>12, <1>13, <1>15, <1>16 DEF Inv

LEMMA WriteFileInv ==
    ASSUME Inv, NEW c \in Client, WriteFile(c)
    PROVE  Inv'
<1>0. /\ req[c] \in Request /\ req[c].op = "file" /\ UNCHANGED <<parent, raced>> /\ Done(c)
      /\ filed' = IF Known(req[c].to)
                  THEN [n \in Note |-> IF n \in req[c].note THEN req[c].to ELSE filed[n]]
                  ELSE filed
    BY DEF WriteFile, Inv, TypeOK
<1>1. Idle \in Request
    BY InitialAssumption DEF Idle, Request
<1>2. TypeOK'
    <2>1. /\ filed' \in [Note -> Folder \cup {Root}]
          /\ \A n \in Note : filed'[n] \in Folder => Exists(parent', filed'[n])
        BY <1>0 DEF Inv, TypeOK, Known, Request
    <2> QED BY <1>0, <1>1, <2>1 DEF Inv, TypeOK, Done
<1>3. req'[c] = Idle /\ \A d \in Client \ {c} : req'[d] = req[d]
    BY <1>0 DEF Inv, TypeOK, Done
<1>4. NamesOK'
    BY <1>0, <1>3, OutsideAssumption, GoneAssumption DEF Inv, NamesOK, Idle
<1>5. ReadOK' /\ CheckOK'
    BY <1>0, <1>3 DEF Inv, ReadOK, CheckOK, Idle
<1>6. OnlyRacesMakeCycles'
    BY <1>0 DEF Inv, OnlyRacesMakeCycles
<1> QED BY <1>2, <1>4, <1>5, <1>6 DEF Inv

-----------------------------------------------------------------------------
LEMMA StepInv == Inv /\ [Next]_vars => Inv'
<1> SUFFICES ASSUME Inv, [Next]_vars PROVE Inv'
    OBVIOUS
<1>1. CASE UNCHANGED vars
    BY <1>1 DEF vars, Inv, TypeOK, NamesOK, ReadOK, CheckOK, OnlyRacesMakeCycles
<1>2. ASSUME NEW c \in Client, NEW f \in Folder, NEW q \in Folder \cup {Root},
             CheckPatch(c, f, q)
      PROVE  Inv'
    <2> DEFINE r == [op |-> "patch", pc |-> "checked", ids |-> {f}, note |-> {},
                     to |-> q, seen |-> Initial, stale |-> FALSE]
    <2>1. r \in Request
        BY <1>2, InitialAssumption DEF Request, CheckPatch, Begin, AllOps
    <2> QED BY <1>2, <2>1, BeginInv DEF CheckPatch, Checked
<1>3. ASSUME NEW c \in Client, NEW f \in Folder, NEW q \in Folder \cup {Root},
             CheckCreate(c, f, q)
      PROVE  Inv'
    <2> DEFINE r == [op |-> "create", pc |-> "checked", ids |-> {f}, note |-> {},
                     to |-> q, seen |-> Initial, stale |-> FALSE]
    <2>1. r \in Request
        BY <1>3, InitialAssumption DEF Request, CheckCreate, Begin, AllOps
    <2> QED BY <1>3, <2>1, BeginInv DEF CheckCreate, Checked
<1>4. ASSUME NEW c \in Client, NEW ms \in SUBSET Folder, NEW q \in Folder \cup {Root},
             ReadTree(c, ms, q)
      PROVE  Inv'
    <2> DEFINE r == [op |-> "reorder", pc |-> "read", ids |-> ms, note |-> {},
                     to |-> q, seen |-> parent, stale |-> FALSE]
    <2>1. r \in Request
        BY <1>4 DEF Request, AllOps, Inv, TypeOK
    <2> QED BY <1>4, <2>1, BeginInv DEF ReadTree
<1>5. ASSUME NEW c \in Client, NEW f \in Folder, CheckDelete(c, f)
      PROVE  Inv'
    <2> DEFINE r == [op |-> "delete", pc |-> "checked", ids |-> {f}, note |-> {},
                     to |-> Root, seen |-> Initial, stale |-> FALSE]
    <2>1. r \in Request
        BY <1>5, InitialAssumption DEF Request, AllOps
    <2>2. Known(Root)
        BY OutsideAssumption, GoneAssumption DEF Known
    <2> QED BY <1>5, <2>1, <2>2, BeginInv DEF CheckDelete, Checked
<1>6. ASSUME NEW c \in Client, NEW n \in Note, NEW q \in Folder \cup {Root}, CheckFile(c, n, q)
      PROVE  Inv'
    <2> DEFINE r == [op |-> "file", pc |-> "checked", ids |-> {}, note |-> {n},
                     to |-> q, seen |-> Initial, stale |-> FALSE]
    <2>1. r \in Request
        BY <1>6, InitialAssumption DEF Request, AllOps
    <2> QED BY <1>6, <2>1, BeginInv DEF CheckFile, Checked
<1> QED
    BY <1>1, <1>2, <1>3, <1>4, <1>5, <1>6, CheckReorderInv, WriteMoveInv, WriteCreateInv,
       WriteDeleteInv, WriteFileInv DEF Next

LEMMA Invariance == Spec => []Inv
BY InitInv, StepInv, PTL DEF Spec

-----------------------------------------------------------------------------
(* Theorems *)

\* Folders and notes refer to folders that exist, for any interleaving of
\* moves, creations and deletions.  (schema.prisma, onDelete: SetNull)
THEOREM ReferencesExist == Spec => []TypeOK
<1>1. Inv => TypeOK
    BY DEF Inv
<1> QED BY Invariance, <1>1, PTL

\* The tree stays a tree until a move is written on top of a move that its
\* check did not see: the guards of the two routes suffice for any number of
\* clients that do not race, and for bulk moves.
THEOREM GuardsPreventCycles == Spec => []OnlyRacesMakeCycles
<1>1. Inv => OnlyRacesMakeCycles
    BY DEF Inv
<1> QED BY Invariance, <1>1, PTL

\* No request brings a deleted folder back, however old its check is.
THEOREM DeletionIsFinal == Spec => GoneStaysGone
<1> DEFINE Final == \A f \in Folder : parent[f] = Gone => parent'[f] = Gone
<1>1. Inv /\ [Next]_vars => [Final]_parent
    <2> SUFFICES ASSUME Inv, Next, parent' # parent, NEW f \in Folder, parent[f] = Gone
                 PROVE  parent'[f] = Gone
        BY DEF vars
    <2>1. PICK c \in Client : WriteMove(c) \/ WriteCreate(c) \/ WriteDelete(c)
        BY DEF Next, CheckPatch, CheckCreate, ReadTree, CheckDelete, CheckFile, CheckReorder,
               WriteFile
    <2>2. parent \in Tree /\ req[c] \in Request
        BY DEF Inv, TypeOK
    <2>3. CASE WriteMove(c)
        BY <2>2, <2>3 DEF WriteMove, Move
    <2>4. CASE WriteCreate(c)
        BY <2>2, <2>4, OutsideAssumption, GoneAssumption DEF WriteCreate, Move, Inv, NamesOK
    <2>5. CASE WriteDelete(c)
        BY <2>2, <2>5, OutsideAssumption, GoneAssumption DEF WriteDelete, Request
    <2> QED BY <2>1, <2>3, <2>4, <2>5
<1> QED BY Invariance, <1>1, PTL DEF Spec, GoneStaysGone

-----------------------------------------------------------------------------
(* FolderPlan: its rows are a tree of FolderTree without deleted folders. *)

PlanTree == [Folder -> Folder \cup {Root, Absent}]

-----------------------------------------------------------------------------
(* The walk through the parents *)

LEMMA LeastElement ==
    ASSUME NEW S \in SUBSET Nat, S # {}
    PROVE  \E n \in S : \A m \in S : n <= m
<1> DEFINE R == OpToRel(<, Nat)
<1>1. IsWellFoundedOn(R, Nat)
    BY NatLessThanWellFounded, Zenon
<1>2. \A m, n \in Nat : m < n => <<m, n>> \in R
    BY Zenon DEF OpToRel
<1> HIDE DEF R
<1>3. PICK n \in S : \A m \in S : <<m, n>> \notin R
    BY <1>1, WFMin
<1>4. \A m \in S : ~(m < n)
    BY <1>2, <1>3
<1> QED BY <1>4

LEMMA FoldersAreFinite == IsFiniteSet(Folder)
<1>1. IsFiniteSet(1 .. Len(Order))
    BY OrderAssumption, FS_Interval
<1>2. Order \in [1 .. Len(Order) -> Folder] /\ \A f \in Folder : \E i \in 1 .. Len(Order) : Order[i] = f
    BY OrderAssumption DEF ToSet
<1>3. Order \in Surjection(1 .. Len(Order), Folder)
    BY <1>2 DEF Surjection
<1> QED BY <1>1, <1>3, FS_Surjection

\* Of a set of sets of folders, one that no other is larger than by one folder.
LEMMA LargestSet ==
    ASSUME NEW B \in SUBSET SUBSET Folder, B # {}
    PROVE  \E S \in B : \A f \in Folder \ S : S \cup {f} \notin B
<1> DEFINE Left(S) == Cardinality(Folder \ S)
           N == {Left(S) : S \in B}
<1>1. \A S \in SUBSET Folder : Left(S) \in Nat
    BY FoldersAreFinite, FS_Difference, FS_CardinalityType
<1>2. N \in SUBSET Nat /\ N # {}
    BY <1>1
<1>3. PICK n \in N : \A m \in N : n <= m
    <2> HIDE DEF N
    <2> QED BY <1>2, LeastElement
<1>4. PICK S \in B : n = Left(S)
    BY <1>3
<1>5. ASSUME NEW f \in Folder \ S, S \cup {f} \in B PROVE FALSE
    <2>1. IsFiniteSet(Folder \ S) /\ f \in Folder \ S
        BY FoldersAreFinite, FS_Difference
    <2>2. Cardinality((Folder \ S) \ {f}) = Cardinality(Folder \ S) - 1
        BY <2>1, FS_RemoveElement
    <2>3. (Folder \ S) \ {f} = Folder \ (S \cup {f})
        OBVIOUS
    <2>4. Left(S \cup {f}) \in N
        BY <1>5
    <2>5. n <= n - 1 /\ n \in Nat
        BY <1>1, <1>3, <1>4, <2>2, <2>3, <2>4
    <2> HIDE DEF N
    <2> QED BY <2>5
<1> QED BY <1>4, <1>5

\* The walk of the code, from at and not through seen, meets a.
Up(p, f) == IF p[f] = Absent THEN Root ELSE p[f]
Stays(p, seen, S) == \A f \in S : Up(p, f) \in Folder \ seen => Up(p, f) \in S
Meets(p, a, at, seen) ==
    \A S \in SUBSET (Folder \ seen) : (at \in Folder \ seen => at \in S) /\ Stays(p, seen, S) => a \in S

LEMMA MeetsSteps ==
    ASSUME NEW p \in PlanTree, NEW a, NEW at \in Folder \cup {Root}, NEW seen \in SUBSET Folder
    PROVE  Meets(p, a, at, seen) <=>
             /\ at # Root /\ at \notin seen
             /\ at = a \/ Meets(p, a, Up(p, at), seen \cup {at})
<1>1. CASE at \notin Folder \ seen
    <2>1. Stays(p, seen, {})
        BY DEF Stays
    <2> QED BY <1>1, <2>1, OutsideAssumption, GoneAssumption DEF Meets
<1>2. CASE at \in Folder \ seen /\ at = a
    BY <1>2, OutsideAssumption, GoneAssumption DEF Meets
<1>3. CASE at \in Folder \ seen /\ at # a
    <2> DEFINE more == seen \cup {at}
    <2>1. ASSUME Meets(p, a, at, seen), NEW S \in SUBSET (Folder \ more),
                 Up(p, at) \in Folder \ more => Up(p, at) \in S, Stays(p, more, S)
          PROVE  a \in S
        <3>1. Stays(p, seen, S \cup {at})
            BY <2>1 DEF Stays
        <3>2. a \in S \cup {at}
            BY <1>3, <2>1, <3>1 DEF Meets
        <3> QED BY <1>3, <3>2
    <2>2. ASSUME Meets(p, a, Up(p, at), more), NEW S \in SUBSET (Folder \ seen),
                 at \in S, Stays(p, seen, S)
          PROVE  a \in S
        <3>1. Stays(p, more, S \ {at}) /\ S \ {at} \in SUBSET (Folder \ more)
            BY <2>2 DEF Stays
        <3>2. Up(p, at) \in Folder \ more => Up(p, at) \in S \ {at}
            BY <2>2 DEF Stays
        <3> QED BY <2>2, <3>1, <3>2 DEF Meets
    <2>3. Meets(p, a, at, seen) => Meets(p, a, Up(p, at), more)
        BY <2>1 DEF Meets
    <2>4. Meets(p, a, Up(p, at), more) => Meets(p, a, at, seen)
        BY <1>3, <2>2 DEF Meets
    <2> QED BY <1>3, <2>3, <2>4, OutsideAssumption, GoneAssumption
<1> QED BY <1>1, <1>2, <1>3

\* No other function does the same steps.
Walks == (Folder \cup {Root}) \X SUBSET Folder

WalkStep(p, a, w, walk) ==
    /\ walk[1] # Root /\ walk[1] \notin walk[2]
    /\ walk[1] = a \/ w[<<Up(p, walk[1]), walk[2] \cup {walk[1]}>>]

LEMMA WalkIsMeets ==
    ASSUME NEW p \in PlanTree, NEW a, NEW w,
           \A walk \in Walks : w[walk] <=> WalkStep(p, a, w, walk)
    PROVE  \A at \in Folder \cup {Root}, seen \in SUBSET Folder : w[<<at, seen>>] <=> Meets(p, a, at, seen)
<1> DEFINE Same(at, seen) == w[<<at, seen>>] <=> Meets(p, a, at, seen)
           B == {seen \in SUBSET Folder : \E at \in Folder \cup {Root} : ~Same(at, seen)}
<1>1. ASSUME NEW at \in Folder \cup {Root}, NEW seen \in SUBSET Folder
      PROVE  w[<<at, seen>>] <=> (at # Root /\ at \notin seen /\ (at = a \/ w[<<Up(p, at), seen \cup {at}>>]))
    <2>1. <<at, seen>> \in Walks
        BY DEF Walks
    <2> QED BY <2>1 DEF WalkStep
<1>2. SUFFICES ASSUME B # {} PROVE FALSE
    OBVIOUS
<1>3. PICK seen \in B : \A f \in Folder \ seen : seen \cup {f} \notin B
    <2>1. B \in SUBSET SUBSET Folder
        OBVIOUS
    <2> HIDE DEF B
    <2> QED BY <1>2, <2>1, LargestSet
<1>4. PICK at \in Folder \cup {Root} : ~Same(at, seen)
    BY <1>3
<1>5. at # Root /\ at \notin seen
    BY <1>1, <1>4, MeetsSteps
<1>6. at \in Folder /\ Up(p, at) \in Folder \cup {Root} /\ seen \cup {at} \in SUBSET Folder
    BY <1>3, <1>5 DEF Up, PlanTree
<1>7. Same(Up(p, at), seen \cup {at})
    BY <1>3, <1>5, <1>6
<1> QED BY <1>1, <1>4, <1>5, <1>6, <1>7, MeetsSteps

LEMMA WalkAgrees ==
    ASSUME NEW l, l.parent \in PlanTree, NEW a \in Folder, NEW f \in Folder
    PROVE  WalkMeets(l, a, f) <=> IsDescendant(l.parent, a, f)
<1> DEFINE p == l.parent
<1>1. \A g : ParentIn(l, g) = IF g \in Folder THEN Up(p, g) ELSE Root
    BY DEF ParentIn, Has, Up
<1> DEFINE Rec(w) == w = [walk \in (Folder \cup {Root}) \X SUBSET Folder |->
                            /\ walk[1] # Root /\ walk[1] \notin walk[2]
                            /\ walk[1] = a \/ w[<<ParentIn(l, walk[1]), walk[2] \cup {walk[1]}>>]]
           c == CHOOSE w : Rec(w)
<1>2. WalkMeets(l, a, f) <=> (a = f \/ c[<<ParentIn(l, f), {}>>])
    BY DEF WalkMeets
<1>3. \A w : Rec(w) <=> w = [walk \in Walks |-> WalkStep(p, a, w, walk)]
    BY <1>1, OutsideAssumption, GoneAssumption DEF Walks, WalkStep
<1>4. PICK m : m = [walk \in Walks |-> Meets(p, a, walk[1], walk[2])]
    OBVIOUS
<1>5. ASSUME NEW x \in Folder \cup {Root}, NEW s \in SUBSET Folder
      PROVE  m[<<x, s>>] = Meets(p, a, x, s)
    <2>1. <<x, s>> \in Walks
        BY DEF Walks
    <2> QED BY <1>4, <2>1
<1>6. ASSUME NEW walk \in Walks PROVE Meets(p, a, walk[1], walk[2]) <=> WalkStep(p, a, m, walk)
    <2>1. PICK at \in Folder \cup {Root}, seen \in SUBSET Folder : walk = <<at, seen>>
        BY DEF Walks
    <2>2. Meets(p, a, at, seen) <=> WalkStep(p, a, m, walk)
        <3>1. CASE at \in Folder
            <4>1. Up(p, at) \in Folder \cup {Root} /\ seen \cup {at} \in SUBSET Folder
                BY <3>1 DEF PlanTree, Up
            <4> QED BY <1>5, <2>1, <4>1, MeetsSteps DEF WalkStep
        <3>2. CASE at = Root
            BY <2>1, <3>2, MeetsSteps DEF WalkStep
        <3> QED BY <3>1, <3>2
    <2> QED BY <2>1, <2>2
<1>7. m = [walk \in Walks |-> WalkStep(p, a, m, walk)]
    <2>1. PICK w : w = [walk \in Walks |-> WalkStep(p, a, m, walk)]
        OBVIOUS
    <2>2. m \in [Walks -> BOOLEAN]
        BY <1>4 DEF Meets
    <2>3. w \in [Walks -> BOOLEAN]
        BY <2>1 DEF WalkStep
    <2>4. ASSUME NEW walk \in Walks PROVE w[walk] = m[walk]
        <3>1. w[walk] <=> WalkStep(p, a, m, walk)
            BY <2>1
        <3>2. m[walk] <=> Meets(p, a, walk[1], walk[2])
            BY <1>4
        <3>3. w[walk] \in BOOLEAN /\ m[walk] \in BOOLEAN
            BY <2>2, <2>3
        <3> QED BY <1>6, <3>1, <3>2, <3>3
    <2>5. w = m
        BY <2>2, <2>3, <2>4
    <2> QED BY <2>1, <2>5
<1>8. Rec(m)
    BY <1>3, <1>7
<1>9. Rec(c)
    <2> HIDE DEF Rec
    <2> QED BY <1>8
<1>10. \A walk \in Walks : c[walk] <=> WalkStep(p, a, c, walk)
    <2>1. c = [walk \in Walks |-> WalkStep(p, a, c, walk)]
        BY <1>3, <1>9
    <2> HIDE DEF c
    <2> QED BY <2>1
<1>11. \A at \in Folder \cup {Root}, seen \in SUBSET Folder : c[<<at, seen>>] <=> Meets(p, a, at, seen)
    <2> HIDE DEF c
    <2> QED BY <1>10, WalkIsMeets
<1>12. Up(p, f) \in Folder \cup {Root} /\ f # Root
    BY OutsideAssumption, GoneAssumption DEF PlanTree, Up
<1>13. WalkMeets(l, a, f) <=> (a = f \/ Meets(p, a, Up(p, f), {}))
    <2> HIDE DEF c
    <2> QED BY <1>1, <1>2, <1>11, <1>12
<1>14. \A S \in SUBSET Folder : Stays(p, {}, S) <=> UpClosed(p, S)
    BY OutsideAssumption, GoneAssumption DEF Stays, UpClosed, Up, PlanTree
<1>15. ASSUME NEW S \in SUBSET Folder, Up(p, f) \in Folder => Up(p, f) \in S, UpClosed(p, S)
       PROVE  UpClosed(p, S \cup {f})
    BY <1>15, OutsideAssumption, GoneAssumption DEF UpClosed, Up
<1>16. (a = f \/ Meets(p, a, Up(p, f), {})) => IsDescendant(p, a, f)
    <2> SUFFICES ASSUME a = f \/ Meets(p, a, Up(p, f), {}),
                        NEW S \in SUBSET Folder, f \in S, UpClosed(p, S)
                 PROVE  a \in S
        BY DEF IsDescendant
    <2>1. Stays(p, {}, S) /\ (Up(p, f) \in Folder => Up(p, f) \in S)
        BY <1>14, OutsideAssumption, GoneAssumption DEF UpClosed, Up
    <2> QED BY <2>1 DEF Meets
<1>17. IsDescendant(p, a, f) /\ a # f => Meets(p, a, Up(p, f), {})
    <2> SUFFICES ASSUME IsDescendant(p, a, f), a # f, NEW S \in SUBSET Folder,
                        Up(p, f) \in Folder => Up(p, f) \in S, Stays(p, {}, S)
                 PROVE  a \in S
        BY DEF Meets
    <2>1. UpClosed(p, S \cup {f}) /\ S \cup {f} \in SUBSET Folder
        BY <1>14, <1>15
    <2> QED BY <2>1 DEF IsDescendant
<1> QED BY <1>13, <1>16, <1>17

-----------------------------------------------------------------------------
(* The rows, the lists and the requests of the sidebars *)

\* What of a request the tree depends on.
Sane(r) ==
    /\ {"parent", "ids", "stage", "stale", "current"} \subseteq DOMAIN r
    /\ r.parent \in Folder \cup {Root} /\ r.stale \in BOOLEAN
    /\ r.stage \in {"sent", "read", "allowed"}

\* What the guard has found still holds of the tree p.
GuardHolds(p, r) == r.stage # "sent" /\ ~r.stale => ~Cyclic(p, ToSet(r.ids), r.parent)

PlanInv ==
    /\ DOMAIN rows = {"parent", "position"} /\ DOMAIN list = Client /\ DOMAIN sent = Client
    /\ rows.parent \in PlanTree /\ Rooted(rows.parent)
    /\ \A c \in Client : list[c].parent \in PlanTree
    /\ overtaken \/ Acyclic(rows.parent)
    /\ overtaken \/ \A c \in Client : Acyclic(list[c].parent)
    /\ \A c \in Client : sent[c] # NoPlan => Sane(sent[c]) /\ GuardHolds(rows.parent, sent[c])

LEMMA PlanTrees == PlanTree \subseteq Tree /\ \A p \in PlanTree, f \in Folder : p[f] # Gone
BY OutsideAssumption, GoneAssumption DEF PlanTree, Tree

LEMMA KnownIs == ASSUME NEW l, l.parent \in PlanTree, NEW f PROVE Has(l, f) <=> f \in Folder /\ Exists(l.parent, f)
BY PlanTrees DEF Has

\* A part of a list is a tree if the list is one.
LEMMA PartCuts ==
    ASSUME NEW l, l.parent \in PlanTree, NEW S
    PROVE  /\ Part(l, S).parent \in PlanTree
           /\ Acyclic(l.parent) => Acyclic(Part(l, S).parent)
           /\ \A f \in Folder : Has(Part(l, S), f) <=> f \in S /\ Has(l, f)
<1>1. PICK q : q = Part(l, S).parent
    OBVIOUS
<1>2. q \in PlanTree /\ \A f \in Folder : q[f] = IF f \in S THEN l.parent[f] ELSE Absent
    BY <1>1 DEF Part, PlanTree
<1>3. Acyclic(l.parent) => Acyclic(q)
    BY <1>2, PlanTrees, CutKeepsAcyclic, OutsideAssumption, GoneAssumption DEF Cut
<1>4. \A f \in Folder : Has(Part(l, S), f) <=> f \in S /\ Has(l, f)
    BY <1>1, <1>2 DEF Has
<1> QED BY <1>1, <1>2, <1>3, <1>4

LEMMA ListingCuts ==
    ASSUME rows.parent \in PlanTree, NEW c
    PROVE  Listing(c).parent \in PlanTree /\ (Acyclic(rows.parent) => Acyclic(Listing(c).parent))
BY PartCuts DEF Listing

LEMMA InitPlan == PlanInit => PlanInv
<1> SUFFICES ASSUME PlanInit PROVE PlanInv
    OBVIOUS
<1>1. rows.parent = Start /\ DOMAIN rows = {"parent", "position"} /\ DOMAIN list = Client /\ DOMAIN sent = Client
    BY DEF PlanInit
<1>2. Start \in PlanTree /\ Acyclic(Start)
    BY StartAssumption DEF Forest, PlanTree
<1>3. Rooted(Start)
    BY <1>2, PlanTrees, StartAssumption DEF Forest, Rooted, PlanTree
<1>4. \A c \in Client : list[c] = Listing(c) /\ sent[c] = NoPlan
    BY DEF PlanInit
<1> QED BY <1>1, <1>2, <1>3, <1>4, ListingCuts DEF PlanInv

\* A write of a table, whose effect on the guards is known.
LEMMA WritePlan ==
    ASSUME PlanInv, NEW new, NEW pending, NEW moved \in BOOLEAN, Write(new, pending, moved),
           DOMAIN new = {"parent", "position"}, new.parent \in PlanTree, Rooted(new.parent),
           overtaken => overtaken', overtaken' \/ Acyclic(new.parent),
           \A c \in Client : pending[c] # NoPlan =>
              Sane(pending[c]) /\ (moved \/ GuardHolds(new.parent, pending[c]))
    PROVE  PlanInv'
<1>1. rows' = new /\ list' = list
    BY DEF Write
<1>2. sent' = [c \in Client |-> IF pending[c] = NoPlan THEN NoPlan ELSE Marked(pending[c], moved)]
    BY DEF Write
<1>3. ASSUME NEW c \in Client, sent'[c] # NoPlan
      PROVE  Sane(sent'[c]) /\ GuardHolds(new.parent, sent'[c])
    <2>1. pending[c] # NoPlan /\ sent'[c] = Marked(pending[c], moved)
        BY <1>2, <1>3
    <2>2. PICK r : r = pending[c]
        OBVIOUS
    <2>3. Sane(r) /\ (moved \/ GuardHolds(new.parent, r))
        BY <2>1, <2>2
    <2>4. PICK m : m = Marked(r, moved)
        OBVIOUS
    <2>5. /\ DOMAIN m = DOMAIN r /\ m.parent = r.parent /\ m.ids = r.ids /\ m.stage = r.stage
          /\ m.stale = (r.stale \/ (moved /\ r.stage # "sent"))
        BY <2>3, <2>4 DEF Marked, Sane
    <2>6. Sane(m)
        BY <2>3, <2>5 DEF Sane
    <2>7. GuardHolds(new.parent, m)
        BY <2>3, <2>5 DEF GuardHolds, Sane
    <2> QED BY <2>1, <2>2, <2>4, <2>6, <2>7
<1>4. DOMAIN sent' = Client
    BY <1>2
<1>5. overtaken' \/ \A c \in Client : Acyclic(list'[c].parent)
    BY <1>1 DEF PlanInv
<1>6. \A c \in Client : sent'[c] # NoPlan => Sane(sent'[c]) /\ GuardHolds(rows'.parent, sent'[c])
    BY <1>1, <1>3
<1>7. \A c \in Client : (sent[c] # NoPlan => Sane(sent[c]) /\ GuardHolds(rows.parent, sent[c]))'
    BY <1>6 DEF Sane, GuardHolds, Cyclic, IsDescendant, UpClosed
<1> QED BY <1>1, <1>4, <1>5, <1>7 DEF PlanInv

\* The requests when one has been answered, or has passed a stage.
LEMMA ServedPlan ==
    ASSUME PlanInv, NEW c \in Client
    PROVE  /\ DOMAIN Served(c) = Client
           /\ \A d \in Client : Served(c)[d] # NoPlan => sent[d] # NoPlan /\ Served(c)[d] = sent[d]
BY DEF PlanInv, Served

LEMMA RefusePlan == ASSUME PlanInv, NEW c \in Client, Refuse(c) PROVE PlanInv'
<1>1. sent' = Served(c) /\ UNCHANGED <<rows, list, writes, overtaken>>
    BY DEF Refuse
<1>2. \A d \in Client : sent'[d] # NoPlan => sent[d] # NoPlan /\ sent'[d] = sent[d]
    BY <1>1, ServedPlan
<1> QED BY <1>1, <1>2, ServedPlan DEF PlanInv, Sane, GuardHolds, Cyclic, IsDescendant, UpClosed

LEMMA SentPlan ==
    ASSUME PlanInv, NEW c \in Client, NEW r, Sane(r), GuardHolds(rows.parent, r),
           sent' = [sent EXCEPT ![c] = r], UNCHANGED <<rows, list, writes, overtaken>>
    PROVE  PlanInv'
<1>1. DOMAIN sent' = Client /\ \A d \in Client : sent'[d] = IF d = c THEN r ELSE sent[d]
    BY DEF PlanInv
<1>2. \A d \in Client : sent'[d] # NoPlan => Sane(sent'[d]) /\ GuardHolds(rows.parent, sent'[d])
    BY <1>1 DEF PlanInv
<1>3. rows' = rows /\ list' = list /\ overtaken' = overtaken
    OBVIOUS
<1>4. \A d \in Client : sent'[d] # NoPlan => Sane(sent'[d]) /\ GuardHolds(rows'.parent, sent'[d])
    BY <1>2, <1>3
<1>5. \A d \in Client : (sent[d] # NoPlan => Sane(sent[d]) /\ GuardHolds(rows.parent, sent[d]))'
    BY <1>4 DEF Sane, GuardHolds, Cyclic, IsDescendant, UpClosed
<1> QED BY <1>1, <1>3, <1>5 DEF PlanInv

LEMMA ReadPlan == ASSUME PlanInv, NEW c \in Client, ReadReorder(c) PROVE PlanInv'
<1>1. PICK plan, r : plan = sent[c] /\ r = [plan EXCEPT !.stage = "read"]
    OBVIOUS
<1>2. CASE /\ AllThere(plan)
           /\ plan.parent # Root => \A f \in ToSet(plan.ids) : ~WalkMeets(rows, f, plan.parent)
           /\ sent' = [sent EXCEPT ![c] = r] /\ UNCHANGED <<rows, list, writes, overtaken>>
    <2>1. Sane(plan)
        BY <1>1 DEF ReadReorder, PlanInv
    <2>2. Sane(r) /\ r.ids = plan.ids /\ r.parent = plan.parent
        BY <1>1, <2>1 DEF Sane
    <2>3. \A f \in ToSet(plan.ids) : f \in Folder
        BY <1>2 DEF AllThere, Has
    <2>4. plan.parent \in Folder \cup {Root} /\ rows.parent \in PlanTree
        BY <2>1 DEF Sane, PlanInv
    <2>5. ~Cyclic(rows.parent, ToSet(plan.ids), plan.parent)
        <3> SUFFICES ASSUME plan.parent # Root, NEW f \in ToSet(plan.ids)
                     PROVE  ~IsDescendant(rows.parent, f, plan.parent)
            BY DEF Cyclic
        <3> QED BY <1>2, <2>3, <2>4, WalkAgrees
    <2>6. GuardHolds(rows.parent, r)
        BY <2>2, <2>5 DEF GuardHolds
    <2> QED BY <1>2, <2>2, <2>6, SentPlan
<1>3. CASE Refuse(c)
    BY <1>3, RefusePlan
<1> QED
    <2> HIDE DEF AllThere, WalkMeets, Refuse
    <2> QED BY <1>1, <1>2, <1>3 DEF ReadReorder

LEMMA AllowPlan == ASSUME PlanInv, NEW c \in Client, AllowReorder(c) PROVE PlanInv'
<1>1. PICK plan, r : plan = sent[c] /\ r = [plan EXCEPT !.stage = "allowed"]
    OBVIOUS
<1>2. CASE sent' = [sent EXCEPT ![c] = r] /\ UNCHANGED <<rows, list, writes, overtaken>>
    <2>1. Sane(plan) /\ GuardHolds(rows.parent, plan) /\ plan.stage = "read"
        BY <1>1 DEF AllowReorder, PlanInv
    <2>2. Sane(r) /\ r.ids = plan.ids /\ r.parent = plan.parent /\ r.stale = plan.stale
        BY <1>1, <2>1 DEF Sane
    <2>3. GuardHolds(rows.parent, r)
        BY <2>1, <2>2 DEF GuardHolds
    <2> QED BY <1>2, <2>2, <2>3, SentPlan
<1>3. CASE Refuse(c)
    BY <1>3, RefusePlan
<1> QED
    <2> HIDE DEF CanEdit, Refuse
    <2> QED BY <1>1, <1>2, <1>3 DEF AllowReorder

LEMMA WriteReorderPlan == ASSUME PlanInv, NEW c \in Client, WriteReorder(c) PROVE PlanInv'
<1> DEFINE plan == sent[c]
           p == rows.parent
           ms == ToSet(plan.ids)
<1>1. /\ plan # NoPlan /\ plan.stage = "allowed" /\ plan.parent \in Folder \cup {Root}
      /\ GuardHolds(p, plan)
    BY DEF WriteReorder, PlanInv, Sane
<1>2. CASE AllThere(plan) /\ Write(Reordered(plan), Served(c), TRUE) /\ overtaken' = (overtaken \/ plan.stale)
    <2>1. ms \in SUBSET Folder /\ (plan.parent # Root => Has(rows, plan.parent))
        BY <1>2 DEF AllThere, Has
    <2>2. ~plan.stale => ~Cyclic(p, ms, plan.parent)
        BY <1>1 DEF GuardHolds
    <2>3. Reordered(plan).parent = Move(p, ms, plan.parent)
        BY DEF Reordered, Move
    <2>4. DOMAIN Reordered(plan) = {"parent", "position"}
        BY DEF Reordered
    <2>5. overtaken' \/ Acyclic(Move(p, ms, plan.parent))
        <3> SUFFICES ASSUME ~overtaken, ~plan.stale PROVE Acyclic(Move(p, ms, plan.parent))
            BY <1>2
        <3> QED BY <1>1, <2>1, <2>2, PlanTrees, MoveKeepsAcyclic DEF PlanInv
    <2>6. Move(p, ms, plan.parent) \in PlanTree
        BY <1>1 DEF PlanInv, PlanTree, Move
    <2>7. Rooted(Move(p, ms, plan.parent))
        <3>1. plan.parent \in Folder => Exists(p, plan.parent)
            BY <1>1, <2>1, KnownIs, OutsideAssumption, GoneAssumption DEF PlanInv
        <3> QED BY <1>1, <3>1, OutsideAssumption, GoneAssumption DEF PlanInv, Rooted, Move
    <2>8. \A d \in Client : Served(c)[d] # NoPlan => Sane(Served(c)[d])
        BY ServedPlan DEF PlanInv
    <2>9. overtaken => overtaken'
        BY <1>2
    <2>10. TRUE \in BOOLEAN
        OBVIOUS
    <2> HIDE DEF ms, p, plan
    <2> QED BY <1>2, <2>3, <2>4, <2>5, <2>6, <2>7, <2>8, <2>9, <2>10, WritePlan
<1>3. CASE Refuse(c)
    BY <1>3, RefusePlan
<1> QED BY <1>2, <1>3 DEF WriteReorder

LEMMA CreatePlan ==
    ASSUME PlanInv, NEW c \in Client, NEW f \in Folder, NEW q \in Folder \cup {Root}, Create(c, f, q)
    PROVE  PlanInv'
<1> DEFINE p == rows.parent
           new == [rows EXCEPT !.parent[f] = q, !.position[f] = 0]
<1>0. q = Root \/ Has(rows, q)
    BY DEF Create, CanEdit, Reaches
<1>1. p[f] = Absent /\ (q \in Folder => Exists(p, q)) /\ Write(new, sent, FALSE) /\ overtaken' = overtaken
    BY <1>0, KnownIs, PlanTrees, OutsideAssumption, GoneAssumption DEF Create, PlanInv
<1>2. DOMAIN new = {"parent", "position"} /\ new.parent = [p EXCEPT ![f] = q]
    BY DEF PlanInv
<1> HIDE DEF new
<1>3. p \in PlanTree /\ Rooted(p) /\ (overtaken \/ Acyclic(p))
    BY DEF PlanInv
<1>4. new.parent \in PlanTree
    BY <1>2, <1>3 DEF PlanTree
<1>5. Grown(p, new.parent, {f})
    BY <1>1, <1>2, <1>3 DEF Grown, PlanTree
<1>6. overtaken' \/ Acyclic(new.parent)
    BY <1>1, <1>3, <1>4, <1>5, PlanTrees, GrownKeepsAcyclic
<1>7. Rooted(new.parent)
    BY <1>1, <1>2, <1>3, OutsideAssumption, GoneAssumption DEF Rooted, PlanTree
<1>8. ASSUME NEW d \in Client, sent[d] # NoPlan PROVE GuardHolds(new.parent, sent[d])
    <2>1. Sane(sent[d]) /\ GuardHolds(p, sent[d])
        BY <1>8 DEF PlanInv
    <2>2. f # sent[d].parent
        BY <1>8 DEF Create, Unheard
    <2>3. ASSUME ~Cyclic(p, ToSet(sent[d].ids), sent[d].parent)
          PROVE  ~Cyclic(new.parent, ToSet(sent[d].ids), sent[d].parent)
        <3> SUFFICES ASSUME sent[d].parent # Root, NEW m \in ToSet(sent[d].ids)
                     PROVE  ~IsDescendant(new.parent, m, sent[d].parent)
            BY DEF Cyclic
        <3>1. sent[d].parent \in Folder \ {f} /\ ~IsDescendant(p, m, sent[d].parent)
            BY <2>1, <2>2, <2>3 DEF Sane, Cyclic
        <3> QED BY <1>3, <1>4, <1>5, <3>1, PlanTrees, GrownKeepsApart
    <2> QED BY <2>1, <2>3 DEF GuardHolds
<1> HIDE DEF p
<1>9. \A d \in Client : sent[d] # NoPlan => Sane(sent[d]) /\ (FALSE \/ GuardHolds(new.parent, sent[d]))
    BY <1>8 DEF PlanInv
<1> QED BY <1>1, <1>2, <1>4, <1>6, <1>7, <1>9, WritePlan

LEMMA DeletePlan == ASSUME PlanInv, NEW f \in Folder, Delete(f) PROVE PlanInv'
<1> DEFINE p == rows.parent
           new == [rows EXCEPT !.parent[f] = Absent, !.position[f] = 0]
<1>1. (\A g \in Folder : p[g] # f) /\ Write(new, sent, FALSE) /\ overtaken' = overtaken
    BY DEF Delete
<1>2. DOMAIN new = {"parent", "position"} /\ new.parent = [p EXCEPT ![f] = Absent]
    BY DEF PlanInv
<1> HIDE DEF new
<1>3. p \in PlanTree /\ Rooted(p) /\ (overtaken \/ Acyclic(p))
    BY DEF PlanInv
<1>4. new.parent \in PlanTree
    BY <1>2, <1>3 DEF PlanTree
<1>5. Cut(p, new.parent)
    BY <1>2, <1>3, OutsideAssumption, GoneAssumption DEF Cut, PlanTree
<1>6. overtaken' \/ Acyclic(new.parent)
    BY <1>1, <1>3, <1>4, <1>5, PlanTrees, CutKeepsAcyclic
<1>7. Rooted(new.parent)
    BY <1>1, <1>2, <1>3, OutsideAssumption, GoneAssumption DEF Rooted, PlanTree
<1>8. ASSUME NEW d \in Client, sent[d] # NoPlan PROVE GuardHolds(new.parent, sent[d])
    <2>1. Sane(sent[d]) /\ GuardHolds(p, sent[d])
        BY <1>8 DEF PlanInv
    <2>2. ASSUME ~Cyclic(p, ToSet(sent[d].ids), sent[d].parent)
          PROVE  ~Cyclic(new.parent, ToSet(sent[d].ids), sent[d].parent)
        <3> SUFFICES ASSUME sent[d].parent # Root, NEW m \in ToSet(sent[d].ids)
                     PROVE  ~IsDescendant(new.parent, m, sent[d].parent)
            BY DEF Cyclic
        <3>1. sent[d].parent \in Folder /\ ~IsDescendant(p, m, sent[d].parent)
            BY <2>1, <2>2 DEF Sane, Cyclic
        <3> QED BY <1>3, <1>4, <1>5, <3>1, PlanTrees, CutKeepsApart
    <2> QED BY <2>1, <2>2 DEF GuardHolds
<1> HIDE DEF p
<1>9. \A d \in Client : sent[d] # NoPlan => Sane(sent[d]) /\ (FALSE \/ GuardHolds(new.parent, sent[d]))
    BY <1>8 DEF PlanInv
<1> QED BY <1>1, <1>2, <1>4, <1>6, <1>7, <1>9, WritePlan

LEMMA DropPlan == ASSUME PlanInv, NEW c \in Client, NEW d \in Folder, Drop(c, d) PROVE PlanInv'
<1>0. PICK l : l = OwnSection(c, list[c])
    OBVIOUS
<1>1. PICK plan, target, mode :
         Send(c, l, plan, d, target, mode) /\ plan.parent \in Folder \cup {Root}
    <2>1. CASE Send(c, l, ComputeRootReorder(l, d), d, Root, "inside")
        <3>1. ComputeRootReorder(l, d).parent = Root
            BY DEF ComputeRootReorder
        <3> QED BY <2>1, <3>1
    <2>2. ASSUME NEW target \in Folder, NEW mode \in Mode, Has(l, target),
                 Send(c, l, ComputeReorder(l, d, target, mode), d, target, mode)
          PROVE  \E t, m : Send(c, l, ComputeReorder(l, d, target, mode), d, t, m)
                    /\ ComputeReorder(l, d, target, mode).parent \in Folder \cup {Root}
        <3>1. ComputeReorder(l, d, target, mode) # NoPlan
            BY <2>2 DEF Send
        <3>2. ComputeReorder(l, d, target, mode).parent \in {target, l.parent[target]}
            BY <3>1 DEF ComputeReorder
        <3>3. l.parent \in PlanTree
            BY <1>0, PartCuts DEF OwnSection, PlanInv
        <3>4. l.parent[target] \in Folder \cup {Root}
            BY <2>2, <3>3 DEF Has, PlanTree
        <3> QED BY <2>2, <3>2, <3>4
    <2> QED BY <1>0, <2>1, <2>2 DEF Drop
<1>2. PICK r : r = [parent |-> plan.parent, ids |-> plan.ids, dragged |-> d, target |-> target,
                    mode |-> mode, current |-> list[c] = Listing(c), stage |-> "sent", stale |-> FALSE]
    OBVIOUS
<1>3. Sane(r) /\ r.stage = "sent"
    BY <1>1, <1>2 DEF Sane
<1>4. sent' = [sent EXCEPT ![c] = r] /\ UNCHANGED <<rows, list, writes, overtaken>>
    BY <1>1, <1>2 DEF Send
<1> QED BY <1>3, <1>4, SentPlan DEF GuardHolds

LEMMA NextPlan == PlanInv /\ [PlanNext]_planVars => PlanInv'
<1> SUFFICES ASSUME PlanInv, [PlanNext]_planVars PROVE PlanInv'
    OBVIOUS
<1>1. ASSUME NEW c \in Client, Refresh(c) PROVE PlanInv'
    <2>1. list' = [list EXCEPT ![c] = Listing(c)] /\ UNCHANGED <<rows, sent, overtaken>>
        BY <1>1 DEF Refresh
    <2>2. /\ DOMAIN list' = Client /\ \A d \in Client : list'[d].parent \in PlanTree
          /\ overtaken \/ \A d \in Client : Acyclic(list'[d].parent)
        BY <2>1, ListingCuts DEF PlanInv
    <2>3. \A d \in Client : (sent[d] # NoPlan => Sane(sent[d]) /\ GuardHolds(rows.parent, sent[d]))'
        BY <2>1 DEF PlanInv, Sane, GuardHolds, Cyclic, IsDescendant, UpClosed
    <2> QED BY <2>1, <2>2, <2>3 DEF PlanInv
<1>2. ASSUME NEW c \in Client, ReadReorder(c) \/ AllowReorder(c) \/ WriteReorder(c) PROVE PlanInv'
    BY <1>2, ReadPlan, AllowPlan, WriteReorderPlan
<1>3. ASSUME NEW c \in Client, NEW d \in Folder, Drop(c, d) PROVE PlanInv'
    BY <1>3, DropPlan
<1>4. ASSUME NEW f \in Folder, Delete(f) PROVE PlanInv'
    BY <1>4, DeletePlan
<1>5. ASSUME NEW c \in Client, NEW f \in Folder, NEW q \in Folder \cup {Root}, Create(c, f, q) PROVE PlanInv'
    BY <1>5, CreatePlan
<1>6. CASE UNCHANGED planVars
    BY <1>6 DEF planVars, PlanInv, Sane, GuardHolds, Cyclic, IsDescendant, UpClosed
<1> QED BY <1>1, <1>2, <1>3, <1>4, <1>5, <1>6 DEF PlanNext

LEMMA PlanAlways == PlanSpec => []PlanInv
<1>1. PlanInit => PlanInv
    BY InitPlan
<1>2. PlanInv /\ [PlanNext]_planVars => PlanInv'
    BY NextPlan
<1> QED BY <1>1, <1>2, PTL DEF PlanSpec

\* Every listed folder has a listed ancestor that is a root of the tree shown.
LEMMA AllShown ==
    ASSUME NEW l, l.parent \in PlanTree, Acyclic(l.parent),
           NEW f \in Folder, Has(l, f)
    PROVE  f \in Shown(l)
<1> DEFINE p == l.parent
           Over == {a \in Folder : IsDescendant(p, a, f) /\ Exists(p, a)}
<1>1. f \in Over
    BY KnownIs DEF IsDescendant
<1>2. PICK r \in Over : p[r] \notin Over
    <2> HIDE DEF Over
    <2>1. Over \subseteq Folder
        BY DEF Over
    <2> QED BY <1>1, <2>1 DEF Acyclic
<1>3. ~Has(l, p[r])
    <2>1. ASSUME p[r] \in Folder PROVE IsDescendant(p, p[r], f)
        BY <1>2, <2>1 DEF IsDescendant, UpClosed
    <2> QED BY <1>2, <2>1, KnownIs
<1>4. r \in TreeRoots(l)
    BY <1>2, <1>3, KnownIs DEF TreeRoots
<1>5. WalkMeets(l, r, f)
    BY <1>2, WalkAgrees
<1> QED BY <1>4, <1>5 DEF Shown

\* isDescendant, the walk with its set of visited folders, decides what Folders
\* states of it, on every list a client may have (folder-tree.ts:90-106).
THEOREM WalksFindAncestors == PlanSpec => []DescendantAgrees
<1>1. ASSUME PlanInv, NEW c \in Client, NEW a \in Folder, NEW f \in Folder
      PROVE  WalkMeets(list[c], a, f) = IsDescendant(list[c].parent, a, f)
    <2>1. WalkMeets(list[c], a, f) <=> IsDescendant(list[c].parent, a, f)
        BY <1>1, WalkAgrees DEF PlanInv
    <2>2. WalkMeets(list[c], a, f) \in BOOLEAN
        BY Zenon DEF WalkMeets
    <2>3. IsDescendant(list[c].parent, a, f) \in BOOLEAN
        BY DEF IsDescendant
    <2> QED BY <2>1, <2>2, <2>3
<1>2. PlanInv => DescendantAgrees
    BY <1>1 DEF DescendantAgrees
<1> QED BY <1>2, PlanAlways, PTL

\* Every folder a client has fetched has a row in one of the two sections, until
\* a reorder is written on top of another one that its guard has not seen:
\* however old the lists are that drops are planned with, and whatever happens
\* between the steps of a request, no other plan that is accepted makes a cycle
\* (folder-tree.ts:23-42, shared-folders.ts:9-35, reorder/route.ts:51-99).
THEOREM EveryFolderIsShown == PlanSpec => []EverythingShown
<1>1. ASSUME PlanInv, ~overtaken, NEW c \in Client, NEW f \in Folder, Has(list[c], f)
      PROVE  f \in Shown(OwnSection(c, list[c])) \cup Shown(SharedSection(c, list[c]))
    <2>1. list[c].parent \in PlanTree /\ Acyclic(list[c].parent)
        BY <1>1 DEF PlanInv
    <2>2. ASSUME NEW S, f \in S PROVE f \in Shown(Part(list[c], S))
        <3>1. PICK l : l = Part(list[c], S)
            OBVIOUS
        <3>2. l.parent \in PlanTree /\ Acyclic(l.parent) /\ Has(l, f)
            BY <1>1, <2>1, <2>2, <3>1, PartCuts
        <3> QED BY <3>1, <3>2, AllShown
    <2>3. f \in OwnFolders(c, list[c]) \/ f \in Folder \ OwnFolders(c, list[c])
        OBVIOUS
    <2> HIDE DEF Shown, Part, OwnFolders
    <2> QED BY <2>2, <2>3 DEF OwnSection, SharedSection
<1>2. PlanInv => EverythingShown
    <2> HIDE DEF Shown, OwnSection, SharedSection
    <2> QED BY <1>1 DEF EverythingShown
<1> QED BY <1>2, PlanAlways, PTL

-----------------------------------------------------------------------------
(* The order of siblings, and plans *)

LEMMA IndexIs == \A f \in Folder : Index(f) \in 1 .. Len(Order) /\ Order[Index(f)] = f
<1> SUFFICES ASSUME NEW f \in Folder PROVE Index(f) \in 1 .. Len(Order) /\ Order[Index(f)] = f
    OBVIOUS
<1>1. \E i \in 1 .. Len(Order) : Order[i] = f
    BY OrderAssumption DEF ToSet
<1> QED BY <1>1 DEF Index

\* Every folder has a position.
Placed(l) == l.position \in [Folder -> Nat]

\* By position and then by name is a strict and total order.
LEMMA BeforeOrders ==
    ASSUME NEW l, Placed(l)
    PROVE  /\ \A f \in Folder : ~Before(l, f, f)
           /\ \A f, g, h \in Folder : Before(l, f, g) /\ Before(l, g, h) => Before(l, f, h)
           /\ \A f, g \in Folder : f = g \/ Before(l, f, g) \/ Before(l, g, f)
<1>1. Len(Order) \in Nat
    BY OrderAssumption
<1>2. ASSUME NEW f \in Folder PROVE Index(f) \in Nat
    <2>1. Index(f) \in 1 .. Len(Order)
        BY IndexIs
    <2> QED BY <1>1, <2>1
<1>3. \A f \in Folder : l.position[f] \in Nat
    BY DEF Placed
<1>4. ASSUME NEW f \in Folder, NEW g \in Folder, Index(f) = Index(g) PROVE f = g
    <2>1. Order[Index(f)] = f /\ Order[Index(g)] = g
        BY IndexIs
    <2> QED BY <1>4, <2>1
<1>5. ASSUME NEW f \in Folder PROVE ~Before(l, f, f)
    <2>1. Index(f) \in Nat /\ l.position[f] \in Nat
        BY <1>2, <1>3
    <2> QED BY <2>1 DEF Before
<1>6. ASSUME NEW f \in Folder, NEW g \in Folder, NEW h \in Folder, Before(l, f, g), Before(l, g, h)
      PROVE  Before(l, f, h)
    <2>1. /\ l.position[f] \in Nat /\ l.position[g] \in Nat /\ l.position[h] \in Nat
          /\ Index(f) \in Nat /\ Index(g) \in Nat /\ Index(h) \in Nat
        BY <1>2, <1>3
    <2> HIDE DEF Index
    <2> QED BY <1>6, <2>1 DEF Before
<1>7. ASSUME NEW f \in Folder, NEW g \in Folder PROVE f = g \/ Before(l, f, g) \/ Before(l, g, f)
    <2>1. /\ l.position[f] \in Nat /\ l.position[g] \in Nat
          /\ Index(f) \in Nat /\ Index(g) \in Nat
        BY <1>2, <1>3
    <2> QED BY <1>4, <2>1 DEF Before
<1> QED BY <1>5, <1>6, <1>7

\* How many of a set of folders come before one of them.
Below(l, S, f) == {g \in S : Before(l, g, f)}
Rank(l, S, f) == Cardinality(Below(l, S, f))

LEMMA RankOrders ==
    ASSUME NEW l, Placed(l), NEW S \in SUBSET Folder, NEW f \in S
    PROVE  /\ IsFiniteSet(S) /\ Cardinality(S) \in Nat
           /\ Rank(l, S, f) \in 0 .. Cardinality(S) - 1
           /\ \A g \in S : Before(l, f, g) => Rank(l, S, f) < Rank(l, S, g)
<1>1. IsFiniteSet(S) /\ Cardinality(S) \in Nat
    BY FoldersAreFinite, FS_Subset, FS_CardinalityType
<1>2. ASSUME NEW T \in SUBSET S, NEW U \in SUBSET T, U # T
      PROVE  Cardinality(U) \in Nat /\ Cardinality(T) \in Nat /\ Cardinality(U) < Cardinality(T)
    <2>1. IsFiniteSet(T) /\ IsFiniteSet(U)
        BY <1>1, FS_Subset
    <2>2. Cardinality(U) \in Nat /\ Cardinality(T) \in Nat
        BY <2>1, FS_CardinalityType
    <2>3. Cardinality(U) <= Cardinality(T) /\ (Cardinality(U) = Cardinality(T) => U = T)
        BY <1>2, <2>1, FS_Subset
    <2> QED BY <1>2, <2>2, <2>3
<1>3. Below(l, S, f) \in SUBSET S /\ Below(l, S, f) # S
    BY BeforeOrders DEF Below
<1>4. ASSUME NEW g \in S, Before(l, f, g) PROVE Rank(l, S, f) < Rank(l, S, g)
    <2>1. Below(l, S, g) \in SUBSET S /\ Below(l, S, f) \in SUBSET Below(l, S, g)
        BY <1>4, BeforeOrders DEF Below
    <2>2. f \in Below(l, S, g) /\ f \notin Below(l, S, f)
        BY <1>4, BeforeOrders DEF Below
    <2> QED BY <1>2, <2>1, <2>2 DEF Rank
<1>5. Rank(l, S, f) \in Nat /\ Rank(l, S, f) < Cardinality(S)
    BY <1>2, <1>3 DEF Rank
<1> QED BY <1>1, <1>4, <1>5

\* Sorted lists each folder once, in the order.
LEMMA SortedIs ==
    ASSUME NEW l, Placed(l), NEW S \in SUBSET Folder
    PROVE  /\ Sorted(l, S) \in Seq(Folder) /\ Len(Sorted(l, S)) = Cardinality(S) /\ Cardinality(S) \in Nat
           /\ \A i \in 1 .. Cardinality(S) : Sorted(l, S)[i] \in S
           /\ \A f \in S : \E i \in 1 .. Cardinality(S) : Sorted(l, S)[i] = f
           /\ \A i, j \in 1 .. Cardinality(S) : Before(l, Sorted(l, S)[i], Sorted(l, S)[j]) <=> i < j
<1> DEFINE n == Cardinality(S)
           s == Sorted(l, S)
           r == [f \in S |-> Rank(l, S, f)]
<1>1. IsFiniteSet(S) /\ n \in Nat
    BY FoldersAreFinite, FS_Subset, FS_CardinalityType
<1>2. \A f, g \in S : Before(l, f, g) => r[f] < r[g]
    BY RankOrders
<1>3. \A f \in S : r[f] \in 0 .. n - 1
    BY RankOrders
<1>4. r \in Injection(S, 0 .. n - 1)
    <2>1. \A f, g \in S : r[f] = r[g] => f = g
        BY <1>2, <1>3, BeforeOrders
    <2>2. r \in [S -> 0 .. n - 1]
        BY <1>3
    <2> HIDE DEF r, n
    <2> QED BY <2>1, <2>2 DEF Injection, IsInjective
<1>5. IsFiniteSet(0 .. n - 1) /\ Cardinality(0 .. n - 1) = n
    BY <1>1, FS_Interval
<1>6. r \in Surjection(S, 0 .. n - 1)
    <2> HIDE DEF r
    <2> QED BY <1>4, <1>5, FS_Injection
<1>7. \A i \in 1 .. n : \E f \in S : r[f] = i - 1
    <2>1. \A k \in 0 .. n - 1 : \E f \in S : r[f] = k
        <3> HIDE DEF r, n
        <3> QED BY <1>6 DEF Surjection
    <2> HIDE DEF r
    <2> QED BY <1>1, <2>1
<1>8. s = [i \in 1 .. n |-> CHOOSE f \in S : Rank(l, S, f) = i - 1]
    BY DEF Sorted, Rank, Below
<1>9. \A i \in 1 .. n : s[i] \in S /\ r[s[i]] = i - 1
    BY <1>7, <1>8
<1>10. s \in Seq(Folder) /\ Len(s) = n
    <2>1. s \in [1 .. n -> Folder]
        BY <1>8, <1>9
    <2> HIDE DEF s, n
    <2> QED BY <1>1, <2>1
<1> HIDE DEF s, r
<1>11. \A f \in S : \E i \in 1 .. n : s[i] = f
    <2> SUFFICES ASSUME NEW f \in S PROVE \E i \in 1 .. n : s[i] = f
        OBVIOUS
    <2>1. r[f] \in 0 .. n - 1 /\ r[f] + 1 \in 1 .. n
        BY <1>1, <1>3
    <2>2. s[r[f] + 1] \in S /\ r[s[r[f] + 1]] = r[f]
        BY <1>1, <1>9, <2>1
    <2>3. \A g \in S : r[g] = r[f] => g = f
        BY <1>4 DEF Injection, IsInjective
    <2> QED BY <2>1, <2>2, <2>3
<1>12. ASSUME NEW i \in 1 .. n, NEW j \in 1 .. n PROVE Before(l, s[i], s[j]) <=> i < j
    <2>1. s[i] \in S /\ s[j] \in S /\ r[s[i]] = i - 1 /\ r[s[j]] = j - 1
        BY <1>9
    <2>2. Before(l, s[i], s[j]) => i < j
        BY <1>1, <1>2, <2>1
    <2>3. Before(l, s[j], s[i]) => j < i
        BY <1>1, <1>2, <2>1
    <2>4. s[i] = s[j] => i = j
        BY <1>1, <2>1
    <2> QED BY <1>1, <2>1, <2>2, <2>3, <2>4, BeforeOrders
<1> QED BY <1>1, <1>9, <1>10, <1>11, <1>12 DEF s

\* The ids of a plan: the siblings in their order and the dragged folder.
Placing(l, S, d, ids) ==
    /\ ids \in Seq(Folder) /\ Len(ids) > 0
    /\ \A i \in 1 .. Len(ids) : ids[i] \in S \cup {d}
    /\ \A f \in S \cup {d} : \E i \in 1 .. Len(ids) : ids[i] = f
    /\ \A i, j \in 1 .. Len(ids) : ids[i] = ids[j] => i = j
    /\ \A i, j \in 1 .. Len(ids) : ids[i] # d /\ ids[j] # d => (Before(l, ids[i], ids[j]) <=> i < j)

\* The dragged folder is put in at any place.
LEMMA InsertPlaces ==
    ASSUME NEW l, Placed(l), NEW S \in SUBSET Folder, NEW d \in Folder \ S,
           NEW at \in 1 .. Cardinality(S) + 1
    PROVE  LET ids == InsertAt(Sorted(l, S), at, d) IN
           /\ Placing(l, S, d, ids) /\ Len(ids) = Cardinality(S) + 1 /\ ids[at] = d
           /\ \A i \in 1 .. Cardinality(S) : ids[IF i < at THEN i ELSE i + 1] = Sorted(l, S)[i]
<1>1. PICK n, s, ids : n = Cardinality(S) /\ s = Sorted(l, S) /\ ids = InsertAt(Sorted(l, S), at, d)
    OBVIOUS
<1>2. /\ n \in Nat /\ s \in Seq(Folder) /\ Len(s) = n /\ at \in 1 .. n + 1
      /\ \A i \in 1 .. n : s[i] \in S
      /\ \A f \in S : \E i \in 1 .. n : s[i] = f
      /\ \A i, j \in 1 .. n : Before(l, s[i], s[j]) <=> i < j
    BY <1>1, SortedIs
<1>3. ids = [i \in 1 .. n + 1 |-> IF i < at THEN s[i] ELSE IF i = at THEN d ELSE s[i - 1]]
    BY <1>1, <1>2 DEF InsertAt
<1> DEFINE Old(i) == IF i < at THEN i ELSE i - 1
<1>4. \A i \in 1 .. n + 1 : i # at => Old(i) \in 1 .. n /\ ids[i] = s[Old(i)] /\ ids[i] \in S
    BY <1>2, <1>3
<1>5. \A i, j \in 1 .. n + 1 : i # at /\ j # at => (Old(i) < Old(j) <=> i < j) /\ (Old(i) = Old(j) => i = j)
    BY <1>2
<1>6. ids[at] = d
    BY <1>2, <1>3
<1>7. \A i \in 1 .. n : LET k == IF i < at THEN i ELSE i + 1 IN k \in 1 .. n + 1 /\ ids[k] = s[i]
    BY <1>2, <1>3
<1>8. ids \in Seq(Folder) /\ Len(ids) = n + 1
    <2>1. \A i \in 1 .. n + 1 : ids[i] \in Folder
        BY <1>4, <1>6
    <2>2. ids \in [1 .. n + 1 -> Folder]
        BY <1>3, <2>1
    <2> QED BY <1>2, <2>2
<1>9. \A f \in S \cup {d} : \E i \in 1 .. Len(ids) : ids[i] = f
    <2> SUFFICES ASSUME NEW f \in S PROVE \E i \in 1 .. n + 1 : ids[i] = f
        BY <1>2, <1>6, <1>8
    <2>1. PICK i \in 1 .. n : s[i] = f
        BY <1>2
    <2> QED BY <1>7, <2>1
<1>10. \A i, j \in 1 .. n + 1 : i # at /\ j # at => (Before(l, ids[i], ids[j]) <=> i < j)
    <2> SUFFICES ASSUME NEW i \in 1 .. n + 1, NEW j \in 1 .. n + 1, i # at, j # at
                 PROVE  Before(l, ids[i], ids[j]) <=> i < j
        OBVIOUS
    <2>1. Old(i) \in 1 .. n /\ Old(j) \in 1 .. n /\ ids[i] = s[Old(i)] /\ ids[j] = s[Old(j)]
        BY <1>4
    <2>2. Before(l, s[Old(i)], s[Old(j)]) <=> Old(i) < Old(j)
        BY <1>2, <2>1
    <2>3. Old(i) < Old(j) <=> i < j
        BY <1>5
    <2> HIDE DEF Old
    <2> QED BY <2>1, <2>2, <2>3
<1>11. ASSUME NEW i \in 1 .. n + 1, NEW j \in 1 .. n + 1, ids[i] = ids[j] PROVE i = j
    <2>1. CASE i = at \/ j = at
        BY <1>4, <1>6, <1>11, <2>1
    <2>2. CASE i # at /\ j # at
        <3>1. ~Before(l, ids[i], ids[j]) /\ ~Before(l, ids[j], ids[i])
            BY <1>4, <1>11, <2>2, BeforeOrders
        <3> QED BY <1>2, <1>10, <2>2, <3>1
    <2> QED BY <2>1, <2>2
<1>12. \A i \in 1 .. n + 1 : ids[i] \in S \cup {d} /\ (ids[i] # d => i # at)
    BY <1>4, <1>6
<1>13. Placing(l, S, d, ids)
    BY <1>2, <1>8, <1>9, <1>10, <1>11, <1>12 DEF Placing
<1> QED BY <1>1, <1>6, <1>7, <1>8, <1>13

\* The place that the drop shows.
Lands(ids, d, target, mode) ==
    CASE mode = "inside" -> ids[Len(ids)] = d
      [] mode = "before" -> \E i \in 1 .. Len(ids) - 1 : ids[i] = d /\ ids[i + 1] = target
      [] mode = "after" -> \E i \in 1 .. Len(ids) - 1 : ids[i] = target /\ ids[i + 1] = d

\* A plan that does in l what the drop shows.
Planned(l, r) ==
    /\ Has(l, r.dragged)
    /\ r.parent # Root => ~WalkMeets(l, r.dragged, r.parent)
    /\ Placing(l, Others(l, r.parent, r.dragged), r.dragged, r.ids)
    /\ Lands(r.ids, r.dragged, r.target, r.mode)
    /\ r.mode = "inside" => r.target = r.parent
    /\ r.mode # "inside" => r.target \in Folder \ {r.dragged} /\ l.parent[r.target] = r.parent

\* What the two planners compute.
LEMMA RootPlan ==
    ASSUME NEW l, Placed(l), NEW d \in Folder
    PROVE  LET plan == ComputeRootReorder(l, d) IN
           /\ plan.parent = Root /\ plan.ids \in Seq(Folder)
           /\ Placing(l, Others(l, Root, d), d, plan.ids) /\ Lands(plan.ids, d, Root, "inside")
<1>1. PICK S, s, n : S = Others(l, Root, d) /\ s = Sorted(l, S) /\ n = Cardinality(S)
    OBVIOUS
<1>2. S \in SUBSET Folder /\ d \in Folder \ S
    BY <1>1 DEF Others
<1>3. n \in Nat /\ s \in Seq(Folder) /\ Len(s) = n
    BY <1>1, <1>2, SortedIs
<1>4. Append(s, d) = InsertAt(s, n + 1, d)
    <2>1. Append(s, d) = [i \in 1 .. n + 1 |-> IF i = n + 1 THEN d ELSE s[i]]
        <3>1. PICK a : a = Append(s, d)
            OBVIOUS
        <3>2. a \in Seq(Folder) /\ Len(a) = n + 1
            BY <1>2, <1>3, <3>1
        <3>3. \A i \in 1 .. n + 1 : a[i] = IF i = n + 1 THEN d ELSE s[i]
            BY <1>2, <1>3, <3>1
        <3>4. a \in [1 .. n + 1 -> Folder]
            BY <3>2
        <3> QED BY <3>1, <3>3, <3>4
    <2>2. InsertAt(s, n + 1, d) = [i \in 1 .. n + 1 |-> IF i < n + 1 THEN s[i] ELSE IF i = n + 1 THEN d ELSE s[i - 1]]
        BY <1>3 DEF InsertAt
    <2> QED BY <1>3, <2>1, <2>2
<1>5. n + 1 \in 1 .. n + 1
    BY <1>3
<1>6. PICK ids : ids = InsertAt(s, n + 1, d)
    OBVIOUS
<1>7. Placing(l, S, d, ids) /\ Len(ids) = n + 1 /\ ids[n + 1] = d
    BY <1>1, <1>2, <1>5, <1>6, InsertPlaces
<1>8. ComputeRootReorder(l, d) = [parent |-> Root, ids |-> ids]
    BY <1>1, <1>4, <1>6 DEF ComputeRootReorder
<1>9. Lands(ids, d, Root, "inside")
    BY <1>7 DEF Lands
<1> QED BY <1>1, <1>7, <1>8, <1>9 DEF Placing

LEMMA DropPlanned ==
    ASSUME NEW l, l.parent \in PlanTree, Placed(l), NEW d \in Folder, NEW target \in Folder, NEW mode \in Mode,
           Has(l, target), ComputeReorder(l, d, target, mode) # NoPlan
    PROVE  LET plan == ComputeReorder(l, d, target, mode) IN
           /\ d # target
           /\ plan.parent = (IF mode = "inside" THEN target ELSE l.parent[target])
           /\ plan.parent # Root => ~WalkMeets(l, d, plan.parent)
           /\ Placing(l, Others(l, plan.parent, d), d, plan.ids)
           /\ Lands(plan.ids, d, target, mode)
<1>1. PICK q, S, s, n : /\ q = (IF mode = "inside" THEN target ELSE l.parent[target])
                        /\ S = Others(l, q, d) /\ s = Sorted(l, S) /\ n = Cardinality(S)
    OBVIOUS
<1>2. PICK at : at = (IF mode = "inside" THEN Len(s) + 1 ELSE Place(s, target, mode))
    OBVIOUS
<1>3. PICK plan : plan = ComputeReorder(l, d, target, mode)
    OBVIOUS
<1>4. /\ d # target /\ (q # Root => ~WalkMeets(l, d, q))
      /\ plan = [parent |-> q, ids |-> InsertAt(s, at, d)]
    <2> HIDE DEF Place, WalkMeets
    <2> QED BY <1>1, <1>2, <1>3 DEF ComputeReorder
<1>5. S \in SUBSET Folder /\ d \in Folder \ S
    BY <1>1 DEF Others
<1>6. /\ n \in Nat /\ s \in Seq(Folder) /\ Len(s) = n
      /\ \A f \in S : \E i \in 1 .. n : s[i] = f
    BY <1>1, <1>5, SortedIs
<1>7. CASE mode = "inside"
    <2>1. at = n + 1 /\ at \in 1 .. n + 1
        BY <1>2, <1>6, <1>7
    <2>2. Placing(l, S, d, plan.ids) /\ Len(plan.ids) = n + 1 /\ plan.ids[at] = d
        BY <1>1, <1>4, <1>5, <2>1, InsertPlaces
    <2>3. Lands(plan.ids, d, target, mode)
        BY <1>7, <2>1, <2>2 DEF Lands
    <2> QED BY <1>1, <1>3, <1>4, <2>2, <2>3
<1>8. CASE mode # "inside"
    <2>1. target \in S
        BY <1>1, <1>4, <1>8 DEF Others
    <2>2. PICK i \in 1 .. n : s[i] = target /\ at = IF mode = "before" THEN i ELSE i + 1
        <3>1. \E i \in 1 .. Len(s) : s[i] = target
            BY <1>6, <2>1
        <3> QED BY <1>2, <1>6, <1>8, <3>1 DEF Place
    <2>3. at \in 1 .. n + 1
        BY <1>6, <2>2
    <2>4. /\ Placing(l, S, d, plan.ids) /\ Len(plan.ids) = n + 1 /\ plan.ids[at] = d
          /\ plan.ids[IF i < at THEN i ELSE i + 1] = target
        BY <1>1, <1>4, <1>5, <2>2, <2>3, InsertPlaces
    <2>5. Lands(plan.ids, d, target, mode)
        <3>1. CASE mode = "before"
            <4>1. plan.ids[i] = d /\ plan.ids[i + 1] = target /\ i \in 1 .. Len(plan.ids) - 1
                BY <1>6, <2>2, <2>4, <3>1
            <4> QED BY <3>1, <4>1 DEF Lands
        <3>2. CASE mode = "after"
            <4>1. plan.ids[i + 1] = d /\ plan.ids[i] = target /\ i \in 1 .. Len(plan.ids) - 1
                BY <1>6, <2>2, <2>4, <3>2
            <4> QED BY <3>2, <4>1 DEF Lands
        <3> QED BY <1>8, <3>1, <3>2 DEF Mode
    <2> QED BY <1>1, <1>3, <1>4, <2>4, <2>5
<1> QED BY <1>7, <1>8

-----------------------------------------------------------------------------
(* Plans of lists that are up to date *)

\* In a tree a child is not among the ancestors of its parent.
LEMMA ChildNotAbove ==
    ASSUME NEW p \in PlanTree, Acyclic(p), NEW f \in Folder, NEW q \in Folder, p[f] = q
    PROVE  ~IsDescendant(p, f, q)
<1> SUFFICES ASSUME IsDescendant(p, f, q) PROVE FALSE
    OBVIOUS
<1> DEFINE T == {a \in Folder : IsDescendant(p, a, q) /\ IsDescendant(p, f, a)}
<1>1. q \in T
    BY DEF IsDescendant
<1>2. PICK a \in T : p[a] \notin T
    <2>1. T \in SUBSET Folder /\ T # {}
        BY <1>1
    <2> HIDE DEF T
    <2> QED BY <2>1 DEF Acyclic
<1>3. CASE p[a] \in Folder
    <2>1. IsDescendant(p, p[a], q)
        BY <1>2, <1>3 DEF IsDescendant, UpClosed
    <2>2. IsDescendant(p, f, p[a])
        <3> SUFFICES ASSUME NEW S \in SUBSET Folder, p[a] \in S, UpClosed(p, S) PROVE f \in S
            BY DEF IsDescendant
        <3>1. S \cup {a} \in SUBSET Folder /\ UpClosed(p, S \cup {a})
            BY <1>2 DEF UpClosed
        <3>2. f \in S \cup {a}
            BY <1>2, <3>1 DEF IsDescendant
        <3>3. CASE f = a
            BY <3>3 DEF IsDescendant
        <3> QED BY <3>2, <3>3
    <2> QED BY <1>2, <1>3, <2>1, <2>2
<1>4. CASE p[a] \notin Folder
    <2>1. {a} \in SUBSET Folder /\ UpClosed(p, {a})
        BY <1>2, <1>4 DEF UpClosed
    <2>2. f = a
        BY <1>2, <2>1 DEF IsDescendant
    <2> QED BY <1>4, <2>2
<1> QED BY <1>3, <1>4

\* An ancestor of an ancestor, and the parent of one.
LEMMA AncestorsChain ==
    ASSUME NEW p, NEW a \in Folder, NEW b \in Folder, NEW c \in Folder,
           IsDescendant(p, a, b), IsDescendant(p, b, c)
    PROVE  IsDescendant(p, a, c)
BY DEF IsDescendant

\* Where the folders between two of them keep their parents, one stays below the
\* other.
LEMMA PathKept ==
    ASSUME NEW p \in PlanTree, NEW q \in PlanTree, NEW a \in Folder, NEW c \in Folder, IsDescendant(p, a, c),
           \A x \in Folder : IsDescendant(p, a, x) /\ IsDescendant(p, x, c) => q[x] = p[x]
    PROVE  IsDescendant(q, a, c)
<1> SUFFICES ASSUME NEW S \in SUBSET Folder, c \in S, UpClosed(q, S), a \notin S PROVE FALSE
    BY DEF IsDescendant
<1> DEFINE T == {x \in S : IsDescendant(p, a, x) /\ IsDescendant(p, x, c)}
<1>1. c \in T
    BY DEF IsDescendant
<1>2. ASSUME NEW x \in T, p[x] \in Folder PROVE p[x] \in T
    <2>1. p[x] \in S
        BY <1>2 DEF UpClosed
    <2>2. IsDescendant(p, p[x], c)
        BY <1>2 DEF IsDescendant, UpClosed
    <2>3. IsDescendant(p, a, p[x])
        <3> SUFFICES ASSUME NEW R \in SUBSET Folder, p[x] \in R, UpClosed(p, R) PROVE a \in R
            BY DEF IsDescendant
        <3>1. R \cup {x} \in SUBSET Folder /\ UpClosed(p, R \cup {x})
            BY DEF UpClosed
        <3>2. a \in R \cup {x}
            BY <3>1 DEF IsDescendant
        <3> QED BY <3>2
    <2> QED BY <2>1, <2>2, <2>3
<1>3. UpClosed(p, T) /\ T \in SUBSET Folder
    BY <1>2 DEF UpClosed
<1> QED BY <1>1, <1>3 DEF IsDescendant

\* What the server lists of a table, and the section of own folders in it.
ReachesIn(t, c, f, rights) ==
    Has(t, f) /\ \E g \in Folder : Grant[c][g] \in rights /\ Has(t, g) /\ WalkMeets(t, g, f)
ListingOf(t, c) == Part(t, {f \in Folder : ReachesIn(t, c, f, {"VIEW", "EDIT", "OWNER"})})
Own(t, c) == OwnFolders(c, ListingOf(t, c))
SectionOf(t, c) == OwnSection(c, ListingOf(t, c))

LEMMA ListingIs ==
    /\ \A c : Listing(c) = ListingOf(rows, c)
    /\ \A c, f : CanEdit(c, f) <=> ReachesIn(rows, c, f, {"EDIT", "OWNER"})
<1> HIDE DEF Has, WalkMeets, Part
<1> QED BY DEF Listing, ListingOf, CanEdit, Reaches, ReachesIn

\* The folders S of a list have their parents and positions there.
LEMMA PartIs ==
    ASSUME NEW l, NEW S, NEW f \in Folder
    PROVE  /\ f \in S => Part(l, S).parent[f] = l.parent[f] /\ Part(l, S).position[f] = l.position[f]
           /\ f \notin S => Part(l, S).parent[f] = Absent
BY DEF Part

\* The section of a client's own folders: what it owns, or has in a folder it
\* owns.
LEMMA SectionIs ==
    ASSUME NEW t, t.parent \in PlanTree, Placed(t), Rooted(t.parent), NEW c \in Client
    PROVE  /\ SectionOf(t, c).parent \in PlanTree /\ Placed(SectionOf(t, c))
           /\ \A f \in Own(t, c) :
                /\ f \in Folder /\ Has(t, f) /\ ReachesIn(t, c, f, {"EDIT", "OWNER"})
                /\ SectionOf(t, c).parent[f] = t.parent[f] /\ SectionOf(t, c).position[f] = t.position[f]
           /\ \A f \in Folder \ Own(t, c) : SectionOf(t, c).parent[f] = Absent
           /\ \A d, q \in Own(t, c) : WalkMeets(t, d, q) => WalkMeets(SectionOf(t, c), d, q)
<1>1. PICK L, l, own, R, p :
         /\ L = ListingOf(t, c) /\ own = Own(t, c) /\ l = SectionOf(t, c) /\ p = t.parent
         /\ R = {f \in Folder : ReachesIn(t, c, f, {"VIEW", "EDIT", "OWNER"})}
    OBVIOUS
<1>2. L = Part(t, R) /\ l = Part(L, own) /\ own = OwnFolders(c, L) /\ own \in SUBSET Folder
    BY <1>1 DEF ListingOf, SectionOf, OwnSection, Own, OwnFolders
<1>3. L.parent \in PlanTree /\ \A f \in Folder : Has(L, f) <=> f \in R /\ Has(t, f)
    BY <1>1, <1>2, PartCuts
<1>4. l.parent \in PlanTree
    BY <1>2, <1>3, PartCuts
<1>5. R \in SUBSET Folder /\ \A f \in R : Has(t, f) /\ Has(L, f) /\ L.parent[f] = p[f] /\ L.position[f] = t.position[f]
    <2>1. R \in SUBSET Folder /\ \A f \in R : Has(t, f)
        BY <1>1 DEF ReachesIn
    <2>2. ASSUME NEW f \in R PROVE L.parent[f] = t.parent[f] /\ L.position[f] = t.position[f]
        BY <1>2, <2>1, PartIs
    <2> QED BY <1>1, <1>3, <2>1, <2>2
<1>6. own \in SUBSET R
    BY <1>1, <1>2, <1>3 DEF OwnFolders
<1>7. Placed(l)
    <2>1. L.position \in [Folder -> Nat]
        BY <1>2 DEF Part, Placed
    <2> QED BY <1>2, <2>1 DEF Part, Placed
<1>8. p \in PlanTree /\ Rooted(p)
    BY <1>1
\* Above a folder of the table there are folders of the table.
<1>9. ASSUME NEW f \in Folder, Has(t, f), NEW x \in Folder, IsDescendant(p, x, f) PROVE Has(t, x)
    <2> DEFINE T == {y \in Folder : Exists(p, y)}
    <2>1. T \in SUBSET Folder /\ UpClosed(p, T)
        BY <1>8 DEF UpClosed, Rooted
    <2>2. f \in T
        BY <1>1, <1>9, KnownIs
    <2>3. x \in T
        BY <1>9, <2>1, <2>2 DEF IsDescendant
    <2> QED BY <1>1, <2>3, KnownIs
\* Below a folder that has been listed because of g, above another one, all are.
<1>10. ASSUME NEW a \in R, NEW f \in Folder, Has(t, f), IsDescendant(p, a, f)
       PROVE  /\ \A x \in Folder : IsDescendant(p, a, x) /\ IsDescendant(p, x, f) => x \in R
              /\ IsDescendant(L.parent, a, f)
    <2>1. PICK g \in Folder : Grant[c][g] \in {"VIEW", "EDIT", "OWNER"} /\ Has(t, g) /\ WalkMeets(t, g, a)
        BY <1>1 DEF ReachesIn
    <2>2. IsDescendant(p, g, a)
        BY <1>1, <1>5, <2>1, WalkAgrees
    <2>3. ASSUME NEW x \in Folder, IsDescendant(p, a, x), IsDescendant(p, x, f) PROVE x \in R
        <3>1. Has(t, x)
            BY <1>9, <1>10, <2>3
        <3>2. IsDescendant(p, g, x)
            BY <1>5, <2>2, <2>3, AncestorsChain
        <3>3. WalkMeets(t, g, x)
            BY <1>1, <3>2, WalkAgrees
        <3> HIDE DEF WalkMeets, Has
        <3> QED BY <1>1, <2>1, <3>1, <3>3 DEF ReachesIn
    <2>4. IsDescendant(L.parent, a, f)
        BY <1>3, <1>5, <1>8, <1>10, <2>3, PathKept
    <2> QED BY <2>3, <2>4
<1>11. ASSUME NEW f \in own PROVE ReachesIn(t, c, f, {"EDIT", "OWNER"})
    <2>1. PICK g \in Folder : Grant[c][g] \in {"VIEW", "EDIT", "OWNER"} /\ Has(t, g) /\ WalkMeets(t, g, f)
        BY <1>1, <1>6 DEF ReachesIn
    <2>2. CASE Grant[c][g] = "VIEW"
        <3>1. g \in R
            <4>1. WalkMeets(t, g, g)
                BY DEF WalkMeets
            <4> HIDE DEF WalkMeets, Has
            <4> QED BY <1>1, <2>1, <4>1 DEF ReachesIn
        <3>2. f \in Folder /\ Has(t, f)
            BY <1>5, <1>6
        <3>3. IsDescendant(p, g, f)
            BY <1>1, <2>1, <3>2, WalkAgrees
        <3>4. IsDescendant(L.parent, g, f)
            BY <1>10, <3>1, <3>2, <3>3
        <3>5. WalkMeets(L, g, f) /\ Has(L, g)
            BY <1>3, <1>5, <3>1, <3>2, <3>4, WalkAgrees
        <3> HIDE DEF WalkMeets, Has
        <3> QED BY <1>2, <2>2, <3>5 DEF OwnFolders
    <2>3. CASE Grant[c][g] # "VIEW"
        <3>1. Has(t, f)
            BY <1>5, <1>6
        <3> HIDE DEF WalkMeets, Has
        <3> QED BY <2>1, <2>3, <3>1 DEF ReachesIn
    <2> QED BY <2>2, <2>3
<1>12. ASSUME NEW f \in own PROVE l.parent[f] = p[f] /\ l.position[f] = t.position[f]
    <2>1. f \in Folder /\ f \in R
        BY <1>2, <1>6
    <2>2. l.parent[f] = L.parent[f] /\ l.position[f] = L.position[f]
        BY <1>2, <2>1, PartIs
    <2> QED BY <1>5, <2>1, <2>2
<1>13. ASSUME NEW f \in Folder \ own PROVE l.parent[f] = Absent
    BY <1>2, PartIs
<1>14. ASSUME NEW d \in own, NEW q \in own, WalkMeets(t, d, q) PROVE WalkMeets(l, d, q)
    <2>1. d \in Folder /\ q \in Folder /\ d \in R /\ q \in R /\ Has(t, q)
        BY <1>5, <1>6
    <2>2. IsDescendant(p, d, q)
        BY <1>1, <1>14, <2>1, WalkAgrees
    <2>3. ASSUME NEW x \in Folder, IsDescendant(p, d, x), IsDescendant(p, x, q) PROVE l.parent[x] = p[x]
        <3>1. x \in R
            BY <1>10, <2>1, <2>2, <2>3
        <3>2. IsDescendant(L.parent, x, q)
            BY <1>10, <2>1, <2>3, <3>1
        <3>3. ASSUME NEW g \in Folder, Grant[c][g] \in {"VIEW", "EDIT"}, Has(L, g), WalkMeets(L, g, x) PROVE FALSE
            <4>1. IsDescendant(L.parent, g, x)
                BY <1>3, <3>3, WalkAgrees
            <4>2. IsDescendant(L.parent, g, q)
                BY <2>1, <3>2, <4>1, AncestorsChain
            <4>3. WalkMeets(L, g, q)
                BY <1>3, <2>1, <4>2, WalkAgrees
            <4> HIDE DEF WalkMeets, Has
            <4> QED BY <1>2, <3>3, <4>3 DEF OwnFolders
        <3>4. Has(L, x)
            BY <1>5, <3>1
        <3>5. x \in own
            <4> HIDE DEF WalkMeets, Has
            <4> QED BY <1>2, <3>3, <3>4 DEF OwnFolders
        <3> QED BY <1>12, <3>5
    <2>4. IsDescendant(l.parent, d, q)
        BY <1>4, <1>8, <2>1, <2>2, <2>3, PathKept
    <2> QED BY <1>4, <2>1, <2>4, WalkAgrees
<1>15. \A f \in own : f \in Folder /\ Has(t, f)
    BY <1>5, <1>6
<1> HIDE DEF WalkMeets, Has
<1> QED BY <1>1, <1>4, <1>7, <1>11, <1>12, <1>13, <1>14, <1>15

\* A request whose list was up to date, with no write since, is a plan of the
\* own section of what the server has.
DropInv ==
    /\ PlanInv
    /\ Placed(rows)
    /\ \A c \in Client : Placed(list[c])
    /\ \A c \in Client : sent[c] # NoPlan =>
          sent[c] \in PlanRequest /\ (sent[c].current => Planned(SectionOf(rows, c), sent[c]))

LEMMA PartPlaced == ASSUME NEW l, Placed(l), NEW S PROVE Placed(Part(l, S))
BY DEF Part, Placed

LEMMA ListingPlaced == ASSUME Placed(rows), NEW c PROVE Placed(Listing(c))
BY PartPlaced DEF Listing

\* A write of a table.
LEMMA WriteDrop ==
    ASSUME DropInv, PlanInv', NEW new, NEW pending, NEW moved \in BOOLEAN, Write(new, pending, moved),
           Placed(new), \A c \in Client : pending[c] # NoPlan => pending[c] \in PlanRequest
    PROVE  DropInv'
<1>1. rows' = new /\ list' = list
    BY DEF Write
<1>2. sent' = [c \in Client |-> IF pending[c] = NoPlan THEN NoPlan ELSE Marked(pending[c], moved)]
    BY DEF Write
<1>3. ASSUME NEW c \in Client, sent'[c] # NoPlan
      PROVE  sent'[c] \in PlanRequest /\ ~sent'[c].current
    <2>1. pending[c] \in PlanRequest /\ sent'[c] = Marked(pending[c], moved)
        BY <1>2, <1>3
    <2> QED BY <2>1 DEF PlanRequest, Marked
<1>4. Placed(rows')
    BY <1>1
<1>5. \A c \in Client : Placed(list'[c])
    BY <1>1 DEF DropInv
<1> HIDE DEF SectionOf, Planned, PlanRequest, Placed
<1> QED BY <1>3, <1>4, <1>5 DEF DropInv

\* A step that leaves the table and the lists alone.
LEMMA StageDrop ==
    ASSUME DropInv, PlanInv', NEW c \in Client, UNCHANGED <<rows, list>>,
           \A d \in Client : sent'[d] # NoPlan =>
              \/ sent[d] # NoPlan /\ sent'[d] = sent[d]
              \/ sent'[d] \in PlanRequest /\ (sent'[d].current => Planned(SectionOf(rows, d), sent'[d]))
    PROVE  DropInv'
<1>1. \A d \in Client : sent'[d] # NoPlan =>
         sent'[d] \in PlanRequest /\ (sent'[d].current => Planned(SectionOf(rows, d), sent'[d]))
    <2> HIDE DEF SectionOf, Planned, PlanRequest
    <2> QED BY DEF DropInv
<1>2. rows' = rows /\ list' = list
    OBVIOUS
<1>3. \A d \in Client : sent'[d] # NoPlan =>
         sent'[d] \in PlanRequest /\ (sent'[d].current => Planned(SectionOf(rows', d), sent'[d]))
    BY <1>1, <1>2
<1>4. Placed(rows') /\ \A d \in Client : Placed(list'[d])
    BY <1>2 DEF DropInv
<1> HIDE DEF SectionOf, Planned, PlanRequest, Placed
<1> QED BY <1>3, <1>4 DEF DropInv

\* The request of c that has passed a stage is the same plan.
LEMMA PassedDrop ==
    ASSUME DropInv, PlanInv', NEW c \in Client, sent[c] # NoPlan, NEW stage \in {"read", "allowed"},
           sent' = [sent EXCEPT ![c] = [sent[c] EXCEPT !.stage = stage]], UNCHANGED <<rows, list>>
    PROVE  DropInv'
<1>1. PICK plan, r : plan = sent[c] /\ r = [plan EXCEPT !.stage = stage]
    OBVIOUS
<1>2. plan \in PlanRequest /\ (plan.current => Planned(SectionOf(rows, c), plan))
    BY <1>1 DEF DropInv
<1>3. /\ r \in PlanRequest /\ r.current = plan.current /\ r.parent = plan.parent /\ r.ids = plan.ids
      /\ r.dragged = plan.dragged /\ r.target = plan.target /\ r.mode = plan.mode
    BY <1>1, <1>2 DEF PlanRequest
<1>4. r.current => Planned(SectionOf(rows, c), r)
    <2> HIDE DEF SectionOf, PlanRequest, Has, WalkMeets, Placing, Others, Lands
    <2> QED BY <1>2, <1>3 DEF Planned
<1>5. \A d \in Client : sent'[d] = IF d = c THEN r ELSE sent[d]
    BY <1>1 DEF DropInv, PlanInv
<1> HIDE DEF SectionOf, Planned, PlanRequest
<1> QED BY <1>3, <1>4, <1>5, StageDrop

LEMMA RefuseDrop == ASSUME DropInv, NEW c \in Client, Refuse(c) PROVE DropInv'
<1>1. sent' = Served(c) /\ UNCHANGED <<rows, list, writes, overtaken>> /\ PlanInv'
    BY RefusePlan DEF Refuse, DropInv
<1>2. \A d \in Client : sent'[d] # NoPlan => sent[d] # NoPlan /\ sent'[d] = sent[d]
    BY <1>1, ServedPlan DEF DropInv
<1> QED BY <1>1, <1>2, StageDrop

LEMMA InitDrop == PlanInit => DropInv
<1> SUFFICES ASSUME PlanInit PROVE DropInv
    OBVIOUS
<1>1. rows.position = [f \in Folder |-> 0]
    BY DEF PlanInit
<1>2. Placed(rows)
    BY <1>1 DEF Placed
<1>3. \A c \in Client : list[c] = Listing(c) /\ sent[c] = NoPlan
    BY DEF PlanInit
<1> QED BY <1>2, <1>3, InitPlan, ListingPlaced DEF DropInv

\* The table after a plan.
LEMMA ReorderedIs ==
    ASSUME Placed(rows), NEW plan, plan.ids \in Seq(Folder)
    PROVE  /\ Placed(Reordered(plan))
           /\ \A f \in Folder \ ToSet(plan.ids) :
                Reordered(plan).parent[f] = rows.parent[f] /\ Reordered(plan).position[f] = rows.position[f]
           /\ \A f \in Folder \cap ToSet(plan.ids) : Reordered(plan).parent[f] = plan.parent
           /\ (\A i, j \in 1 .. Len(plan.ids) : plan.ids[i] = plan.ids[j] => i = j) =>
                \A i \in 1 .. Len(plan.ids) : Reordered(plan).position[plan.ids[i]] = i - 1
<1>1. PICK ids, At : ids = plan.ids /\ At = [f \in ToSet(ids) |-> CHOOSE i \in 1 .. Len(ids) : ids[i] = f]
    OBVIOUS
<1>2. \A f \in ToSet(ids) : At[f] \in 1 .. Len(ids) /\ ids[At[f]] = f
    <2> SUFFICES ASSUME NEW f \in ToSet(ids) PROVE At[f] \in 1 .. Len(ids) /\ ids[At[f]] = f
        OBVIOUS
    <2>1. \E i \in 1 .. Len(ids) : ids[i] = f
        BY DEF ToSet
    <2> QED BY <1>1, <2>1
<1>3. Reordered(plan).position = [f \in Folder |-> IF f \in ToSet(ids) THEN At[f] - 1 ELSE rows.position[f]]
    BY <1>1 DEF Reordered
<1>4. Reordered(plan).parent = [f \in Folder |-> IF f \in ToSet(ids) THEN plan.parent ELSE rows.parent[f]]
    BY <1>1 DEF Reordered
<1>5. Len(ids) \in Nat
    BY <1>1
<1>6. \A f \in Folder : (IF f \in ToSet(ids) THEN At[f] - 1 ELSE rows.position[f]) \in Nat
    BY <1>2, <1>5 DEF Placed
<1>7. Placed(Reordered(plan))
    BY <1>3, <1>6 DEF Placed
<1>8. ASSUME \A i, j \in 1 .. Len(ids) : ids[i] = ids[j] => i = j, NEW i \in 1 .. Len(ids)
      PROVE  Reordered(plan).position[ids[i]] = i - 1
    <2>1. ids[i] \in ToSet(ids) /\ ids[i] \in Folder
        BY <1>1 DEF ToSet
    <2>2. At[ids[i]] = i
        BY <1>2, <1>8, <2>1
    <2> QED BY <1>3, <2>1, <2>2
<1> QED BY <1>1, <1>3, <1>4, <1>7, <1>8

LEMMA ReorderDrop ==
    ASSUME DropInv, NEW c \in Client, ReadReorder(c) \/ AllowReorder(c) \/ WriteReorder(c)
    PROVE  DropInv'
<1>1. PlanInv'
    BY ReadPlan, AllowPlan, WriteReorderPlan DEF DropInv
<1>2. sent[c] # NoPlan /\ sent[c] \in PlanRequest
    BY DEF ReadReorder, AllowReorder, WriteReorder, DropInv
<1>3. CASE Refuse(c)
    BY <1>3, RefuseDrop
<1>4. ASSUME NEW stage \in {"read", "allowed"}, UNCHANGED <<rows, list, writes, overtaken>>,
             sent' = [sent EXCEPT ![c] = [sent[c] EXCEPT !.stage = stage]]
      PROVE  DropInv'
    BY <1>1, <1>2, <1>4, PassedDrop
<1>5. CASE Write(Reordered(sent[c]), Served(c), TRUE)
    <2>1. sent[c].ids \in Seq(Folder)
        BY <1>2 DEF PlanRequest
    <2>2. Placed(Reordered(sent[c]))
        BY <2>1, ReorderedIs DEF DropInv
    <2>3. \A d \in Client : Served(c)[d] # NoPlan => Served(c)[d] \in PlanRequest
        BY ServedPlan DEF DropInv
    <2> HIDE DEF Write
    <2> QED BY <1>1, <1>5, <2>2, <2>3, WriteDrop
<1> HIDE DEF AllThere, WalkMeets, CanEdit, Refuse, Write
<1> QED BY <1>3, <1>4, <1>5 DEF ReadReorder, AllowReorder, WriteReorder

LEMMA CreateDrop ==
    ASSUME DropInv, NEW c \in Client, NEW f \in Folder, NEW q \in Folder \cup {Root}, Create(c, f, q)
    PROVE  DropInv'
<1> DEFINE new == [rows EXCEPT !.parent[f] = q, !.position[f] = 0]
<1>1. Write(new, sent, FALSE)
    BY DEF Create
<1>2. new.position = [rows.position EXCEPT ![f] = 0]
    BY DEF DropInv, PlanInv
<1> HIDE DEF new
<1>3. Placed(new)
    BY <1>2 DEF Placed, DropInv
<1>4. \A d \in Client : sent[d] # NoPlan => sent[d] \in PlanRequest
    BY DEF DropInv
<1>5. PlanInv'
    BY CreatePlan DEF DropInv
<1> QED BY <1>1, <1>3, <1>4, <1>5, WriteDrop

LEMMA DeleteDrop == ASSUME DropInv, NEW f \in Folder, Delete(f) PROVE DropInv'
<1> DEFINE new == [rows EXCEPT !.parent[f] = Absent, !.position[f] = 0]
<1>1. Write(new, sent, FALSE)
    BY DEF Delete
<1>2. new.position = [rows.position EXCEPT ![f] = 0]
    BY DEF DropInv, PlanInv
<1> HIDE DEF new
<1>3. Placed(new)
    BY <1>2 DEF Placed, DropInv
<1>4. \A d \in Client : sent[d] # NoPlan => sent[d] \in PlanRequest
    BY DEF DropInv
<1>5. PlanInv'
    BY DeletePlan DEF DropInv
<1> QED BY <1>1, <1>3, <1>4, <1>5, WriteDrop

\* Requests that are sent.
LEMMA SendDrop ==
    ASSUME DropInv, PlanInv', NEW c \in Client, NEW l, l = OwnSection(c, list[c]),
           NEW plan, NEW d \in Folder, NEW target \in Folder \cup {Root},
           NEW mode \in Mode, Send(c, l, plan, d, target, mode), Has(l, d),
           plan.parent \in Folder \cup {Root}, plan.ids \in Seq(Folder),
           plan.parent # Root => ~WalkMeets(l, d, plan.parent),
           Placing(l, Others(l, plan.parent, d), d, plan.ids),
           Lands(plan.ids, d, target, mode),
           mode = "inside" => target = plan.parent,
           mode # "inside" => target \in Folder \ {d} /\ l.parent[target] = plan.parent
    PROVE  DropInv'
<1>1. PICK r : r = [parent |-> plan.parent, ids |-> plan.ids, dragged |-> d, target |-> target, mode |-> mode,
                    current |-> list[c] = Listing(c), stage |-> "sent", stale |-> FALSE]
    OBVIOUS
<1>2. r \in PlanRequest
    <2>1. (list[c] = Listing(c)) \in BOOLEAN
        OBVIOUS
    <2> QED BY <1>1, <2>1 DEF PlanRequest
<1>3. sent' = [sent EXCEPT ![c] = r] /\ UNCHANGED <<rows, list>>
    BY <1>1 DEF Send
<1>4. ASSUME r.current PROVE Planned(SectionOf(rows, c), r)
    <2>1. l = SectionOf(rows, c)
        BY <1>1, <1>4, ListingIs DEF SectionOf
    <2>2. /\ r.parent = plan.parent /\ r.ids = plan.ids /\ r.dragged = d /\ r.target = target
          /\ r.mode = mode
        BY <1>1
    <2> HIDE DEF Has, WalkMeets, Others, Placing, Lands
    <2> QED BY <2>1, <2>2 DEF Planned
<1>5. \A e \in Client : sent'[e] = IF e = c THEN r ELSE sent[e]
    BY <1>3 DEF DropInv, PlanInv
<1> HIDE DEF SectionOf, Planned, PlanRequest
<1> QED BY <1>2, <1>3, <1>4, <1>5, StageDrop

LEMMA DropDrop == ASSUME DropInv, NEW c \in Client, NEW d \in Folder, Drop(c, d) PROVE DropInv'
<1>0. PICK l : l = OwnSection(c, list[c])
    OBVIOUS
<1>1. PlanInv' /\ Placed(l) /\ l.parent \in PlanTree
    BY <1>0, DropPlan, PartPlaced, PartCuts DEF DropInv, PlanInv, OwnSection
<1>2. Has(l, d)
    BY <1>0 DEF Drop
<1>3. CASE Send(c, l, ComputeRootReorder(l, d), d, Root, "inside")
    <2>1. PICK plan : plan = ComputeRootReorder(l, d)
        OBVIOUS
    <2>2. /\ plan.parent = Root /\ plan.ids \in Seq(Folder)
          /\ Placing(l, Others(l, Root, d), d, plan.ids) /\ Lands(plan.ids, d, Root, "inside")
        BY <1>1, <2>1, RootPlan
    <2>3. "inside" \in Mode
        BY DEF Mode
    <2> HIDE DEF Has, WalkMeets, Others, Placing, Lands, Send
    <2> QED BY <1>0, <1>1, <1>2, <1>3, <2>1, <2>2, <2>3, SendDrop
<1>4. ASSUME NEW target \in Folder, NEW mode \in Mode, Has(l, target),
             Send(c, l, ComputeReorder(l, d, target, mode), d, target, mode)
      PROVE  DropInv'
    <2>1. PICK plan : plan = ComputeReorder(l, d, target, mode)
        OBVIOUS
    <2>2. plan # NoPlan
        BY <1>4, <2>1 DEF Send
    <2>3. /\ d # target
          /\ plan.parent = (IF mode = "inside" THEN target ELSE l.parent[target])
          /\ plan.parent # Root => ~WalkMeets(l, d, plan.parent)
          /\ Placing(l, Others(l, plan.parent, d), d, plan.ids)
          /\ Lands(plan.ids, d, target, mode)
        BY <1>1, <1>4, <2>1, <2>2, DropPlanned
    <2>4. plan.parent \in Folder \cup {Root}
        BY <1>1, <1>4, <2>3 DEF Has, PlanTree
    <2>5. plan.ids \in Seq(Folder)
        BY <2>3 DEF Placing
    <2>6. Send(c, l, plan, d, target, mode)
        BY <1>4, <2>1
    <2> HIDE DEF Has, WalkMeets, Others, Placing, Lands, Send
    <2> QED BY <1>0, <1>1, <1>2, <2>3, <2>4, <2>5, <2>6, SendDrop
<1> HIDE DEF Has, Send, OwnSection
<1> QED BY <1>0, <1>3, <1>4 DEF Drop

LEMMA NextDrop == DropInv /\ [PlanNext]_planVars => DropInv'
<1> SUFFICES ASSUME DropInv, [PlanNext]_planVars PROVE DropInv'
    OBVIOUS
<1>0. PlanInv'
    BY NextPlan DEF DropInv
<1>1. ASSUME rows' = rows, sent' = sent, \A e \in Client : Placed(list'[e]) PROVE DropInv'
    <2>1. Placed(rows')
        BY <1>1 DEF DropInv
    <2>2. \A e \in Client : sent[e] # NoPlan =>
             sent[e] \in PlanRequest /\ (sent[e].current => Planned(SectionOf(rows, e), sent[e]))
        BY DEF DropInv
    <2>3. \A e \in Client : sent'[e] # NoPlan =>
             sent'[e] \in PlanRequest /\ (sent'[e].current => Planned(SectionOf(rows', e), sent'[e]))
        BY <1>1, <2>2
    <2> HIDE DEF SectionOf, Planned, PlanRequest, Placed
    <2> QED BY <1>0, <1>1, <2>1, <2>3 DEF DropInv
<1>2. ASSUME NEW c \in Client, Refresh(c) PROVE DropInv'
    <2>1. list' = [list EXCEPT ![c] = Listing(c)] /\ rows' = rows /\ sent' = sent
        BY <1>2 DEF Refresh
    <2>2. \A e \in Client : Placed(list'[e])
        BY <2>1, ListingPlaced DEF DropInv, PlanInv
    <2> QED BY <1>1, <2>1, <2>2
<1>3. ASSUME NEW c \in Client, ReadReorder(c) \/ AllowReorder(c) \/ WriteReorder(c) PROVE DropInv'
    BY <1>3, ReorderDrop
<1>4. ASSUME NEW c \in Client, NEW d \in Folder, Drop(c, d) PROVE DropInv'
    BY <1>4, DropDrop
<1>5. ASSUME NEW f \in Folder, Delete(f) PROVE DropInv'
    BY <1>5, DeleteDrop
<1>6. ASSUME NEW c \in Client, NEW f \in Folder, NEW q \in Folder \cup {Root}, Create(c, f, q) PROVE DropInv'
    BY <1>6, CreateDrop
<1>7. CASE UNCHANGED planVars
    <2>1. rows' = rows /\ list' = list /\ sent' = sent
        BY <1>7 DEF planVars
    <2>2. \A e \in Client : Placed(list'[e])
        BY <2>1 DEF DropInv
    <2> QED BY <1>1, <2>1, <2>2
<1> QED BY <1>2, <1>3, <1>4, <1>5, <1>6, <1>7 DEF PlanNext

LEMMA PlacingSet == ASSUME NEW l, NEW S, NEW d, NEW ids, Placing(l, S, d, ids) PROVE ToSet(ids) = S \cup {d}
<1>1. ToSet(ids) = {ids[i] : i \in 1 .. Len(ids)}
    BY DEF ToSet, Placing
<1>2. \A i \in 1 .. Len(ids) : ids[i] \in S \cup {d}
    BY DEF Placing
<1>3. \A f \in S \cup {d} : \E i \in 1 .. Len(ids) : ids[i] = f
    BY DEF Placing
<1> QED BY <1>1, <1>2, <1>3, Zenon

\* A request whose list is what the server has, to the root or into an own
\* folder, is refused at no stage.
LEMMA FreshPasses ==
    ASSUME DropInv, NEW c \in Client, sent[c] # NoPlan, sent[c].current,
           sent[c].parent \in Own(rows, c) \cup {Root}, Acyclic(rows.parent)
    PROVE  /\ AllThere(sent[c])
           /\ sent[c].parent # Root => \A f \in ToSet(sent[c].ids) : ~WalkMeets(rows, f, sent[c].parent)
           /\ \A f \in ToSet(sent[c].ids) : CanEdit(c, f)
           /\ sent[c].parent # Root => CanEdit(c, sent[c].parent)
<1>1. PICK r, p, q, d, l, S, ids, own :
        /\ r = sent[c] /\ p = rows.parent /\ q = r.parent /\ d = r.dragged /\ ids = r.ids
        /\ l = SectionOf(rows, c) /\ own = Own(rows, c) /\ S = Others(l, q, d)
    OBVIOUS
<1>2. r \in PlanRequest /\ Planned(l, r)
    BY <1>1 DEF DropInv
<1>3. q \in own \cup {Root} /\ q \in Folder \cup {Root} /\ q # Absent
    BY <1>1, <1>2, OutsideAssumption DEF PlanRequest
<1>4. p \in PlanTree /\ Rooted(p) /\ Acyclic(p) /\ Placed(rows)
    BY <1>1 DEF DropInv, PlanInv
<1>5. /\ \A f \in own : /\ f \in Folder /\ Has(rows, f) /\ ReachesIn(rows, c, f, {"EDIT", "OWNER"})
                        /\ l.parent[f] = p[f]
      /\ \A f \in Folder \ own : l.parent[f] = Absent
      /\ \A x, y \in own : WalkMeets(rows, x, y) => WalkMeets(l, x, y)
    <2> HIDE DEF WalkMeets, Has, ReachesIn, SectionOf, Own
    <2> QED BY <1>1, <1>4, SectionIs
<1>6. Has(l, d) /\ Placing(l, S, d, ids) /\ (q # Root => ~WalkMeets(l, d, q))
    BY <1>1, <1>2 DEF Planned
<1>7. d \in own
    BY <1>5, <1>6 DEF Has
<1>8. \A f \in S : f \in own /\ p[f] = q
    BY <1>1, <1>3, <1>5 DEF Others
<1>9. ToSet(ids) = S \cup {d}
    BY <1>6, PlacingSet
<1>10. ToSet(ids) \in SUBSET own
    BY <1>7, <1>8, <1>9
<1>11. AllThere(r)
    BY <1>1, <1>3, <1>5, <1>10 DEF AllThere
<1>12. (\A f \in ToSet(ids) : CanEdit(c, f)) /\ (q # Root => CanEdit(c, q))
    <2> HIDE DEF CanEdit, ReachesIn
    <2> QED BY <1>3, <1>5, <1>10, ListingIs
<1>13. ASSUME q # Root, NEW f \in ToSet(ids) PROVE ~WalkMeets(rows, f, q)
    <2>1. CASE f = d
        <3> HIDE DEF WalkMeets
        <3> QED BY <1>3, <1>5, <1>6, <1>7, <1>13, <2>1
    <2>2. CASE f # d
        <3>1. f \in Folder /\ q \in Folder /\ p[f] = q
            BY <1>3, <1>5, <1>8, <1>9, <1>13, <2>2
        <3> QED BY <1>1, <1>4, <3>1, ChildNotAbove, WalkAgrees
    <2> QED BY <2>1, <2>2
<1> QED BY <1>1, <1>11, <1>12, <1>13

\* So what it does when it has been answered is what was shown.
LEMMA FreshWrites ==
    ASSUME DropInv, NEW c \in Client, ReadReorder(c) \/ AllowReorder(c) \/ WriteReorder(c),
           sent'[c] = NoPlan, sent[c].current,
           sent[c].parent \in Own(rows, c) \cup {Root}, Acyclic(rows.parent)
    PROVE  rows' = Reordered(sent[c])
<1>1. sent[c] # NoPlan /\ sent[c] \in PlanRequest /\ DOMAIN sent = Client
    BY DEF ReadReorder, AllowReorder, WriteReorder, DropInv, PlanInv
<1>2. ASSUME NEW stage \in {"read", "allowed"}, sent' = [sent EXCEPT ![c] = [sent[c] EXCEPT !.stage = stage]]
      PROVE  FALSE
    <2>1. sent'[c] = [sent[c] EXCEPT !.stage = stage]
        BY <1>1, <1>2
    <2>2. sent'[c] \in PlanRequest
        BY <1>1, <2>1 DEF PlanRequest
    <2> QED BY <2>2, NoPlanAssumption
<1>3. /\ AllThere(sent[c])
      /\ sent[c].parent # Root => \A f \in ToSet(sent[c].ids) : ~WalkMeets(rows, f, sent[c].parent)
      /\ \A f \in ToSet(sent[c].ids) : CanEdit(c, f)
      /\ sent[c].parent # Root => CanEdit(c, sent[c].parent)
    BY <1>1, FreshPasses
<1> HIDE DEF AllThere, WalkMeets, CanEdit, PlanRequest, Reordered
<1>4. ~ReadReorder(c)
    BY <1>2, <1>3 DEF ReadReorder
<1>5. ~AllowReorder(c)
    BY <1>2, <1>3 DEF AllowReorder
<1>6. WriteReorder(c)
    BY <1>4, <1>5
<1> QED BY <1>3, <1>6 DEF WriteReorder, Write

LEMMA FreshLands ==
    ASSUME DropInv, NEW c \in Client, sent[c] # NoPlan, sent[c].current, rows' = Reordered(sent[c]),
           sent[c].parent \in Own(rows, c) \cup {Root}
    PROVE  LandsAs(sent[c], Own(rows, c)) /\ OthersStay(sent[c].dragged, Own(rows, c))
<1>1. PICK r, p, q, d, l, S, ids, own :
        /\ r = sent[c] /\ p = rows.parent /\ q = r.parent /\ d = r.dragged /\ ids = r.ids
        /\ l = SectionOf(rows, c) /\ own = Own(rows, c) /\ S = Others(l, q, d)
    OBVIOUS
<1>2. r \in PlanRequest /\ Planned(l, r)
    BY <1>1 DEF DropInv
<1>3. /\ q \in own \cup {Root} /\ q \in Folder \cup {Root} /\ q # Absent /\ d \in Folder /\ ids \in Seq(Folder)
      /\ r.mode \in Mode /\ r.target \in Folder \cup {Root}
    BY <1>1, <1>2, OutsideAssumption DEF PlanRequest
<1>4. p \in PlanTree /\ Rooted(p) /\ Placed(rows)
    BY <1>1 DEF DropInv, PlanInv
<1>5. /\ \A f \in own : f \in Folder /\ l.parent[f] = p[f] /\ l.position[f] = rows.position[f]
      /\ \A f \in Folder \ own : l.parent[f] = Absent
    <2> HIDE DEF WalkMeets, Has, ReachesIn, SectionOf, Own
    <2> QED BY <1>1, <1>4, SectionIs
<1>6. /\ Has(l, d) /\ Placing(l, S, d, ids) /\ Lands(ids, d, r.target, r.mode)
      /\ r.mode = "inside" => r.target = q
      /\ r.mode # "inside" => r.target \in Folder \ {d} /\ l.parent[r.target] = q
    BY <1>1, <1>2 DEF Planned
<1>7. d \in own
    BY <1>5, <1>6 DEF Has
<1>8. \A f \in Folder : f \in S <=> f # d /\ f \in own /\ p[f] = q
    BY <1>1, <1>3, <1>5 DEF Others
<1>9. S \in SUBSET Folder /\ ToSet(ids) = S \cup {d}
    <2>1. S \in SUBSET Folder
        BY <1>1 DEF Others
    <2> QED BY <1>6, <2>1, PlacingSet
<1>11. PICK new : new = Reordered(r)
    OBVIOUS
<1>10. rows' = new
    BY <1>1, <1>11
<1>12. /\ \A f \in Folder \ (S \cup {d}) : new.parent[f] = p[f] /\ new.position[f] = rows.position[f]
       /\ \A f \in S \cup {d} : new.parent[f] = q
       /\ Placed(new)
       /\ \A i \in 1 .. Len(ids) : new.position[ids[i]] = i - 1
    <2>1. S \cup {d} \in SUBSET Folder
        BY <1>3, <1>9
    <2>2. \A i, j \in 1 .. Len(ids) : ids[i] = ids[j] => i = j
        BY <1>6 DEF Placing
    <2> QED BY <1>1, <1>3, <1>4, <1>9, <1>11, <2>1, <2>2, ReorderedIs
<1>13. Len(ids) \in Nat
    BY <1>3
<1>14. ASSUME NEW i \in 1 .. Len(ids), NEW j \in 1 .. Len(ids)
       PROVE  Before(new, ids[i], ids[j]) <=> i < j
    <2>1. ids[i] \in Folder /\ ids[j] \in Folder
        BY <1>3
    <2>2. new.position[ids[i]] = i - 1 /\ new.position[ids[j]] = j - 1
        BY <1>12
    <2>3. i # j => (Before(new, ids[i], ids[j]) <=> i < j)
        BY <1>13, <2>2 DEF Before
    <2>4. i = j => ~Before(new, ids[i], ids[j])
        BY <1>12, <2>1, BeforeOrders
    <2> QED BY <1>13, <2>3, <2>4
<1>15. \A f \in Folder \ {d} : new.parent[f] = p[f]
    BY <1>8, <1>12
<1>16. \A f \in own : new.parent[f] = q <=> f \in S \cup {d}
    BY <1>3, <1>5, <1>8, <1>12
<1>17. ASSUME NEW f \in Folder \ {d}, NEW g \in Folder \ {d}, new.parent[f] = new.parent[g], f \in own <=> g \in own
       PROVE  Before(new, f, g) <=> Before(rows, f, g)
    <2>1. CASE f \in S /\ g \in S
        <3>1. PICK i, j \in 1 .. Len(ids) : ids[i] = f /\ ids[j] = g
            BY <1>6, <2>1 DEF Placing
        <3>2. Before(l, f, g) <=> i < j
            BY <1>6, <1>17, <3>1 DEF Placing
        <3>3. Before(rows, f, g) <=> Before(l, f, g)
            BY <1>5, <1>8, <2>1 DEF Before
        <3> QED BY <1>14, <3>1, <3>2, <3>3
    <2>2. CASE f \notin S /\ g \notin S
        BY <1>12, <2>2 DEF Before
    <2>3. f \in S <=> g \in S
        BY <1>8, <1>16, <1>17
    <2> QED BY <2>1, <2>2, <2>3
<1>18. OthersStay(d, own)
    BY <1>1, <1>10, <1>15, <1>17 DEF OthersStay, Siblings
<1>19. ASSUME NEW i \in 1 .. Len(ids) - 1 PROVE Adjacent(new, own, ids[i], ids[i + 1])
    <2>1. i \in 1 .. Len(ids) /\ i + 1 \in 1 .. Len(ids) /\ i < i + 1
        BY <1>13
    <2>2. ids[i] \in S \cup {d} /\ ids[i + 1] \in S \cup {d}
        BY <1>6, <2>1 DEF Placing
    <2>3. ASSUME NEW h \in own, new.parent[h] = q, Before(new, ids[i], h), Before(new, h, ids[i + 1]) PROVE FALSE
        <3>1. PICK j \in 1 .. Len(ids) : ids[j] = h
            BY <1>6, <1>16, <2>3 DEF Placing
        <3>2. i < j /\ j < i + 1
            BY <1>14, <2>1, <2>3, <3>1
        <3> QED BY <1>13, <3>2
    <2> QED BY <1>12, <1>14, <2>1, <2>2, <2>3 DEF Adjacent, Siblings
<1>20. LandsAs(r, own)
    <2>1. CASE r.mode = "inside"
        <3>1. ids[Len(ids)] = d /\ r.target = q /\ Len(ids) \in 1 .. Len(ids)
            BY <1>6, <1>13, <2>1 DEF Lands, Placing
        <3>2. ASSUME NEW f \in own \ {d}, new.parent[f] = q PROVE Before(new, f, d)
            <4>1. PICK i \in 1 .. Len(ids) : ids[i] = f
                BY <1>6, <1>16, <3>2 DEF Placing
            <4>2. i < Len(ids)
                BY <1>13, <3>1, <3>2, <4>1
            <4> QED BY <1>14, <3>1, <4>1, <4>2
        <3> QED BY <1>1, <1>10, <1>12, <2>1, <3>1, <3>2 DEF LandsAs
    <2>2. CASE r.mode = "before"
        <3>1. PICK i \in 1 .. Len(ids) - 1 : ids[i] = d /\ ids[i + 1] = r.target
            BY <1>6, <2>2 DEF Lands
        <3> QED BY <1>1, <1>10, <1>19, <2>2, <3>1 DEF LandsAs
    <2>3. CASE r.mode = "after"
        <3>1. PICK i \in 1 .. Len(ids) - 1 : ids[i] = r.target /\ ids[i + 1] = d
            BY <1>6, <2>3 DEF Lands
        <3> QED BY <1>1, <1>10, <1>19, <2>3, <3>1 DEF LandsAs
    <2> QED BY <1>3, <2>1, <2>2, <2>3 DEF Mode
<1> QED BY <1>1, <1>18, <1>20

\* Who is answered.
LEMMA HandledIs ==
    ASSUME DropInv, [PlanNext]_planVars, NEW c \in Client, sent[c] # NoPlan, sent'[c] = NoPlan
    PROVE  ReadReorder(c) \/ AllowReorder(c) \/ WriteReorder(c)
<1>1. sent[c] \in PlanRequest /\ DOMAIN sent = Client
    BY DEF DropInv, PlanInv
<1>2. ASSUME NEW new, NEW pending, NEW moved \in BOOLEAN, Write(new, pending, moved), pending[c] = sent[c]
      PROVE  FALSE
    <2>1. sent'[c] = Marked(sent[c], moved)
        BY <1>2 DEF Write
    <2>2. sent'[c] \in PlanRequest
        BY <1>1, <2>1 DEF PlanRequest, Marked
    <2> QED BY <2>2, NoPlanAssumption
<1>3. ASSUME NEW d \in Client, d # c, NEW r, sent' = [sent EXCEPT ![d] = r] PROVE FALSE
    BY <1>1, <1>3
<1>4. ASSUME NEW d \in Client, ReadReorder(d) \/ AllowReorder(d) \/ WriteReorder(d), d # c PROVE FALSE
    <2>1. Served(d)[c] = sent[c]
        BY <1>1, <1>4 DEF Served
    <2>2. ~Refuse(d)
        BY <2>1 DEF Refuse
    <2>3. ~Write(Reordered(sent[d]), Served(d), TRUE)
        BY <1>2, <2>1
    <2> HIDE DEF AllThere, WalkMeets, CanEdit, Refuse, Write
    <2> QED BY <1>3, <1>4, <2>2, <2>3 DEF ReadReorder, AllowReorder, WriteReorder
<1>5. ASSUME NEW d \in Client, NEW f \in Folder, Drop(d, f) PROVE FALSE
    <2>1. sent[d] = NoPlan
        BY <1>5 DEF Drop
    <2>2. PICK r : sent' = [sent EXCEPT ![d] = r]
        BY <1>5 DEF Drop, Send
    <2> QED BY <1>3, <2>1, <2>2
<1>6. ASSUME NEW f \in Folder, Delete(f) PROVE FALSE
    BY <1>2, <1>6 DEF Delete
<1>7. ASSUME NEW d \in Client, NEW f \in Folder, NEW q \in Folder \cup {Root}, Create(d, f, q) PROVE FALSE
    BY <1>2, <1>7 DEF Create
<1>8. ~UNCHANGED sent
    OBVIOUS
<1> QED BY <1>4, <1>5, <1>6, <1>7, <1>8 DEF PlanNext, planVars, Refresh

\* A drop on a sidebar that is up to date, to the root or into a folder of the
\* own section, is accepted and does what it shows: in that section the dragged
\* folder lands beside its target, or last in it, nothing else changes its
\* parent and no other siblings change their order
\* (folder-tree.ts:163-203, FolderTree.tsx:169-192, reorder/route.ts:51-99).
THEOREM FreshDropsLand == PlanSpec => FreshDropLands
<1>1. PlanInit => DropInv
    BY InitDrop
<1>2. DropInv /\ [PlanNext]_planVars => DropInv'
    BY NextDrop
<1>3. ASSUME DropInv, [PlanNext]_planVars, NEW c \in Client PROVE DropLands(c)
    <2> SUFFICES ASSUME Handled(c), sent[c].current, Acyclic(rows.parent),
                        sent[c].parent \in OwnFolders(c, Listing(c)) \cup {Root}
                 PROVE  /\ LandsAs(sent[c], OwnFolders(c, Listing(c)))
                        /\ OthersStay(sent[c].dragged, OwnFolders(c, Listing(c)))
        BY DEF DropLands
    <2>1. OwnFolders(c, Listing(c)) = Own(rows, c)
        BY ListingIs DEF Own
    <2>2. sent[c] # NoPlan /\ sent'[c] = NoPlan
        BY DEF Handled
    <2>3. ReadReorder(c) \/ AllowReorder(c) \/ WriteReorder(c)
        BY <1>3, <2>2, HandledIs
    <2>4. rows' = Reordered(sent[c])
        BY <1>3, <2>1, <2>2, <2>3, FreshWrites
    <2> QED BY <1>3, <2>1, <2>2, <2>4, FreshLands
<1>4. DropInv /\ [PlanNext]_planVars => [\A c \in Client : DropLands(c)]_planVars
    BY <1>3
<1> QED BY <1>1, <1>2, <1>4, PTL DEF PlanSpec, FreshDropLands

-----------------------------------------------------------------------------
(* Paths *)

\* Induction, with a set for the property.
LEMMA SetInduction ==
    ASSUME NEW S, 0 \in S, \A n \in Nat : n \in S => n + 1 \in S
    PROVE  Nat \subseteq S
<1> SUFFICES ASSUME Nat \ S # {} PROVE FALSE
    OBVIOUS
<1>1. PICK n \in Nat \ S : \A m \in Nat \ S : n <= m
    BY LeastElement
<1>2. n - 1 \in Nat /\ n - 1 \in S
    BY <1>1
<1> QED BY <1>1, <1>2

\* A function applied again and again.
Iterable(X, base, step) ==
    \E R \in [Nat -> X] : R[0] = base /\ \A n \in Nat : R[n + 1] = step[R[n]]

LEMMA Iterates == \A X : \A base \in X, step \in [X -> X] : Iterable(X, base, step)
<1> SUFFICES ASSUME NEW X, NEW base \in X, NEW step \in [X -> X]
             PROVE  \E R \in [Nat -> X] : R[0] = base /\ \A n \in Nat : R[n + 1] = step[R[n]]
    BY DEF Iterable
<1> DEFINE Starts(n, r) == r[0] = base /\ \A d \in 1 .. n : r[d] = step[r[d - 1]]
           S == {n \in Nat : \E r \in [0 .. n -> X] : Starts(n, r)}
           c == [n \in Nat |-> CHOOSE r \in [0 .. n -> X] : Starts(n, r)]
           R == [n \in Nat |-> c[n][n]]
<1>1. 0 \in S
    <2> DEFINE r == [d \in 0 .. 0 |-> base]
    <2>1. r \in [0 .. 0 -> X] /\ Starts(0, r)
        OBVIOUS
    <2> QED BY <2>1
<1>2. ASSUME NEW n \in Nat, n \in S PROVE n + 1 \in S
    <2>1. PICK r \in [0 .. n -> X] : Starts(n, r)
        BY <1>2
    <2> DEFINE q == [d \in 0 .. n + 1 |-> IF d = n + 1 THEN step[r[n]] ELSE r[d]]
    <2>2. q \in [0 .. n + 1 -> X]
        OBVIOUS
    <2>3. Starts(n + 1, q)
        <3>1. q[0] = base
            BY <2>1
        <3>2. ASSUME NEW d \in 1 .. n + 1 PROVE q[d] = step[q[d - 1]]
            <4>1. CASE d = n + 1
                BY <4>1
            <4>2. CASE d # n + 1
                BY <2>1, <4>2
            <4> QED BY <4>1, <4>2
        <3> QED BY <3>1, <3>2
    <2> HIDE DEF q
    <2> QED BY <2>2, <2>3
<1>3. \A n \in Nat : n \in S
    <2> HIDE DEF S
    <2> QED BY <1>1, <1>2, SetInduction
<1>4. ASSUME NEW n \in Nat PROVE c[n] \in [0 .. n -> X] /\ Starts(n, c[n])
    BY <1>3
<1> HIDE DEF c
<1>5. ASSUME NEW n \in Nat PROVE c[n + 1][n] = c[n][n]
    <2> DEFINE T == {d \in Nat : d <= n => c[n + 1][d] = c[n][d]}
    <2>1. 0 \in T
        BY <1>4
    <2>2. ASSUME NEW d \in Nat, d \in T PROVE d + 1 \in T
        <3> SUFFICES ASSUME d + 1 <= n PROVE c[n + 1][d + 1] = c[n][d + 1]
            OBVIOUS
        <3>1. c[n + 1][d + 1] = step[c[n + 1][d]] /\ c[n][d + 1] = step[c[n][d]]
            BY <1>4
        <3> QED BY <2>2, <3>1
    <2>3. n \in T
        <3> HIDE DEF T
        <3> QED BY <2>1, <2>2, SetInduction
    <2> QED BY <2>3
<1>6. R \in [Nat -> X] /\ R[0] = base
    BY <1>4
<1>7. ASSUME NEW n \in Nat PROVE R[n + 1] = step[R[n]]
    <2>1. c[n + 1][n + 1] = step[c[n + 1][n]]
        BY <1>4
    <2> QED BY <1>5, <2>1
<1> HIDE DEF R
<1> QED BY <1>6, <1>7


\* The loop runs: the cursor starts at f and goes from parent to parent.
LEMMA CursorIs ==
    ASSUME NEW l, l.parent \in PlanTree, NEW f \in Folder
    PROVE  /\ Cursor(l, f) \in [Nat -> Folder \cup {Root}] /\ Cursor(l, f)[0] = f
           /\ \A n \in Nat : Cursor(l, f)[n + 1] = ParentIn(l, Cursor(l, f)[n])
<1> DEFINE X == Folder \cup {Root}
           step == [g \in X |-> ParentIn(l, g)]
           Rec(at) == at = [n \in Nat |-> IF n = 0 THEN f ELSE ParentIn(l, at[n - 1])]
           c == CHOOSE at : Rec(at)
<1>1. f \in X /\ step \in [X -> X]
    BY DEF ParentIn, Has, PlanTree
<1>2. PICK R \in [Nat -> X] : R[0] = f /\ \A n \in Nat : R[n + 1] = step[R[n]]
    <2>1. Iterable(X, f, step)
        <3> HIDE DEF step, X
        <3> QED BY <1>1, Iterates
    <2> QED BY <2>1 DEF Iterable
<1>3. ASSUME NEW n \in Nat PROVE R[n] = IF n = 0 THEN f ELSE ParentIn(l, R[n - 1])
    <2>1. CASE n = 0
        BY <1>2, <2>1
    <2>2. CASE n # 0
        <3>1. n - 1 \in Nat /\ n = (n - 1) + 1
            BY <2>2
        <3>2. R[n] = step[R[n - 1]] /\ R[n - 1] \in X
            BY <1>2, <3>1
        <3> QED BY <2>2, <3>2
    <2> QED BY <2>1, <2>2
<1>4. Rec(R)
    <2>1. PICK Q : Q = [n \in Nat |-> IF n = 0 THEN f ELSE ParentIn(l, R[n - 1])]
        OBVIOUS
    <2>2. R = Q
        BY <1>2, <1>3, <2>1
    <2> QED BY <2>1, <2>2
<1>5. Rec(c)
    <2> HIDE DEF Rec
    <2> QED BY <1>4
<1>6. Cursor(l, f) = c
    BY DEF Cursor
<1> HIDE DEF c
<1>7. c[0] = f /\ \A n \in Nat : c[n + 1] = ParentIn(l, c[n])
    BY <1>5
<1>8. \A n \in Nat : c[n] \in X
    <2> DEFINE T == {n \in Nat : c[n] \in X}
    <2>1. 0 \in T
        BY <1>7
    <2>2. ASSUME NEW n \in Nat, n \in T PROVE n + 1 \in T
        <3>1. c[n + 1] = step[c[n]]
            BY <1>7, <2>2
        <3> HIDE DEF step
        <3> QED BY <1>1, <2>2, <3>1
    <2> HIDE DEF T
    <2>3. Nat \subseteq T
        BY <2>1, <2>2, SetInduction
    <2> QED BY <2>3 DEF T
<1>9. c \in [Nat -> X]
    BY <1>5, <1>8
<1> QED BY <1>6, <1>7, <1>9

\* The loop ends, and in a tree it ends above the root.
LEMMA RoundsEnd ==
    ASSUME NEW l, l.parent \in PlanTree, Acyclic(l.parent), NEW f \in Folder
    PROVE  LET at == Cursor(l, f)
               n == Rounds(at)
           IN  n \in Nat \ {0} /\ at[n] = Root /\ \A m \in 0 .. n - 1 : at[m] \in Folder
<1>1. PICK at : at = Cursor(l, f)
    OBVIOUS
<1>2. at \in [Nat -> Folder \cup {Root}] /\ at[0] = f /\ \A n \in Nat : at[n + 1] = ParentIn(l, at[n])
    BY <1>1, CursorIs
<1>3. PICK N : N = Cardinality(Folder) /\ N \in Nat
    BY FoldersAreFinite, FS_CardinalityType
<1>4. \E n \in 1 .. N : Ends(at, n)
    <2>1. CASE \A m \in 0 .. N : at[m] \in Folder
        <3>1. PICK w : w = [m \in 0 .. N |-> at[m]]
            OBVIOUS
        <3>2. w \in [0 .. N -> Folder]
            BY <2>1, <3>1
        <3>3. IsFiniteSet(0 .. N) /\ Cardinality(0 .. N) = N + 1
            BY <1>3, FS_Interval
        <3>4. PICK x \in 0 .. N, y \in 0 .. N : x # y /\ w[x] = w[y]
            BY <1>3, <3>2, <3>3, FoldersAreFinite, FS_PigeonHole
        <3>5. at[x] = at[y]
            BY <3>1, <3>4
        <3>6. CASE x < y
            BY <1>3, <3>5, <3>6 DEF Ends
        <3>7. CASE y < x
            BY <1>3, <3>5, <3>7 DEF Ends
        <3> QED BY <3>4, <3>6, <3>7
    <2>2. ASSUME NEW m \in 0 .. N, at[m] \notin Folder PROVE \E n \in 1 .. N : Ends(at, n)
        <3>1. m # 0 /\ at[m] = Root
            BY <1>2, <1>3, <2>2
        <3>2. m \in 1 .. N
            BY <1>3, <3>1
        <3> QED BY <3>1, <3>2 DEF Ends
    <2> QED BY <2>1, <2>2
<1>5. PICK n : n = Rounds(at)
    OBVIOUS
<1>6. n \in 1 .. N /\ Ends(at, n) /\ \A m \in 1 .. n - 1 : ~Ends(at, m)
    <2> DEFINE E == {k \in 1 .. N : Ends(at, k)}
    <2>1. E \in SUBSET Nat /\ E # {}
        BY <1>3, <1>4
    <2>2. PICK k \in E : \A m \in E : k <= m
        <3> HIDE DEF E
        <3> QED BY <2>1, LeastElement
    <2>3. k \in 1 .. N /\ Ends(at, k) /\ \A m \in 1 .. k - 1 : ~Ends(at, m)
        <3>1. k \in 1 .. N /\ Ends(at, k)
            BY <2>2
        <3>2. ASSUME NEW m \in 1 .. k - 1, Ends(at, m) PROVE FALSE
            <4>1. m \in 1 .. N /\ m < k
                BY <1>3, <3>1
            <4> QED BY <1>3, <2>2, <3>1, <3>2, <4>1
        <3> QED BY <3>1, <3>2
    <2> QED BY <1>3, <1>5, <2>3 DEF Rounds
<1>7. n \in Nat \ {0}
    BY <1>3, <1>6
<1>8. ASSUME NEW m \in 0 .. n - 1 PROVE at[m] \in Folder
    <2>1. CASE m = 0
        BY <1>2, <2>1
    <2>2. CASE m # 0
        <3>1. m \in 1 .. n - 1 /\ m \in Nat
            BY <1>7, <2>2
        <3> QED BY <1>2, <1>6, <3>1 DEF Ends
    <2> QED BY <2>1, <2>2
<1>9. at[n] = Root
    <2> SUFFICES ASSUME NEW m \in 0 .. n - 1, at[m] = at[n] PROVE FALSE
        BY <1>6 DEF Ends
    <2> DEFINE T == {at[k] : k \in m .. n - 1}
    <2>1. m \in Nat /\ m \in m .. n - 1 /\ n - 1 \in Nat
        BY <1>7
    <2>2. T \in SUBSET Folder /\ T # {}
        BY <1>7, <1>8, <2>1
    <2>3. ASSUME NEW k \in m .. n - 1 PROVE l.parent[at[k]] \in T
        <3>1. k \in Nat /\ k \in 0 .. n - 1
            BY <1>7, <2>1
        <3>2. at[k + 1] \in T
            <4>1. CASE k = n - 1
                BY <1>7, <2>1, <4>1
            <4>2. CASE k # n - 1
                <5>1. k + 1 \in m .. n - 1
                    BY <1>7, <3>1, <4>2
                <5> QED BY <5>1
            <4> QED BY <4>1, <4>2
        <3>3. at[k + 1] = ParentIn(l, at[k]) /\ at[k + 1] \in Folder
            BY <1>2, <2>2, <3>1, <3>2
        <3>4. at[k + 1] = l.parent[at[k]]
            BY <3>3, OutsideAssumption DEF ParentIn
        <3> QED BY <3>2, <3>4
    <2>4. \A g \in T : l.parent[g] \in T
        BY <2>3
    <2> HIDE DEF T
    <2> QED BY <2>2, <2>4 DEF Acyclic
<1> QED BY <1>1, <1>5, <1>7, <1>8, <1>9

\* Down the names of a path that was read going up.
LEMMA ResolveDescends ==
    ASSUME NEW l, Unambiguous(l), NEW n \in Nat \ {0}, NEW up, up[n] = Root,
           \A m \in 0 .. n - 1 : Has(l, up[m]) /\ l.parent[up[m]] = up[m + 1],
           NEW path, path # <<>>, Len(path) = n, \A i \in 1 .. n : path[i] = NameOf[up[n - i]]
    PROVE  ResolveFolderPath(l, path) = up[0]
<1> DEFINE Hits(i, q) == {f \in Folder : Has(l, f) /\ l.parent[f] = q /\ NameOf[f] = path[i]}
           Rec(at) == at = [i \in 0 .. n |-> IF i = 0 THEN Root ELSE First(l, Hits(i, at[i - 1]))]
           c == CHOOSE at : Rec(at)
<1>1. ResolveFolderPath(l, path) = c[n]
    BY DEF ResolveFolderPath
<1>2. ASSUME NEW i \in 1 .. n PROVE First(l, Hits(i, up[n - (i - 1)])) = up[n - i]
    <2>1. n - i \in 0 .. n - 1 /\ n - (i - 1) = (n - i) + 1
        OBVIOUS
    <2>2. up[n - i] \in Hits(i, up[n - (i - 1)])
        BY <2>1 DEF Has
    <2>3. \A g \in Hits(i, up[n - (i - 1)]) : g = up[n - i]
        BY <2>2 DEF Unambiguous
    <2>4. Hits(i, up[n - (i - 1)]) = {up[n - i]}
        BY <2>2, <2>3
    <2> HIDE DEF Hits
    <2> QED BY <2>4 DEF First
<1> HIDE DEF Hits
<1>3. PICK w : w = [i \in 0 .. n |-> up[n - i]]
    OBVIOUS
<1>4. Rec(w)
    <2>1. PICK Q : Q = [i \in 0 .. n |-> IF i = 0 THEN Root ELSE First(l, Hits(i, w[i - 1]))]
        OBVIOUS
    <2>2. ASSUME NEW i \in 0 .. n PROVE w[i] = Q[i]
        <3>1. CASE i = 0
            BY <1>3, <2>1, <3>1
        <3>2. CASE i # 0
            <4>1. i \in 1 .. n /\ i - 1 \in 0 .. n
                BY <3>2
            <4>2. w[i - 1] = up[n - (i - 1)]
                BY <1>3, <4>1
            <4> QED BY <1>2, <1>3, <2>1, <3>2, <4>1, <4>2
        <3> QED BY <3>1, <3>2
    <2>3. w = Q
        BY <1>3, <2>1, <2>2
    <2> QED BY <2>1, <2>3
<1>5. Rec(c)
    <2> HIDE DEF Rec
    <2> QED BY <1>4
<1> HIDE DEF c
<1>6. c[0] = Root /\ \A i \in 1 .. n : c[i] = First(l, Hits(i, c[i - 1]))
    <2>1. 0 \in 0 .. n /\ \A i \in 1 .. n : i \in 0 .. n /\ i # 0
        OBVIOUS
    <2> QED BY <1>5, <2>1
<1>7. c[n] = up[0]
    <2> DEFINE T == {i \in Nat : i <= n => c[i] = up[n - i]}
    <2>1. 0 \in T
        BY <1>6
    <2>2. ASSUME NEW i \in Nat, i \in T PROVE i + 1 \in T
        <3> SUFFICES ASSUME i + 1 <= n PROVE c[i + 1] = up[n - (i + 1)]
            OBVIOUS
        <3>1. i + 1 \in 1 .. n /\ (i + 1) - 1 = i /\ i <= n
            OBVIOUS
        <3>2. c[i] = up[n - i]
            BY <2>2, <3>1
        <3>3. c[i + 1] = First(l, Hits(i + 1, c[i]))
            BY <1>6, <3>1
        <3>4. First(l, Hits(i + 1, up[n - i])) = up[n - (i + 1)]
            BY <1>2, <3>1
        <3> QED BY <3>2, <3>3, <3>4
    <2>3. n \in T
        <3> HIDE DEF T
        <3> QED BY <2>1, <2>2, SetInduction
    <2> QED BY <2>3
<1> QED BY <1>1, <1>7

\* The path read going up leads back down to where it was read from.
LEMMA PathLeadsBack ==
    ASSUME NEW l, l.parent \in PlanTree, Acyclic(l.parent), Unambiguous(l),
           NEW f \in Folder, FolderPath(l, f) # <<>>
    PROVE  Selected(l, f) = f
<1>1. PICK at, n : at = Cursor(l, f) /\ n = Rounds(at)
    OBVIOUS
<1>2. n \in Nat \ {0} /\ at[n] = Root /\ \A m \in 0 .. n - 1 : at[m] \in Folder
    BY <1>1, RoundsEnd
<1>3. at[0] = f /\ \A m \in Nat : at[m + 1] = ParentIn(l, at[m])
    BY <1>1, CursorIs
<1>4. PICK chain : chain = Chain(l, f)
    OBVIOUS
<1>5. chain = [i \in 1 .. n |-> at[n - i]]
    BY <1>1, <1>4 DEF Chain
<1>6. Len(chain) = n
    <2>1. chain \in [1 .. n -> Folder]
        BY <1>2, <1>5
    <2> QED BY <1>2, <2>1
<1>7. PICK path : path = FolderPath(l, f)
    OBVIOUS
<1>8. /\ \A i \in 1 .. n : Has(l, chain[i])
      /\ path = [i \in 1 .. n |-> NameOf[chain[i]]]
    BY <1>4, <1>6, <1>7 DEF FolderPath
<1>9. Len(path) = n /\ \A i \in 1 .. n : path[i] = NameOf[at[n - i]]
    <2>1. \A i \in 1 .. n : path[i] = NameOf[at[n - i]]
        BY <1>5, <1>8
    <2>2. PICK T : T = {NameOf[g] : g \in Folder}
        OBVIOUS
    <2>3. \A i \in 1 .. n : path[i] \in T
        BY <1>2, <2>1, <2>2
    <2>4. path \in [1 .. n -> T]
        BY <1>8, <2>3
    <2>5. Len(path) = n
        BY <1>2, <2>4
    <2> QED BY <2>1, <2>5
<1>10. ASSUME NEW m \in 0 .. n - 1 PROVE Has(l, at[m]) /\ l.parent[at[m]] = at[m + 1]
    <2>1. n - m \in 1 .. n /\ n - (n - m) = m /\ m \in Nat
        BY <1>2
    <2>2. Has(l, at[m])
        BY <1>5, <1>8, <2>1
    <2> QED BY <1>3, <2>1, <2>2 DEF ParentIn
<1>11. path # <<>>
    BY <1>7
<1>12. ResolveFolderPath(l, path) = at[0]
    BY <1>2, <1>9, <1>10, <1>11, ResolveDescends
<1> QED BY <1>3, <1>7, <1>12 DEF Selected

\* The path of a folder leads back to it wherever the path is unambiguous: the
\* folders on it are all listed, no two siblings have the same name and the
\* list has no cycle (folder-tree.ts:216-267, NotesShell.tsx:225-235).
THEOREM PathsAreFaithful == PlanSpec => []PathsLeadBack
<1>1. PlanInv => PathsLeadBack
    BY PathLeadsBack DEF PlanInv, PathsLeadBack
<1> QED BY <1>1, PlanAlways, PTL
=============================================================================
