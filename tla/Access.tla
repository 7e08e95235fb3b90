------------------------------- MODULE Access -------------------------------
(***************************************************************************)
(* Rights on notes and folders: resolution and listing (lib/notes/         *)
(* access.ts), the routes under app/api that decide with them, the shares  *)
(* they read, and the tokens of collab sessions (api/collab, worker        *)
(* yjs/token.ts, yjs/server.ts).                                           *)
(*                                                                         *)
(* A request resolves rights with one query after the other, and writes    *)
(* with yet another one.  Here each query is a step; what a write does     *)
(* beyond rows, folders and shares is left out.                            *)
(***************************************************************************)
EXTENDS Naturals, Sequences, FiniteSets

CONSTANTS
    User, Note, Folder,
    None,         \* null: no folder, no row, no request
    MaxDepth,     \* MAX_FOLDER_DEPTH
    TTL,          \* TTL_SECONDS of a token, in ticks of the clock
    Seeds,        \* databases to start from
    Ops,          \* the kinds of request each user makes
    MaxRequests,  \* bound on the requests made
    MaxClock      \* bound on the clock

ASSUME NoneAssumption == None \notin User \cup Note \cup Folder
ASSUME ItemAssumption == Note \cap Folder = {} /\ IsFiniteSet(Folder)
ASSUME BoundAssumption == /\ MaxDepth \in Nat \ {0} /\ TTL \in Nat
                          /\ MaxRequests \in Nat /\ MaxClock \in Nat

VARIABLES
    \* The database
    folder,  \* [owner, parent] of each folder, or None
    note,    \* [author, folder, archived] of each note, or None
    shares,
    clock,
    \* The requests, one at a time for each user
    req, made,
    \* Collab sessions
    tokens, conns,
    \* History variable, read by properties only
    lost     \* 0: could never edit, k + 1: lost it at tick k, or Holds

db == <<folder, note, shares, clock>>
sessions == <<tokens, conns>>
vars == <<db, req, made, sessions, lost>>

-----------------------------------------------------------------------------
(* Types. *)

\* RANK, with 0 for null.
VIEW == 1
EDIT == 2
OWNER == 3

Item == Note \cup Folder
Forever == MaxClock + 1  \* expiresAt is null
Holds == MaxClock + 2

FolderRow == [owner : User, parent : Folder \cup {None}]
NoteRow == [author : User, folder : Folder \cup {None}, archived : BOOLEAN]
\* made: stands for the id, so that a share made anew is not the old one.
Share == [on : Item, to : User, access : {VIEW, EDIT}, until : 1 .. Forever,
          by : User, made : 0 .. MaxRequests]
Grant == [to : User, access : {VIEW, EDIT}, ttl : {0, 1}]
Need == [on : Item, min : {VIEW, EDIT, OWNER}]

\* What a request has read, and per need the rights it has resolved (got).
\* held and overlap are history: the best right held on each needed item since
\* the request began, and the writes of others and ticks in that time, up to 2.
AllOps == {"read", "edit", "archive", "restore", "file", "destroy", "copy", "create", "mkdir",
           "move", "rmdir", "share", "revoke", "token"}
Request == [op : AllOps,
            on : Item \cup {None},
            arg : Folder \cup {None} \cup Grant \cup Share,
            needs : Seq(Need),
            stage : {"note", "chain", "grants", "tree", "write"},
            row : Folder \cup {None}, chain : SUBSET Folder,
            got : Seq(0 .. 3), held : Seq(0 .. 3), overlap : 0 .. 2]

\* sure: not more than one write or tick overlapped with the request.
Token == [user : User, note : Note, write : BOOLEAN, exp : Nat, sure : BOOLEAN]
Conn == [user : User, note : Note, write : BOOLEAN, opened : Nat, sure : BOOLEAN]

Folders == {f \in Folder : folder[f] # None}
Notes == {n \in Note : note[n] # None}

\* The keys of the schema: one share for each item and user, and no row refers
\* to one that is not there.
Consistent(fs, ns, ss) ==
    LET there == {f \in Folder : fs[f] # None} \cup {n \in Note : ns[n] # None}
    IN  /\ fs \in [Folder -> FolderRow \cup {None}]
        /\ ns \in [Note -> NoteRow \cup {None}]
        /\ ss \subseteq Share
        /\ \A s, t \in ss : s.on = t.on /\ s.to = t.to => s = t
        /\ \A f \in Folder \cap there : fs[f].parent \in there \cup {None}
        /\ \A n \in Note \cap there : ns[n].folder \in there \cup {None}
        /\ \A s \in ss : s.on \in there

ASSUME RowAssumption == None \notin FolderRow \cup NoteRow /\ None \notin Request
ASSUME SeedAssumption == \A seed \in Seeds : Consistent(seed.folder, seed.note, seed.shares)

TypeOK ==
    /\ Consistent(folder, note, shares)
    /\ clock \in 0 .. MaxClock /\ made \in 0 .. MaxRequests
    /\ req \in [User -> Request \cup {None}]
    /\ tokens \subseteq Token /\ conns \subseteq Conn
    /\ lost \in [User -> [Note -> 0 .. Holds]]

-----------------------------------------------------------------------------
(* Resolution. *)

Best(levels) == IF levels = {} THEN 0
                ELSE CHOOSE a \in levels : \A b \in levels : b <= a

\* f and its ancestors in a tree, of which there may be more than depth or, when
\* moves have raced, a cycle.
Up(tree, f, depth) ==
    LET row[d \in 0 .. depth - 1] ==
            IF d = 0 THEN {g \in {f} \cap Folder : tree[g] # None}
            ELSE {tree[g].parent : g \in row[d - 1]} \ {None}
    IN  UNION {row[d] : d \in 0 .. depth - 1}

FolderChain(f) == Up(folder, f, MaxDepth)

ActiveShares(u, items) == {s \in shares : s.to = u /\ s.on \in items /\ s.until > clock}

Granted(u, items) == Best({s.access : s \in ActiveShares(u, items)})

OwnsOneOf(u, chain) == \E f \in chain : folder[f] # None /\ folder[f].owner = u

FolderAccess(u, f) ==
    IF OwnsOneOf(u, FolderChain(f)) THEN OWNER ELSE Granted(u, FolderChain(f))

NoteAccess(u, n) ==
    CASE note[n] = None -> 0
      [] note[n] # None /\ note[n].author = u -> OWNER
      [] OTHER -> LET chain == FolderChain(note[n].folder)
                  IN  IF OwnsOneOf(u, chain) THEN OWNER ELSE Granted(u, {n} \cup chain)

Access(u, x) == IF x \in Note THEN NoteAccess(u, x) ELSE FolderAccess(u, x)

-----------------------------------------------------------------------------
(* Listing. *)

\* The folders of base, and those of listed that are below them.
Below(listed, base) ==
    LET level[d \in 0 .. Cardinality(Folder)] ==
            IF d = 0 THEN base
            ELSE LET over == level[d - 1]
                 IN  over \cup {f \in listed : folder[f].parent \in over}
    IN  level[Cardinality(Folder)]

OwnedFolders(u) == {f \in Folders : folder[f].owner = u}
SharedFolders(u) == {s.on : s \in ActiveShares(u, Folder)}

\* Mutant: nothing below them.
AccessibleFoldersFlat(u) == OwnedFolders(u) \cup SharedFolders(u)

\* The folders u owns or has a share on, and everything below them.
AccessibleFolders(u) == Below(Folders, OwnedFolders(u) \cup SharedFolders(u))

SharedNotes(u) == {s.on : s \in ActiveShares(u, Note)}

\* The list of notes, with includeArchived or without.
ListedNotes(u, archived) ==
    LET folders == AccessibleFolders(u)
    IN  {n \in Notes : /\ note[n].archived => archived
                       /\ \/ note[n].author = u
                          \/ note[n].folder \in folders
                          \/ n \in SharedNotes(u)}

\* The search and the two pages have the filter in queries of their own.
SearchHits(u) == ListedNotes(u, FALSE)
IndexPageNotes(u) == ListedNotes(u, FALSE)

\* section=shared
SharedSection(u) == {n \in Notes \cap SharedNotes(u) : note[n].author # u /\ ~note[n].archived}

\* Mutant: only the shared folders themselves are told apart.
OwnFoldersByRoot(u) == AccessibleFolders(u) \ SharedFolders(u)

\* partitionSharedFolders: below a folder that was shared with u, as far as the
\* list goes, everything is shown as shared.
OwnFolders(u) ==
    LET listed == AccessibleFolders(u)
    IN  listed \ Below(listed, SharedFolders(u))

-----------------------------------------------------------------------------
(* What each route asks for.  The handlers that only read, or write nothing *)
(* that rights depend on, differ by the item and the right they need.       *)

Needs(x, min) == <<[on |-> x, min |-> min]>>
NeedsTarget(f) == IF f = None THEN <<>> ELSE Needs(f, EDIT)
FirstStage(needs) == IF needs = <<>> THEN "write"
                     ELSE IF needs[1].on \in Note THEN "note" ELSE "chain"

Ask(op, x, arg, needs) ==
    [op |-> op, on |-> x, arg |-> arg, needs |-> needs, stage |-> FirstStage(needs),
     row |-> None, chain |-> {}, got |-> <<>>, held |-> <<>>, overlap |-> 0]

GetNote(n) == Ask("read", n, None, Needs(n, VIEW))
GetHistory(n) == Ask("read", n, None, Needs(n, VIEW))
GetAsset(n) == Ask("read", n, None, Needs(n, VIEW))
GetPreview(n) == Ask("read", n, None, Needs(n, VIEW))
NotePage(n) == Ask("read", n, None, Needs(n, VIEW))
GetFolder(f) == Ask("read", f, None, Needs(f, VIEW))
ListNoteShares(n) == Ask("read", n, None, Needs(n, EDIT))
ListFolderShares(f) == Ask("read", f, None, Needs(f, EDIT))

UploadAsset(n) == Ask("edit", n, None, Needs(n, EDIT))
PatchCaption(n) == Ask("edit", n, None, Needs(n, EDIT))
\* DELETE without hard=1 archives; PATCH restores.
ArchiveNote(n) == Ask("archive", n, None, Needs(n, EDIT))
RestoreNote(n) == Ask("restore", n, None, Needs(n, EDIT))
DestroyNote(n) == Ask("destroy", n, None, Needs(n, OWNER))

\* Mutant: the target folder is not looked at.
PatchNoteUnfiled(n, f) == Ask("file", n, f, Needs(n, EDIT))

PatchNote(n, f) == Ask("file", n, f, Needs(n, EDIT) \o NeedsTarget(f))

\* The folder of the copy is that of the row read first.
DuplicateNote(n) == Ask("copy", None, note[n].folder, Needs(n, VIEW))
CreateNote(f) == Ask("create", None, f, NeedsTarget(f))
CreateFolder(p) == Ask("mkdir", None, p, NeedsTarget(p))
PatchFolder(f, p) == Ask("move", f, p, Needs(f, EDIT) \o NeedsTarget(p))

\* Children and notes are counted before rights are resolved; a folder with any
\* is refused in the end.
DeleteFolder(f) == Ask("rmdir", f, None, Needs(f, OWNER))
Empty(f) == /\ \A g \in Folders : folder[g].parent # f
            /\ \A n \in Notes : note[n].folder # f

ShareNote(n, grant) == Ask("share", n, grant, Needs(n, EDIT))
ShareFolder(f, grant) == Ask("share", f, grant, Needs(f, EDIT))
RevokeNoteShare(s) == Ask("revoke", s.on, s, Needs(s.on, EDIT))
RevokeFolderShare(s) == Ask("revoke", s.on, s, Needs(s.on, EDIT))
CollabToken(n) == Ask("token", n, None, Needs(n, VIEW))

\* What u may send; the first query has found its row.
Requests(u) ==
    (UNION {{GetNote(n), GetHistory(n), GetAsset(n), GetPreview(n), NotePage(n),
            ListNoteShares(n), UploadAsset(n), PatchCaption(n), ArchiveNote(n),
            RestoreNote(n), DestroyNote(n), DuplicateNote(n), CollabToken(n)} : n \in Notes})
    \cup (UNION {{GetFolder(f), ListFolderShares(f)} : f \in Folders})
    \cup {PatchNote(n, f) : n \in Notes, f \in Folder \cup {None}}
    \cup (UNION {{CreateNote(p), CreateFolder(p)} : p \in Folder \cup {None}})
    \cup (UNION {{PatchFolder(f, p) : p \in (Folder \cup {None}) \ {f}} : f \in Folders})
    \cup {DeleteFolder(f) : f \in {g \in Folders : Empty(g)}}
    \cup {ShareNote(n, g) : n \in Notes, g \in {h \in Grant : h.to # u}}
    \cup {ShareFolder(f, g) : f \in Folders, g \in {h \in Grant : h.to # u}}
    \cup {RevokeNoteShare(s) : s \in {t \in shares : t.on \in Note}}
    \cup {RevokeFolderShare(s) : s \in {t \in shares : t.on \in Folder}}

-----------------------------------------------------------------------------
Init ==
    /\ \E seed \in Seeds : /\ folder = seed.folder
                           /\ note = seed.note
                           /\ shares = seed.shares
    /\ clock = 0
    /\ req = [u \in User |-> None] /\ made = 0
    /\ tokens = {} /\ conns = {}
    /\ lost = [u \in User |-> [n \in Note |-> IF NoteAccess(u, n) >= EDIT THEN Holds ELSE 0]]

\* Bookkeeping of a change of the database: what the requests under way will
\* have to be measured by.
Watched(r, u) ==
    IF r = None THEN None
    ELSE [r EXCEPT !.overlap = IF @ = 2 THEN 2 ELSE @ + 1,
                   !.held = [i \in DOMAIN r.needs |->
                                Best({r.held[i]} \cup {Access(u, x)' : x \in {r.needs[i].on}})]]
Account ==
    lost' = [u \in User |-> [n \in Note |->
                CASE NoteAccess(u, n)' >= EDIT -> Holds
                  [] NoteAccess(u, n)' < EDIT /\ lost[u][n] = Holds -> clock' + 1
                  [] OTHER -> lost[u][n]]]

Send(u) ==
    /\ req[u] = None /\ made < MaxRequests
    /\ made' = made + 1
    /\ \E r \in Requests(u) :
          /\ r.op \in Ops[u]
          /\ req' = [req EXCEPT ![u] = [r EXCEPT !.held = [i \in DOMAIN r.needs |->
                                                              Access(u, r.needs[i].on)]]]
    /\ UNCHANGED <<db, sessions, lost>>

-----------------------------------------------------------------------------
(* Resolution by a request: the note, its chain, the shares. *)

Current(r) == r.needs[Len(r.got) + 1]

\* Only who owns the item, or made the share, revokes it.
Suffices(u, r, level) ==
    /\ level >= Current(r).min
    /\ r.op = "revoke" => (level = OWNER \/ r.arg.by = u)

\* Refused, or on to the next need.  A move goes on to read the tree.
Settle(u, level) ==
    LET r == req[u]
        got == Append(r.got, level)
    IN  /\ req' = [req EXCEPT ![u] =
                IF ~Suffices(u, r, level) THEN None
                ELSE [r EXCEPT !.got = got, !.row = None, !.chain = {},
                               !.stage = IF Len(got) < Len(r.needs)
                                         THEN IF r.needs[Len(got) + 1].on \in Note
                                              THEN "note" ELSE "chain"
                                         ELSE IF r.op = "move" /\ r.arg # None
                                              THEN "tree" ELSE "write"]]
        /\ UNCHANGED <<db, made, sessions, lost>>

At(u, stage) == req[u] # None /\ req[u].stage = stage

ReadNote(u) ==
    /\ At(u, "note")
    /\ LET n == Current(req[u]).on
       IN  CASE note[n] = None -> Settle(u, 0)
             [] note[n] # None /\ note[n].author = u -> Settle(u, OWNER)
             [] OTHER -> /\ req' = [req EXCEPT ![u].row = note[n].folder, ![u].stage = "chain"]
                         /\ UNCHANGED <<db, made, sessions, lost>>

ReadChain(u) ==
    /\ At(u, "chain")
    /\ LET x == Current(req[u]).on
           chain == FolderChain(IF x \in Folder THEN x ELSE req[u].row)
       IN  CASE OwnsOneOf(u, chain) -> Settle(u, OWNER)
             [] ~OwnsOneOf(u, chain) /\ x \in Folder /\ chain = {} -> Settle(u, 0)
             [] OTHER -> /\ req' = [req EXCEPT ![u].chain = chain, ![u].stage = "grants"]
                         /\ UNCHANGED <<db, made, sessions, lost>>

\* Mutant: a share counts after it has expired.
ReadGrantsAnyAge(u) ==
    /\ At(u, "grants")
    /\ Settle(u, Best({s.access : s \in {t \in shares : /\ t.to = u
                            /\ t.on \in req[u].chain \cup (Note \cap {Current(req[u]).on})}}))

ReadGrants(u) ==
    /\ At(u, "grants")
    /\ Settle(u, Granted(u, req[u].chain \cup (Note \cap {Current(req[u]).on})))

\* The guard against cycles of a move.
ReadTree(u) ==
    /\ At(u, "tree")
    /\ req' = [req EXCEPT ![u] = IF @.on \in Up(folder, @.arg, Cardinality(Folder)) THEN None
                                 ELSE [@ EXCEPT !.stage = "write"]]
    /\ UNCHANGED <<db, made, sessions, lost>>

-----------------------------------------------------------------------------
(* The writes.  One whose row or folder is gone throws. *)

CanWrite(r) ==
    /\ r.op \in {"archive", "restore", "file", "destroy"} => r.on \in Notes
    /\ r.op \in {"move", "rmdir"} => r.on \in Folders
    /\ r.op \in {"file", "copy", "create", "mkdir", "move"} => r.arg \in Folders \cup {None}
    /\ r.op = "share" => r.on \in Notes \cup Folders
    /\ r.op = "revoke" => \E s \in shares : s.on = r.on /\ s.to = r.arg.to /\ s.made = r.arg.made

Ready(u, op) == At(u, "write") /\ req[u].op = op /\ CanWrite(req[u])

Answer(u) ==
    /\ Ready(u, "read") \/ Ready(u, "edit")
    /\ req' = [req EXCEPT ![u] = None]
    /\ UNCHANGED <<db, made, sessions, lost>>

Throw(u) ==
    /\ At(u, "write") /\ ~CanWrite(req[u])
    /\ req' = [req EXCEPT ![u] = None]
    /\ UNCHANGED <<db, made, sessions, lost>>

\* The end of a request that has written.
Wrote(u) ==
    /\ UNCHANGED <<clock, made, sessions>>
    /\ req' = [v \in User |-> IF v = u THEN None ELSE Watched(req[v], v)]
    /\ Account

WriteArchive(u) ==
    /\ Ready(u, "archive") \/ Ready(u, "restore")
    /\ note' = [note EXCEPT ![req[u].on].archived = (req[u].op = "archive")]
    /\ UNCHANGED <<folder, shares>>
    /\ Wrote(u)

WriteFile(u) ==
    /\ Ready(u, "file")
    /\ note' = [note EXCEPT ![req[u].on].folder = req[u].arg]
    /\ UNCHANGED <<folder, shares>>
    /\ Wrote(u)

\* Mutant: the shares of the note stay.
WriteDestroyKeepsShares(u) ==
    /\ Ready(u, "destroy")
    /\ note' = [note EXCEPT ![req[u].on] = None]
    /\ UNCHANGED <<folder, shares>>
    /\ Wrote(u)

WriteDestroy(u) ==
    /\ Ready(u, "destroy")
    /\ note' = [note EXCEPT ![req[u].on] = None]
    /\ shares' = {s \in shares : s.on # req[u].on}
    /\ UNCHANGED folder
    /\ Wrote(u)

\* Both the new note and the copy of another.
WriteCreate(u) ==
    /\ Ready(u, "create") \/ Ready(u, "copy")
    /\ \E n \in Note \ Notes :
          note' = [note EXCEPT ![n] = [author |-> u, folder |-> req[u].arg,
                                           archived |-> FALSE]]
    /\ UNCHANGED <<folder, shares>>
    /\ Wrote(u)

WriteMkdir(u) ==
    /\ Ready(u, "mkdir")
    /\ \E f \in Folder \ Folders :
          folder' = [folder EXCEPT ![f] = [owner |-> u, parent |-> req[u].arg]]
    /\ UNCHANGED <<note, shares>>
    /\ Wrote(u)

WriteMove(u) ==
    /\ Ready(u, "move")
    /\ folder' = [folder EXCEPT ![req[u].on].parent = req[u].arg]
    /\ UNCHANGED <<note, shares>>
    /\ Wrote(u)

\* Shares go with the folder; whatever has been filed in it becomes a root.
WriteRmdir(u) ==
    /\ Ready(u, "rmdir")
    /\ LET gone == req[u].on
       IN  /\ folder' = [f \in Folder |->
                            CASE f = gone -> None
                              [] f \in Folders \ {gone} /\ folder[f].parent = gone
                                    -> [folder[f] EXCEPT !.parent = None]
                              [] OTHER -> folder[f]]
           /\ note' = [n \in Note |-> IF n \in Notes /\ note[n].folder = gone
                                      THEN [note[n] EXCEPT !.folder = None] ELSE note[n]]
           /\ shares' = {s \in shares : s.on # gone}
    /\ Wrote(u)

\* ttlToExpiresAt
Expiry(ttl) == IF ttl = 0 THEN Forever ELSE clock + ttl

\* The upsert keeps the id of a share and replaces the rest.
WriteShare(u) ==
    /\ Ready(u, "share")
    /\ LET r == req[u]
           old == {s \in shares : s.on = r.on /\ s.to = r.arg.to}
           id == IF old = {} THEN made ELSE (CHOOSE s \in old : TRUE).made
       IN  shares' = (shares \ old) \cup
               {[on |-> r.on, to |-> r.arg.to, access |-> r.arg.access, by |-> u, made |-> id,
                 until |-> Expiry(r.arg.ttl)]}
    /\ UNCHANGED <<folder, note>>
    /\ Wrote(u)

WriteRevoke(u) ==
    /\ Ready(u, "revoke")
    /\ shares' = {s \in shares : s.on # req[u].on \/ s.to # req[u].arg.to}
    /\ UNCHANGED <<folder, note>>
    /\ Wrote(u)

-----------------------------------------------------------------------------
(* Collab sessions. *)

\* Mutant: every token writes.
IssueTokenForAll(u) ==
    /\ Ready(u, "token")
    /\ tokens' = tokens \cup {[user |-> u, note |-> req[u].on, write |-> TRUE,
                               exp |-> clock + TTL, sure |-> req[u].overlap < 2]}
    /\ req' = [req EXCEPT ![u] = None]
    /\ UNCHANGED <<db, made, conns, lost>>

IssueToken(u) ==
    /\ Ready(u, "token")
    /\ tokens' = tokens \cup {[user |-> u, note |-> req[u].on, write |-> req[u].got[1] >= EDIT,
                               exp |-> clock + TTL, sure |-> req[u].overlap < 2]}
    /\ req' = [req EXCEPT ![u] = None]
    /\ UNCHANGED <<db, made, conns, lost>>

\* verifyToken, as far as time goes.
Verify(t) == clock <= t.exp

\* The provider connects, and again after each loss of the connection, with the
\* token it was given first.  Nothing but the token is looked at.
Connect(t) ==
    /\ Verify(t)
    /\ conns' = conns \cup {[user |-> t.user, note |-> t.note, write |-> t.write,
                             opened |-> clock, sure |-> t.sure]}
    /\ UNCHANGED <<db, req, made, tokens, lost>>

Disconnect(c) ==
    /\ conns' = conns \ {c}
    /\ UNCHANGED <<db, req, made, tokens, lost>>

Tick ==
    /\ clock < MaxClock
    /\ clock' = clock + 1
    /\ UNCHANGED <<folder, note, shares, made, sessions>>
    /\ req' = [u \in User |-> Watched(req[u], u)]
    /\ Account

-----------------------------------------------------------------------------
Resolve(u) == ReadNote(u) \/ ReadChain(u) \/ ReadGrants(u) \/ ReadTree(u)

Write(u) == \/ WriteArchive(u) \/ WriteFile(u) \/ WriteDestroy(u) \/ WriteCreate(u) \/ WriteMkdir(u)
            \/ WriteMove(u) \/ WriteRmdir(u) \/ WriteShare(u) \/ WriteRevoke(u)

Next ==
    \/ \E u \in User : \/ Send(u)
                       \/ Resolve(u) \/ Write(u) \/ Answer(u) \/ Throw(u) \/ IssueToken(u)
    \/ \E t \in tokens : Connect(t)
    \/ \E c \in conns : Disconnect(c)
    \/ Tick

Spec == Init /\ [][Next]_vars

-----------------------------------------------------------------------------
(* Properties *)

\* What a request decides on was never more than its user could do: each right
\* it resolved, query by query, is one the user held at some moment since the
\* request began, as long as at most one change fell in between.
\* (access.ts:68-113 and the routes that call it)
DecisionHadBasis ==
    \A u \in User : req[u] # None /\ req[u].overlap < 2 =>
        \A i \in DOMAIN req[u].got : req[u].got[i] <= req[u].held[i]

\* A write that nothing overlapped is made with the rights it takes at that very
\* moment, those on the folder something is moved into included.
\* (notes/[id]/route.ts:92-99, 145-148, folders/[id]/route.ts:81-90, 145-146,
\* notes/[id]/shares/[shareId]/route.ts:15-24)
WritesAreRightful ==
    \A u \in User : At(u, "write") /\ req[u].overlap = 0 =>
        LET r == req[u] IN
        /\ r.op \in {"destroy", "rmdir"} => Access(u, r.on) = OWNER
        /\ r.op \in {"edit", "archive", "restore", "file", "move", "share"} => Access(u, r.on) >= EDIT
        /\ r.op \in {"file", "move", "create", "mkdir"} /\ r.arg # None
                => FolderAccess(u, r.arg) >= EDIT
        /\ r.op = "revoke" => \/ Access(u, r.on) = OWNER
                             \/ (Access(u, r.on) = EDIT /\ r.arg.by = u)

\* Two algorithms, one answer: whatever a user can open is listed, and whatever
\* is listed can be opened, except below MaxDepth folders.
\* (access.ts:37-113 against 138-211, notes/route.ts:74-83)
ShallowFolders == {f \in Folders : Cardinality(Up(folder, f, Cardinality(Folder))) <= MaxDepth}
ListedCanBeOpened ==
    \A u \in User :
        LET folders == AccessibleFolders(u)
            notes == ListedNotes(u, TRUE)
            hits == SearchHits(u) \cap IndexPageNotes(u)
        IN  /\ \A f \in Folders : FolderAccess(u, f) > 0 => f \in folders
            /\ \A n \in Notes : NoteAccess(u, n) > 0 =>
                    n \in notes /\ (n \in hits \/ note[n].archived)
            /\ \A f \in folders \cap ShallowFolders : FolderAccess(u, f) > 0
            /\ \A n \in notes : note[n].folder \in ShallowFolders \cup {None}
                                    => NoteAccess(u, n) > 0
            /\ \A n \in SharedSection(u) : NoteAccess(u, n) > 0

\* The folders in a user's own section are those with all rights: where only a
\* share lets the user in, the folder is shown as shared, however it was moved.
\* (shared-folders.ts:9-35)
OwnSectionIsOwned ==
    \A u \in User : \A f \in OwnFolders(u) \cap ShallowFolders : FolderAccess(u, f) = OWNER

\* A connection keeps its right for as long as it lasts, but none is opened for
\* writing later than a token's life after the tick at which the user could last
\* edit the note.
\* (collab/[noteId]/route.ts:46-55, token.ts:57-79, server.ts:215-235)
StaleRightsOnlyOnOldConnections ==
    \A c \in conns : c.write /\ c.sure =>
        lost[c.user][c.note] > 0 /\ c.opened < lost[c.user][c.note] + TTL

=============================================================================
