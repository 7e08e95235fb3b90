---------------------------- MODULE AccessProofs ----------------------------
(***************************************************************************)
(* The access engine for any users, notes, folders, seeds and depth, under *)
(* any interleaving of the other requests.                                 *)
(*                                                                         *)
(* Writes that nothing overlapped are made with the rights of that moment: *)
(* as long as nothing was written and no time has passed since a request   *)
(* began, what it has read (the row of the note, the chain of folders) is  *)
(* what the database says, so each right it resolved, query by query, is   *)
(* the right Access gives in one go (Inv).                                 *)
(*                                                                         *)
(* Resolution and listing agree: the walk up from a folder and the walk    *)
(* down from the folders a user has are both iterations, of which it is    *)
(* shown that they saturate within Cardinality(Folder) steps and give the  *)
(* least set closed under parent, respectively under child.                *)
(*                                                                         *)
(* A request on which at most one change fell decides on rights it held:   *)
(* a single write takes rows away, changes one parent or changes grants,   *)
(* never in a way that mixes old and new rows into a right held neither    *)
(* before nor after (Change), and the keys hold along with it (BasisInv).  *)
(* From that, when a write right used on a connection was last held.       *)
(***************************************************************************)
EXTENDS Access, SequenceTheorems, FiniteSetTheorems, WellFoundedInduction, TLAPS

\* The fields of a request that the argument is about.
Shape(r) ==
    /\ {"op", "on", "arg", "needs", "stage", "row", "chain", "got", "held", "overlap"} \subseteq DOMAIN r
    /\ r.needs \in Seq(Need) /\ r.got \in Seq(0 .. 3) /\ r.overlap \in 0 .. 2

Arg == Folder \cup {None} \cup Grant \cup Share

\* What the kinds of request that write ask for.
Asks(r) ==
    /\ r.op \in {"destroy", "rmdir"} =>
          Len(r.needs) >= 1 /\ r.needs[1].on = r.on /\ r.needs[1].min = OWNER
    /\ r.op \in {"edit", "archive", "restore", "file", "move", "share", "revoke"} =>
          Len(r.needs) >= 1 /\ r.needs[1].on = r.on /\ r.needs[1].min = EDIT
    /\ r.op \in {"file", "move"} /\ r.arg # None =>
          r.arg \in Folder /\ Len(r.needs) >= 2 /\ r.needs[2].on = r.arg /\ r.needs[2].min = EDIT
    /\ r.op \in {"create", "mkdir"} /\ r.arg # None =>
          r.arg \in Folder /\ Len(r.needs) >= 1 /\ r.needs[1].on = r.arg /\ r.needs[1].min = EDIT
    /\ r.op = "share" => r.arg \in Grant
    /\ r.op = "token" => r.on \in Note /\ Len(r.needs) = 1 /\ r.needs[1].on = r.on

\* How far the request is, whatever has happened since it began.
Progress(r) ==
    /\ r.stage \in {"note", "chain", "grants", "tree", "write"}
    /\ r.stage \in {"note", "chain", "grants"} => Len(r.got) < Len(r.needs)
    /\ r.stage = "note" => Current(r).on \in Note
    /\ r.stage \in {"tree", "write"} => Len(r.got) = Len(r.needs)

\* What it has read is what the database says.
Foreign(u, n) == note[n] # None /\ note[n].author # u
Read(u, r) ==
    LET x == Current(r).on
    IN  /\ r.stage = "chain" /\ x \in Note => Foreign(u, x) /\ r.row = note[x].folder
        /\ r.stage = "grants" =>
              /\ ~OwnsOneOf(u, r.chain)
              /\ x \in Note => Foreign(u, x) /\ r.chain = FolderChain(note[x].folder)
              /\ x \in Folder => r.chain = FolderChain(x)

Resolved(u, r) ==
    \A i \in 1 .. Len(r.got) :
        /\ Access(u, r.needs[i].on) >= r.needs[i].min
        /\ r.op = "revoke" => Access(u, r.needs[i].on) = OWNER \/ r.arg.by = u

Fine(u, r) ==
    /\ Shape(r) /\ Asks(r) /\ Progress(r)
    /\ r.overlap = 0 => Read(u, r) /\ Resolved(u, r)

SharesOK == \A s \in shares : s.access \in {VIEW, EDIT}

Inv ==
    /\ req \in [User -> {req[u] : u \in User}]
    /\ SharesOK
    /\ \A u \in User : req[u] # None => Fine(u, req[u])

-----------------------------------------------------------------------------
(* Rights. *)

LEMMA GrantedRange ==
    ASSUME SharesOK, NEW u, NEW items
    PROVE  Granted(u, items) \in 0 .. 2
<1> DEFINE levels == {s.access : s \in ActiveShares(u, items)}
<1>1. \A a \in levels : a = 1 \/ a = 2
    BY DEF SharesOK, ActiveShares, VIEW, EDIT
<1>2. Granted(u, items) = Best(levels)
    BY DEF Granted
<1> HIDE DEF levels
<1>3. CASE levels = {}
    BY <1>2, <1>3 DEF Best
<1>4. CASE levels # {}
    <2>1. PICK a \in levels : 2 \in levels => a = 2
        BY <1>4
    <2>2. \A b \in levels : b <= a
        BY <1>1, <2>1
    <2>3. Best(levels) \in levels
        BY <1>4, <2>2 DEF Best
    <2>4. Best(levels) = 1 \/ Best(levels) = 2
        BY <1>1, <2>3
    <2> QED BY <1>2, <2>4
<1> QED BY <1>3, <1>4

LEMMA AccessRange ==
    ASSUME SharesOK, NEW u, NEW x
    PROVE  Access(u, x) \in 0 .. 3
<1>1. \A items : Granted(u, items) \in 0 .. 2
    BY GrantedRange
<1>2. FolderAccess(u, x) \in 0 .. 3
    BY <1>1 DEF FolderAccess, OWNER
<1>3. NoteAccess(u, x) \in 0 .. 3
    BY <1>1 DEF NoteAccess, OWNER
<1> QED BY <1>2, <1>3 DEF Access

-----------------------------------------------------------------------------
(* What is sent. *)

LEMMA NeedsOne ==
    ASSUME NEW x \in Item, NEW min \in {VIEW, EDIT, OWNER}
    PROVE  /\ Needs(x, min) \in Seq(Need) /\ Len(Needs(x, min)) = 1
           /\ Needs(x, min)[1].on = x /\ Needs(x, min)[1].min = min
<1>1. [on |-> x, min |-> min] \in Need
    BY DEF Need
<1> QED BY <1>1 DEF Needs

LEMMA NeedsTwo ==
    ASSUME NEW x \in Item, NEW f \in Folder \cup {None}
    PROVE  LET needs == Needs(x, EDIT) \o NeedsTarget(f)
           IN  /\ needs \in Seq(Need) /\ Len(needs) >= 1
               /\ needs[1].on = x /\ needs[1].min = EDIT
               /\ f # None => Len(needs) >= 2 /\ needs[2].on = f /\ needs[2].min = EDIT
<1> DEFINE p == Needs(x, EDIT)
           q == NeedsTarget(f)
<1>1. p \in Seq(Need) /\ Len(p) = 1 /\ p[1].on = x /\ p[1].min = EDIT
    BY NeedsOne
<1>2. q \in Seq(Need) /\ (f # None => Len(q) = 1 /\ q[1].on = f /\ q[1].min = EDIT)
    <2>1. CASE f = None
        BY <2>1 DEF NeedsTarget
    <2>2. CASE f # None
        BY <2>2, NeedsOne DEF NeedsTarget, Item
    <2> QED BY <2>1, <2>2
<1> HIDE DEF p, q
<1>3. /\ p \o q \in Seq(Need) /\ Len(p \o q) = 1 + Len(q) /\ Len(q) \in Nat
      /\ \A i \in 1 .. 1 + Len(q) : (p \o q)[i] = IF i <= 1 THEN p[i] ELSE q[i - 1]
    <2>1. /\ p \o q \in Seq(Need) /\ Len(p \o q) = Len(p) + Len(q)
          /\ \A i \in 1 .. Len(p) + Len(q) : (p \o q)[i] = IF i <= Len(p) THEN p[i] ELSE q[i - Len(p)]
        BY <1>1, <1>2, ConcatProperties, Zenon
    <2>2. Len(q) \in Nat
        BY <1>2, LenProperties
    <2> QED BY <1>1, <2>1, <2>2
<1>4. (p \o q)[1] = p[1]
    BY <1>3
<1>5. ASSUME f # None PROVE (p \o q)[2] = q[1]
    BY <1>2, <1>3, <1>5
<1> QED BY <1>1, <1>2, <1>3, <1>4, <1>5 DEF p, q

LEMMA AskShape ==
    ASSUME NEW op, NEW x, NEW arg, NEW needs \in Seq(Need)
    PROVE  LET r == Ask(op, x, arg, needs)
           IN  /\ Shape(r) /\ Progress(r) /\ r.stage \in {"note", "chain", "write"}
               /\ r.stage = "chain" => Current(r).on \notin Note
               /\ r.got = <<>> /\ r.overlap = 0
               /\ r.op = op /\ r.on = x /\ r.arg = arg /\ r.needs = needs
               /\ op \in AllOps /\ x \in Item \cup {None} /\ arg \in Arg => r \in Request
<1> DEFINE r == Ask(op, x, arg, needs)
<1>1. /\ r.op = op /\ r.on = x /\ r.arg = arg /\ r.needs = needs
      /\ r.got = <<>> /\ r.overlap = 0 /\ r.stage = FirstStage(needs)
    BY DEF Ask
<1>2. Shape(r)
    BY DEF Ask, Shape
<1>7. ASSUME op \in AllOps, x \in Item \cup {None}, arg \in Arg PROVE r \in Request
    <2>1. FirstStage(needs) \in {"note", "chain", "grants", "tree", "write"}
        BY DEF FirstStage
    <2> QED BY <1>7, <2>1 DEF Ask, Request, Arg
<1> HIDE DEF r
<1>3. Len(r.got) = 0
    BY <1>1
<1>4. /\ r.stage \in {"note", "chain", "write"}
      /\ r.stage \in {"note", "chain"} => Len(r.needs) > 0
      /\ r.stage = "note" => r.needs[1].on \in Note
      /\ r.stage = "chain" => r.needs[1].on \notin Note
      /\ r.stage = "write" => Len(r.needs) = 0
    BY <1>1 DEF FirstStage
<1>5. Current(r) = r.needs[1]
    BY <1>3 DEF Current
<1>6. Progress(r)
    BY <1>3, <1>4, <1>5 DEF Progress
<1> QED BY <1>1, <1>2, <1>4, <1>5, <1>6, <1>7 DEF r

LEMMA RequestsAsk ==
    ASSUME NEW u, NEW r \in Requests(u)
    PROVE  /\ Shape(r) /\ Asks(r) /\ Progress(r) /\ r.stage \in {"note", "chain", "write"}
           /\ r.stage = "chain" => Current(r).on \notin Note
           /\ r.got = <<>> /\ r.overlap = 0
           /\ TypeOK => r \in Request
<1> DEFINE OK(q) == /\ Shape(q) /\ Asks(q) /\ Progress(q) /\ q.stage \in {"note", "chain", "write"}
                    /\ q.stage = "chain" => Current(q).on \notin Note
                    /\ q.got = <<>> /\ q.overlap = 0
                    /\ TypeOK => q \in Request
<1>0. /\ None \in Arg /\ Folder \cup {None} \subseteq Arg /\ Grant \subseteq Arg /\ Share \subseteq Arg
      /\ {"read", "edit", "archive", "restore", "revoke", "destroy", "rmdir", "token", "copy", "file", "move",
          "create", "mkdir", "share"} \subseteq AllOps
      /\ None \in Item \cup {None} /\ Item \subseteq Item \cup {None}
    BY DEF Arg, AllOps
<1>1. ASSUME NEW x \in Item, NEW arg, TypeOK => arg \in Arg, NEW op \in {"read", "edit", "archive", "restore", "revoke"},
             NEW min \in {VIEW, EDIT}, op # "read" => min = EDIT
      PROVE  OK(Ask(op, x, arg, Needs(x, min)))
    <2>1. min \in {VIEW, EDIT, OWNER}
        OBVIOUS
    <2> QED BY <1>0, <1>1, <2>1, NeedsOne, AskShape DEF Asks
<1>2. ASSUME NEW x \in Item, NEW op \in {"destroy", "rmdir"}
      PROVE  OK(Ask(op, x, None, Needs(x, OWNER)))
    BY <1>0, <1>2, NeedsOne, AskShape DEF Asks
<1>3. ASSUME NEW x \in Item, NEW arg, TypeOK => arg \in Arg, NEW op \in {"token", "copy"}, NEW on \in Item \cup {None},
             op = "token" => on = x /\ x \in Note
      PROVE  OK(Ask(op, on, arg, Needs(x, VIEW)))
    BY <1>0, <1>3, NeedsOne, AskShape DEF Asks
<1>4. ASSUME NEW x \in Item, NEW f \in Folder \cup {None}, NEW op \in {"file", "move"}
      PROVE  OK(Ask(op, x, f, Needs(x, EDIT) \o NeedsTarget(f)))
    <2> DEFINE needs == Needs(x, EDIT) \o NeedsTarget(f)
    <2>1. /\ needs \in Seq(Need) /\ Len(needs) >= 1
          /\ needs[1].on = x /\ needs[1].min = EDIT
          /\ f # None => Len(needs) >= 2 /\ needs[2].on = f /\ needs[2].min = EDIT
        BY NeedsTwo
    <2> HIDE DEF needs
    <2>2. OK(Ask(op, x, f, needs))
        BY <1>0, <1>4, <2>1, AskShape DEF Asks
    <2> QED BY <2>2 DEF needs
<1>5. ASSUME NEW f \in Folder \cup {None}, NEW op \in {"create", "mkdir"}
      PROVE  OK(Ask(op, None, f, NeedsTarget(f)))
    <2>1. NeedsTarget(f) \in Seq(Need)
        BY NeedsOne DEF NeedsTarget, Item
    <2>2. f # None => /\ f \in Folder /\ Len(NeedsTarget(f)) = 1
                      /\ NeedsTarget(f)[1].on = f /\ NeedsTarget(f)[1].min = EDIT
        BY NeedsOne DEF NeedsTarget, Item
    <2> QED BY <1>0, <1>5, <2>1, <2>2, AskShape DEF Asks
<1>6. ASSUME NEW x \in Item, NEW g \in Grant
      PROVE  OK(Ask("share", x, g, Needs(x, EDIT)))
    BY <1>0, <1>6, NeedsOne, AskShape DEF Asks
<1> HIDE DEF OK
<1>7. VIEW \in {VIEW, EDIT} /\ EDIT \in {VIEW, EDIT}
    OBVIOUS
<1>8. ASSUME NEW n \in Notes,
             r \in {GetNote(n), GetHistory(n), GetAsset(n), GetPreview(n), NotePage(n), ListNoteShares(n),
                    UploadAsset(n), PatchCaption(n), ArchiveNote(n), RestoreNote(n), DestroyNote(n),
                    DuplicateNote(n), CollabToken(n)}
      PROVE  OK(r)
    <2>1. n \in Item /\ n \in Note
        BY DEF Notes, Item
    <2>2. CASE r \in {GetNote(n), GetHistory(n), GetAsset(n), GetPreview(n), NotePage(n), ListNoteShares(n)}
        BY <1>0, <1>1, <1>7, <2>1, <2>2 DEF GetNote, GetHistory, GetAsset, GetPreview, NotePage, ListNoteShares
    <2>3. CASE r \in {UploadAsset(n), PatchCaption(n), ArchiveNote(n), RestoreNote(n)}
        BY <1>0, <1>1, <1>7, <2>1, <2>3 DEF UploadAsset, PatchCaption, ArchiveNote, RestoreNote
    <2>4. CASE r \in {DestroyNote(n), DuplicateNote(n), CollabToken(n)}
        <3>1. TypeOK => note[n].folder \in Arg
            <4> SUFFICES ASSUME TypeOK PROVE note[n].folder \in Folder \cup {None}
                BY <1>0
            <4>1. note[n] \in NoteRow
                BY DEF TypeOK, Consistent, Notes
            <4> QED BY <4>1 DEF NoteRow
        <3> QED BY <1>0, <1>2, <1>3, <2>1, <2>4, <3>1 DEF DestroyNote, DuplicateNote, CollabToken
    <2> QED BY <1>8, <2>2, <2>3, <2>4
<1>9. ASSUME NEW f \in Folders, r \in {GetFolder(f), ListFolderShares(f), DeleteFolder(f)} PROVE OK(r)
    <2>1. f \in Item
        BY DEF Folders, Item
    <2> QED BY <1>0, <1>1, <1>2, <1>7, <1>9, <2>1 DEF GetFolder, ListFolderShares, DeleteFolder
<1>10. ASSUME NEW n \in Notes, NEW f \in Folder \cup {None}, r = PatchNote(n, f) PROVE OK(r)
    BY <1>4, <1>10 DEF PatchNote, Notes, Item
<1>11. ASSUME NEW p \in Folder \cup {None}, r \in {CreateNote(p), CreateFolder(p)} PROVE OK(r)
    BY <1>5, <1>11 DEF CreateNote, CreateFolder
<1>12. ASSUME NEW f \in Folders, NEW p \in Folder \cup {None}, r = PatchFolder(f, p) PROVE OK(r)
    BY <1>4, <1>12 DEF PatchFolder, Folders, Item
<1>13. ASSUME NEW x \in Item, NEW g \in Grant, r \in {ShareNote(x, g), ShareFolder(x, g)} PROVE OK(r)
    BY <1>6, <1>13 DEF ShareNote, ShareFolder
<1>14. ASSUME NEW s \in shares, s.on \in Item, r \in {RevokeNoteShare(s), RevokeFolderShare(s)} PROVE OK(r)
    <2>1. TypeOK => s \in Arg
        BY <1>0 DEF TypeOK, Consistent
    <2> QED BY <1>1, <1>7, <1>14, <2>1 DEF RevokeNoteShare, RevokeFolderShare
<1>15. OK(r)
    <2>1. Notes \subseteq Item /\ Folders \subseteq Item /\ Note \subseteq Item /\ Folder \subseteq Item
        BY DEF Notes, Folders, Item
    <2> DEFINE
          A == UNION {{GetNote(n), GetHistory(n), GetAsset(n), GetPreview(n), NotePage(n),
                       ListNoteShares(n), UploadAsset(n), PatchCaption(n), ArchiveNote(n),
                       RestoreNote(n), DestroyNote(n), DuplicateNote(n), CollabToken(n)} : n \in Notes}
          B == UNION {{GetFolder(f), ListFolderShares(f)} : f \in Folders}
          C == {PatchNote(n, f) : n \in Notes, f \in Folder \cup {None}}
          D == UNION {{CreateNote(p), CreateFolder(p)} : p \in Folder \cup {None}}
          E == UNION {{PatchFolder(f, p) : p \in (Folder \cup {None}) \ {f}} : f \in Folders}
          F == {DeleteFolder(f) : f \in {g \in Folders : Empty(g)}}
          G == {ShareNote(n, g) : n \in Notes, g \in {h \in Grant : h.to # u}}
          H == {ShareFolder(f, g) : f \in Folders, g \in {h \in Grant : h.to # u}}
          I == {RevokeNoteShare(s) : s \in {t \in shares : t.on \in Note}}
          J == {RevokeFolderShare(s) : s \in {t \in shares : t.on \in Folder}}
    <2>2. CASE r \in A
        BY <1>8, <2>2
    <2>3. CASE r \in B
        BY <1>9, <2>3
    <2>4. CASE r \in C
        BY <1>10, <2>4
    <2>5. CASE r \in D
        BY <1>11, <2>5
    <2>6. CASE r \in E
        BY <1>12, <2>6
    <2>7. CASE r \in F
        BY <1>9, <2>7
    <2>8. CASE r \in G
        BY <1>13, <2>1, <2>8
    <2>9. CASE r \in H
        BY <1>13, <2>1, <2>9
    <2>10. CASE r \in I
        BY <1>14, <2>1, <2>10
    <2>11. CASE r \in J
        BY <1>14, <2>1, <2>11
    <2>12. Requests(u) = A \cup B \cup C \cup D \cup E \cup F \cup G \cup H \cup I \cup J
        BY DEF Requests
    <2> HIDE DEF A, B, C, D, E, F, G, H, I, J
    <2> QED BY <2>2, <2>3, <2>4, <2>5, <2>6, <2>7, <2>8, <2>9, <2>10, <2>11, <2>12
<1> QED BY <1>15 DEF OK

-----------------------------------------------------------------------------
(* Steps that leave the database alone. *)

\* Rights and what was read depend on folder, note, shares and clock only.
LEMMA SameDb ==
    ASSUME UNCHANGED db
    PROVE  /\ \A u, x : Access(u, x)' = Access(u, x)
           /\ \A u, r : Read(u, r)' <=> Read(u, r)
           /\ \A u, r : Resolved(u, r)' <=> Resolved(u, r)
           /\ SharesOK' <=> SharesOK
BY DEF db, Access, NoteAccess, FolderAccess, OwnsOneOf, Granted, ActiveShares, FolderChain,
       Read, Foreign, Resolved, SharesOK

LEMMA OneRequest ==
    ASSUME Inv, UNCHANGED db, NEW u \in User, NEW r, req' = [req EXCEPT ![u] = r], r # None => Fine(u, r)
    PROVE  Inv'
<1>1. \A v, q : Fine(v, q)' <=> Fine(v, q)
    BY SameDb DEF Fine
<1>2. \A v \in User : req'[v] = IF v = u THEN r ELSE req[v]
    BY DEF Inv
<1>3. req' \in [User -> {req'[v] : v \in User}]
    BY DEF Inv
<1> QED BY <1>1, <1>2, <1>3, SameDb DEF Inv

LEMMA SendStep == ASSUME Inv, NEW u \in User, Send(u) PROVE Inv'
<1>1. PICK r \in Requests(u) :
        req' = [req EXCEPT ![u] = [r EXCEPT !.held = [i \in DOMAIN r.needs |-> Access(u, r.needs[i].on)]]]
    BY DEF Send
<1> DEFINE q == [r EXCEPT !.held = [i \in DOMAIN r.needs |-> Access(u, r.needs[i].on)]]
<1>2. /\ Shape(r) /\ Asks(r) /\ Progress(r) /\ r.stage \in {"note", "chain", "write"}
      /\ r.stage = "chain" => Current(r).on \notin Note
      /\ r.got = <<>>
    BY RequestsAsk
<1>3. /\ q.op = r.op /\ q.on = r.on /\ q.arg = r.arg /\ q.needs = r.needs /\ q.stage = r.stage
      /\ q.got = r.got /\ q.overlap = r.overlap /\ DOMAIN q = DOMAIN r
    BY <1>2 DEF Shape
<1> HIDE DEF q
<1>4. Current(q) = Current(r)
    BY <1>3 DEF Current
<1>5. Shape(q) /\ Asks(q) /\ Progress(q)
    BY <1>2, <1>3, <1>4 DEF Shape, Asks, Progress
<1>6. Read(u, q)
    BY <1>2, <1>3, <1>4 DEF Read
<1>7. Resolved(u, q)
    BY <1>2, <1>3 DEF Resolved
<1>8. Fine(u, q)
    BY <1>5, <1>6, <1>7 DEF Fine
<1>9. UNCHANGED db
    BY DEF Send
<1> QED BY <1>1, <1>8, <1>9, OneRequest DEF q

\* A need is settled with the right Access gives, if nothing overlapped.
LEMMA SettleStep ==
    ASSUME Inv, NEW u \in User, req[u] # None, req[u].stage \in {"note", "chain", "grants"},
           NEW level \in 0 .. 3, Settle(u, level),
           req[u].overlap = 0 /\ level # 0 => Access(u, Current(req[u]).on) = level
    PROVE  Inv'
<1> DEFINE r == req[u]
           got == Append(r.got, level)
           next == IF Len(got) < Len(r.needs) THEN IF r.needs[Len(got) + 1].on \in Note THEN "note" ELSE "chain"
                   ELSE IF r.op = "move" /\ r.arg # None THEN "tree" ELSE "write"
           q == [r EXCEPT !.got = got, !.row = None, !.chain = {}, !.stage = next]
<1>1. Fine(u, r) /\ UNCHANGED db
    BY DEF Inv, Settle
<1>2. CASE ~Suffices(u, r, level)
    BY <1>1, <1>2, OneRequest DEF Settle
<1>3. CASE Suffices(u, r, level)
    <2>1. req' = [req EXCEPT ![u] = q]
        BY <1>3 DEF Settle
    <2>2. /\ got \in Seq(0 .. 3) /\ Len(got) = Len(r.got) + 1 /\ Len(r.got) \in Nat
          /\ \A i \in 1 .. Len(r.got) : got[i] = r.got[i]
        BY <1>1, AppendProperties, LenProperties DEF Fine, Shape
    <2>3. Len(r.got) < Len(r.needs) /\ Len(r.needs) \in Nat /\ r.needs \in Seq(Need)
        BY <1>1, LenProperties DEF Fine, Shape, Progress
    <2>4. /\ q.op = r.op /\ q.on = r.on /\ q.arg = r.arg /\ q.needs = r.needs /\ q.stage = next
          /\ q.got = got /\ q.overlap = r.overlap /\ DOMAIN q = DOMAIN r
        BY <1>1 DEF Fine, Shape
    <2> DEFINE n == Len(r.got) + 1
    <2>5. n \in 1 .. Len(r.needs) /\ Current(r) = r.needs[n]
        BY <2>2, <2>3 DEF Current
    <2>6. r.needs[n].min \in 1 .. 3
        <3>1. r.needs[n] \in Need
            BY <2>3, <2>5, ElementOfSeq, Zenon
        <3> QED BY <3>1 DEF Need, VIEW, EDIT, OWNER
    <2>7. /\ level >= r.needs[n].min
          /\ r.op = "revoke" => level = OWNER \/ r.arg.by = u
        BY <1>3, <2>5 DEF Suffices
    <2>8. ASSUME r.overlap = 0
          PROVE  Access(u, r.needs[n].on) >= r.needs[n].min
                 /\ (r.op = "revoke" => Access(u, r.needs[n].on) = OWNER \/ r.arg.by = u)
        <3>1. level # 0
            BY <2>6, <2>7
        <3>2. Access(u, r.needs[n].on) = level
            BY <2>5, <2>8, <3>1
        <3> QED BY <2>7, <3>2
    <2>9. \A i \in 1 .. Len(got) : i = n \/ i \in 1 .. Len(r.got)
        BY <2>2
    <2>10. /\ next \in {"note", "chain", "tree", "write"}
           /\ next \in {"note", "chain"} => Len(got) < Len(r.needs)
           /\ next = "note" => r.needs[Len(got) + 1].on \in Note
           /\ next = "chain" => r.needs[Len(got) + 1].on \notin Note
           /\ next \in {"tree", "write"} => Len(got) = Len(r.needs)
        BY <2>2, <2>3
    <2> HIDE DEF q, got, next, n
    <2>11. Current(q) = r.needs[Len(got) + 1]
        BY <2>4 DEF Current
    <2>12. Shape(q) /\ Asks(q) /\ Progress(q)
        BY <1>1, <2>2, <2>4, <2>10, <2>11 DEF Fine, Shape, Asks, Progress
    <2>13. Read(u, q)
        BY <2>4, <2>10, <2>11 DEF Read
    <2>14. ASSUME r.overlap = 0 PROVE Resolved(u, q)
        BY <1>1, <2>4, <2>8, <2>9, <2>14 DEF Fine, Resolved
    <2>15. Fine(u, q)
        BY <2>4, <2>12, <2>13, <2>14 DEF Fine
    <2> QED BY <1>1, <2>1, <2>15, OneRequest
<1> QED BY <1>2, <1>3

-----------------------------------------------------------------------------
(* The queries. *)

LEMMA CurrentItem ==
    ASSUME NEW r, Shape(r), Progress(r), r.stage \in {"note", "chain", "grants"}
    PROVE  Current(r).on \in Item
<1>1. Len(r.got) \in Nat /\ Len(r.needs) \in Nat /\ r.needs \in Seq(Need)
    BY LenProperties DEF Shape
<1>2. Len(r.got) + 1 \in 1 .. Len(r.needs)
    BY <1>1 DEF Progress
<1>3. r.needs[Len(r.got) + 1] \in Need
    BY <1>1, <1>2, ElementOfSeq, Zenon
<1> QED BY <1>3 DEF Current, Need

LEMMA ReadNoteStep == ASSUME Inv, NEW u \in User, ReadNote(u) PROVE Inv'
<1> DEFINE r == req[u]
           x == Current(r).on
           q == [r EXCEPT !.row = note[x].folder, !.stage = "chain"]
<1>1. r # None /\ r.stage = "note" /\ Fine(u, r) /\ x \in Note
    BY DEF ReadNote, At, Inv, Fine, Progress
<1>2. CASE note[x] = None
    BY <1>1, <1>2, SettleStep DEF ReadNote
<1>3. CASE note[x] # None /\ note[x].author = u
    <2>1. Access(u, x) = OWNER
        BY <1>1, <1>3 DEF Access, NoteAccess
    <2> QED BY <1>1, <1>3, <2>1, SettleStep DEF ReadNote, OWNER
<1>4. CASE Foreign(u, x)
    <2>1. /\ UNCHANGED db
          /\ req' = [req EXCEPT ![u].row = note[x].folder, ![u].stage = "chain"]
        BY <1>4 DEF ReadNote, Foreign
    <2>2. req' = [req EXCEPT ![u] = q]
        BY <2>1 DEF Inv
    <2>3. /\ q.op = r.op /\ q.on = r.on /\ q.arg = r.arg /\ q.needs = r.needs /\ q.stage = "chain"
          /\ q.got = r.got /\ q.overlap = r.overlap /\ q.row = note[x].folder /\ DOMAIN q = DOMAIN r
        BY <1>1 DEF Fine, Shape
    <2> HIDE DEF q
    <2>4. Current(q).on = x
        BY <2>3 DEF Current
    <2> HIDE DEF x
    <2>5. Shape(q) /\ Asks(q) /\ Progress(q)
        BY <1>1, <2>3 DEF Fine, Shape, Asks, Progress
    <2>6. Read(u, q)
        BY <1>4, <2>3, <2>4 DEF Read
    <2>7. q.overlap = 0 => Resolved(u, q)
        BY <1>1, <2>3 DEF Fine, Resolved
    <2>8. Fine(u, q)
        BY <2>5, <2>6, <2>7 DEF Fine
    <2> QED BY <2>1, <2>2, <2>8, OneRequest
<1> QED BY <1>2, <1>3, <1>4 DEF Foreign

LEMMA ReadChainStep == ASSUME Inv, NEW u \in User, ReadChain(u) PROVE Inv'
<1> DEFINE r == req[u]
           x == Current(r).on
           chain == FolderChain(IF x \in Folder THEN x ELSE r.row)
           q == [r EXCEPT !.chain = chain, !.stage = "grants"]
<1>1. r # None /\ r.stage = "chain" /\ Fine(u, r)
    BY DEF ReadChain, At, Inv
<1>2. (x \in Note /\ x \notin Folder) \/ (x \in Folder /\ x \notin Note)
    BY <1>1, CurrentItem, ItemAssumption DEF Fine, Item
<1>3. CASE OwnsOneOf(u, chain)
    <2>1. ASSUME r.overlap = 0 PROVE Access(u, x) = OWNER
        BY <1>1, <1>2, <1>3, <2>1 DEF Fine, Read, Foreign, Access, NoteAccess, FolderAccess
    <2>2. Settle(u, OWNER)
        BY <1>3 DEF ReadChain
    <2> QED BY <1>1, <2>1, <2>2, SettleStep DEF OWNER
<1>4. CASE ~OwnsOneOf(u, chain) /\ x \in Folder /\ chain = {}
    BY <1>1, <1>4, SettleStep DEF ReadChain
<1>5. CASE ~OwnsOneOf(u, chain) /\ ~(x \in Folder /\ chain = {})
    <2>1. /\ UNCHANGED db
          /\ req' = [req EXCEPT ![u].chain = chain, ![u].stage = "grants"]
        BY <1>5 DEF ReadChain
    <2>2. req' = [req EXCEPT ![u] = q]
        BY <2>1 DEF Inv
    <2>3. /\ q.op = r.op /\ q.on = r.on /\ q.arg = r.arg /\ q.needs = r.needs /\ q.stage = "grants"
          /\ q.got = r.got /\ q.overlap = r.overlap /\ q.chain = chain /\ DOMAIN q = DOMAIN r
        BY <1>1 DEF Fine, Shape
    <2> HIDE DEF q
    <2>4. Current(q).on = x
        BY <2>3 DEF Current
    <2>5. r.overlap = 0 /\ x \in Note => Foreign(u, x) /\ chain = FolderChain(note[x].folder)
        BY <1>1, <1>2 DEF Fine, Read
    <2>6. x \in Folder => chain = FolderChain(x)
        OBVIOUS
    <2> HIDE DEF x, chain
    <2>7. Shape(q) /\ Asks(q) /\ Progress(q)
        BY <1>1, <2>3 DEF Fine, Shape, Asks, Progress
    <2>8. q.overlap = 0 => Read(u, q)
        BY <1>5, <2>3, <2>4, <2>5, <2>6 DEF Read
    <2>9. q.overlap = 0 => Resolved(u, q)
        BY <1>1, <2>3 DEF Fine, Resolved
    <2>10. Fine(u, q)
        BY <2>7, <2>8, <2>9 DEF Fine
    <2> QED BY <2>1, <2>2, <2>10, OneRequest
<1> QED BY <1>3, <1>4, <1>5

LEMMA ReadGrantsStep == ASSUME Inv, NEW u \in User, ReadGrants(u) PROVE Inv'
<1> DEFINE r == req[u]
           x == Current(r).on
           level == Granted(u, r.chain \cup (Note \cap {x}))
<1>1. r # None /\ r.stage = "grants" /\ Fine(u, r) /\ Settle(u, level)
    BY DEF ReadGrants, At, Inv
<1>2. (x \in Note /\ x \notin Folder) \/ (x \in Folder /\ x \notin Note)
    BY <1>1, CurrentItem, ItemAssumption DEF Fine, Item
<1>3. level \in 0 .. 3
    BY GrantedRange DEF Inv
<1>4. ASSUME r.overlap = 0 PROVE Access(u, x) = level
    <2>1. CASE x \in Note
        <3>1. r.chain \cup (Note \cap {x}) = {x} \cup r.chain
            BY <2>1
        <3> QED BY <1>1, <1>4, <2>1, <3>1 DEF Fine, Read, Foreign, Access, NoteAccess
    <2>2. CASE x \in Folder
        <3>1. r.chain \cup (Note \cap {x}) = r.chain
            BY <1>2, <2>2
        <3> QED BY <1>1, <1>2, <1>4, <2>2, <3>1 DEF Fine, Read, Access, FolderAccess
    <2> QED BY <1>2, <2>1, <2>2
<1> QED BY <1>1, <1>3, <1>4, SettleStep

LEMMA ReadTreeStep == ASSUME Inv, NEW u \in User, ReadTree(u) PROVE Inv'
<1> DEFINE r == req[u]
           q == [r EXCEPT !.stage = "write"]
<1>1. r # None /\ r.stage = "tree" /\ Fine(u, r) /\ UNCHANGED db
    BY DEF ReadTree, At, Inv
<1>2. req' = [req EXCEPT ![u] = None] \/ req' = [req EXCEPT ![u] = q]
    BY DEF ReadTree
<1>3. /\ q.op = r.op /\ q.on = r.on /\ q.arg = r.arg /\ q.needs = r.needs /\ q.stage = "write"
      /\ q.got = r.got /\ q.overlap = r.overlap /\ DOMAIN q = DOMAIN r
    BY <1>1 DEF Fine, Shape
<1> HIDE DEF q
<1>4. Shape(q) /\ Asks(q) /\ Progress(q)
    BY <1>1, <1>3 DEF Fine, Shape, Asks, Progress
<1>5. Read(u, q)
    BY <1>3 DEF Read
<1>6. q.overlap = 0 => Resolved(u, q)
    BY <1>1, <1>3 DEF Fine, Resolved
<1>7. Fine(u, q)
    BY <1>4, <1>5, <1>6 DEF Fine
<1> QED BY <1>1, <1>2, <1>7, OneRequest

-----------------------------------------------------------------------------
(* The writes, and time: whatever is under way has been overlapped. *)

LEMMA OverlapStep ==
    ASSUME Inv, SharesOK', NEW u,
           req' = [v \in User |-> IF v = u THEN None ELSE Watched(req[v], v)]
              \/ req' = [v \in User |-> Watched(req[v], v)]
    PROVE  Inv'
<1>1. ASSUME NEW v \in User, req'[v] # None PROVE Fine(v, req[v])'
    <2> DEFINE r == req[v]
    <2>1. req'[v] = Watched(r, v) /\ r # None
        BY <1>1 DEF Watched
    <2>2. Fine(v, r)
        BY <2>1 DEF Inv
    <2>3. PICK m, held : r' = [r EXCEPT !.overlap = m, !.held = held] /\ m \in 1 .. 2
        <3>1. (IF r.overlap = 2 THEN 2 ELSE r.overlap + 1) \in 1 .. 2
            BY <2>2 DEF Fine, Shape
        <3> QED BY <2>1, <3>1 DEF Watched
    <2>4. /\ r'.op = r.op /\ r'.on = r.on /\ r'.arg = r.arg /\ r'.needs = r.needs /\ r'.stage = r.stage
          /\ r'.got = r.got /\ DOMAIN r' = DOMAIN r /\ r'.overlap \in 1 .. 2
        BY <2>2, <2>3 DEF Fine, Shape
    <2>5. Current(r)' = Current(r)
        BY <2>4 DEF Current
    <2>6. Shape(r)' /\ Asks(r)' /\ Progress(r)'
        BY <2>2, <2>4, <2>5 DEF Fine, Shape, Asks, Progress
    <2> QED BY <2>4, <2>6 DEF Fine
<1>2. req' \in [User -> {req'[v] : v \in User}]
    OBVIOUS
<1> QED BY <1>1, <1>2 DEF Inv

LEMMA WriteStep == ASSUME Inv, NEW u \in User, Write(u) PROVE Inv'
<1>1. CASE shares' \subseteq shares /\ Wrote(u)
    BY <1>1, OverlapStep DEF Wrote, Inv, SharesOK
<1>2. CASE WriteShare(u)
    <2>1. req[u] # None /\ req[u].op = "share"
        BY <1>2 DEF WriteShare, Ready, At
    <2>2. req[u].arg.access \in {VIEW, EDIT}
        BY <2>1 DEF Inv, Fine, Asks, Grant
    <2>3. PICK old, by, id, until :
             shares' = (shares \ old) \cup
               {[on |-> req[u].on, to |-> req[u].arg.to, access |-> req[u].arg.access, by |-> by,
                 made |-> id, until |-> until]}
        BY <1>2, Zenon DEF WriteShare
    <2>4. SharesOK'
        BY <2>2, <2>3 DEF Inv, SharesOK
    <2> QED BY <1>2, <2>4, OverlapStep DEF WriteShare, Wrote
<1> QED BY <1>1, <1>2 DEF Write, WriteArchive, WriteFile, WriteDestroy, WriteCreate, WriteMkdir, WriteMove,
                          WriteRmdir, WriteRevoke

LEMMA NextInv == Inv /\ [Next]_vars => Inv'
<1> SUFFICES ASSUME Inv, [Next]_vars PROVE Inv'
    OBVIOUS
<1>1. ASSUME NEW u \in User, Resolve(u) PROVE Inv'
    BY <1>1, ReadNoteStep, ReadChainStep, ReadGrantsStep, ReadTreeStep DEF Resolve
<1>2. ASSUME NEW u \in User, Answer(u) \/ Throw(u) \/ IssueToken(u) PROVE Inv'
    BY <1>2, OneRequest DEF Answer, Throw, IssueToken
<1>3. ASSUME UNCHANGED <<db, req>> PROVE Inv'
    BY <1>3, SameDb DEF Inv, Fine
<1>4. ASSUME NEW t, Connect(t) \/ Disconnect(t) PROVE Inv'
    BY <1>3, <1>4 DEF Connect, Disconnect
<1>5. CASE Tick
    <2>1. SharesOK'
        BY <1>5 DEF Tick, Inv, SharesOK
    <2> QED BY <1>5, <2>1, OverlapStep DEF Tick
<1>6. CASE UNCHANGED vars
    BY <1>3, <1>6 DEF vars
<1> QED BY <1>1, <1>2, <1>4, <1>5, <1>6, SendStep, WriteStep DEF Next

LEMMA InitInv == Init => Inv
BY SeedAssumption DEF Init, Inv, SharesOK, Share, Consistent

\* A request about to write that nothing overlapped has its rights at that
\* moment (notes/[id]/route.ts:92-99, folders/[id]/route.ts:81-90,
\* notes/[id]/shares/[shareId]/route.ts:15-24).
THEOREM WritersHaveTheRight == Spec => []WritesAreRightful
<1>1. ASSUME Inv PROVE WritesAreRightful
    <2> SUFFICES ASSUME NEW u \in User, At(u, "write"), req[u].overlap = 0
                 PROVE  LET r == req[u]
                        IN  /\ r.op \in {"destroy", "rmdir"} => Access(u, r.on) = OWNER
                            /\ r.op \in {"edit", "archive", "restore", "file", "move", "share"}
                                  => Access(u, r.on) >= EDIT
                            /\ r.op \in {"file", "move", "create", "mkdir"} /\ r.arg # None
                                  => FolderAccess(u, r.arg) >= EDIT
                            /\ r.op = "revoke" => \/ Access(u, r.on) = OWNER
                                                 \/ (Access(u, r.on) = EDIT /\ r.arg.by = u)
        BY DEF WritesAreRightful
    <2> DEFINE r == req[u]
    <2>1. Shape(r) /\ Asks(r) /\ Progress(r) /\ Resolved(u, r) /\ r.stage = "write"
        BY <1>1 DEF At, Inv, Fine
    <2>2. Len(r.got) = Len(r.needs) /\ Len(r.needs) \in Nat
        BY <2>1, LenProperties DEF Shape, Progress
    <2>3. \A i \in 1 .. Len(r.needs) :
             /\ Access(u, r.needs[i].on) >= r.needs[i].min
             /\ r.op = "revoke" => Access(u, r.needs[i].on) = OWNER \/ r.arg.by = u
        BY <2>1, <2>2 DEF Resolved
    <2>4. \A x : Access(u, x) \in 0 .. 3
        BY <1>1, AccessRange DEF Inv
    <2>5. \A f \in Folder : Access(u, f) = FolderAccess(u, f)
        BY ItemAssumption DEF Access
    <2>6. r.op \in {"destroy", "rmdir"} => Access(u, r.on) = OWNER
        BY <2>1, <2>2, <2>3, <2>4 DEF Asks, OWNER
    <2>7. r.op \in {"edit", "archive", "restore", "file", "move", "share"} => Access(u, r.on) >= EDIT
        BY <2>1, <2>2, <2>3 DEF Asks
    <2>8. r.op \in {"file", "move", "create", "mkdir"} /\ r.arg # None => FolderAccess(u, r.arg) >= EDIT
        BY <2>1, <2>2, <2>3, <2>5 DEF Asks
    <2>9. r.op = "revoke" => \/ Access(u, r.on) = OWNER
                            \/ (Access(u, r.on) = EDIT /\ r.arg.by = u)
        BY <2>1, <2>2, <2>3, <2>4 DEF Asks, OWNER, EDIT
    <2> QED BY <2>6, <2>7, <2>8, <2>9
<1> QED BY <1>1, InitInv, NextInv, PTL DEF Spec

-----------------------------------------------------------------------------
(* Sets of numbers, and iteration of a growing step. *)

LEMMA LeastElement ==
    ASSUME NEW S \in SUBSET Nat, S # {}
    PROVE  \E n \in S : \A m \in S : n <= m
<1> DEFINE R == OpToRel(<, Nat)
<1>1. IsWellFoundedOn(R, Nat)
    BY NatLessThanWellFounded, Zenon
<1>2. \A m, n \in Nat : m < n => <<m, n>> \in R
    BY Zenon DEF OpToRel
<1> HIDE DEF R
<1>3. PICK n \in S : \A m \in S : <<m, n>> \notin R
    BY <1>1, WFMin
<1>4. \A m \in S : ~(m < n)
    BY <1>2, <1>3
<1> QED BY <1>4

\* Induction, with a set for the property.
LEMMA SetInduction ==
    ASSUME NEW S, 0 \in S, \A n \in Nat : n \in S => n + 1 \in S
    PROVE  Nat \subseteq S
<1> SUFFICES ASSUME Nat \ S # {} PROVE FALSE
    OBVIOUS
<1>1. PICK n \in Nat \ S : \A m \in Nat \ S : n <= m
    BY LeastElement
<1>2. n - 1 \in Nat /\ n - 1 \in S
    BY <1>1
<1> QED BY <1>1, <1>2

\* A function applied again and again.
LEMMA Iterates ==
    ASSUME NEW X, NEW base \in X, NEW step \in [X -> X]
    PROVE  \E R \in [Nat -> X] : R[0] = base /\ \A n \in Nat : R[n + 1] = step[R[n]]
<1> DEFINE Starts(n, r) == r[0] = base /\ \A d \in 1 .. n : r[d] = step[r[d - 1]]
           S == {n \in Nat : \E r \in [0 .. n -> X] : Starts(n, r)}
           c == [n \in Nat |-> CHOOSE r \in [0 .. n -> X] : Starts(n, r)]
           R == [n \in Nat |-> c[n][n]]
<1>1. 0 \in S
    <2> DEFINE r == [d \in 0 .. 0 |-> base]
    <2>1. r \in [0 .. 0 -> X] /\ Starts(0, r)
        OBVIOUS
    <2> QED BY <2>1
<1>2. ASSUME NEW n \in Nat, n \in S PROVE n + 1 \in S
    <2>1. PICK r \in [0 .. n -> X] : Starts(n, r)
        BY <1>2
    <2> DEFINE q == [d \in 0 .. n + 1 |-> IF d = n + 1 THEN step[r[n]] ELSE r[d]]
    <2>2. q \in [0 .. n + 1 -> X]
        OBVIOUS
    <2>3. Starts(n + 1, q)
        <3>1. q[0] = base
            BY <2>1
        <3>2. ASSUME NEW d \in 1 .. n + 1 PROVE q[d] = step[q[d - 1]]
            <4>1. CASE d = n + 1
                BY <4>1
            <4>2. CASE d # n + 1
                BY <2>1, <4>2
            <4> QED BY <4>1, <4>2
        <3> QED BY <3>1, <3>2
    <2> HIDE DEF q
    <2> QED BY <2>2, <2>3
<1>3. \A n \in Nat : n \in S
    <2> HIDE DEF S
    <2> QED BY <1>1, <1>2, SetInduction
<1>4. ASSUME NEW n \in Nat PROVE c[n] \in [0 .. n -> X] /\ Starts(n, c[n])
    BY <1>3
<1> HIDE DEF c
<1>5. ASSUME NEW n \in Nat PROVE c[n + 1][n] = c[n][n]
    <2> DEFINE T == {d \in Nat : d <= n => c[n + 1][d] = c[n][d]}
    <2>1. 0 \in T
        BY <1>4
    <2>2. ASSUME NEW d \in Nat, d \in T PROVE d + 1 \in T
        <3> SUFFICES ASSUME d + 1 <= n PROVE c[n + 1][d + 1] = c[n][d + 1]
            OBVIOUS
        <3>1. c[n + 1][d + 1] = step[c[n + 1][d]] /\ c[n][d + 1] = step[c[n][d]]
            BY <1>4
        <3> QED BY <2>2, <3>1
    <2>3. n \in T
        <3> HIDE DEF T
        <3> QED BY <2>1, <2>2, SetInduction
    <2> QED BY <2>3
<1>6. R \in [Nat -> X] /\ R[0] = base
    BY <1>4
<1>7. ASSUME NEW n \in Nat PROVE R[n + 1] = step[R[n]]
    <2>1. c[n + 1][n + 1] = step[c[n + 1][n]]
        BY <1>4
    <2> QED BY <1>5, <2>1
<1> HIDE DEF R
<1> QED BY <1>6, <1>7

\* Sets that only grow, and once they have not grown never do, have stopped by the
\* size of what they grow in; before they stop they hold one element per step.
LEMMA Saturates ==
    ASSUME NEW S, IsFiniteSet(S), NEW W \in [Nat -> SUBSET S],
           \A d \in Nat : W[d] \subseteq W[d + 1],
           \A d \in Nat : W[d + 1] = W[d] => W[d + 2] = W[d + 1]
    PROVE  /\ \A d \in Nat : W[d + 1] = W[d] \/ Cardinality(W[d]) >= d
           /\ W[Cardinality(S) + 1] = W[Cardinality(S)]
<1>1. \A d \in Nat : IsFiniteSet(W[d]) /\ Cardinality(W[d]) \in Nat
    BY FS_Subset, FS_CardinalityType
<1> DEFINE T == {d \in Nat : W[d + 1] = W[d] \/ Cardinality(W[d]) >= d}
<1>2. 0 \in T
    BY <1>1
<1>3. ASSUME NEW d \in Nat, d \in T PROVE d + 1 \in T
    <2>0. (d + 1) + 1 = d + 2 /\ d + 1 \in Nat
        OBVIOUS
    <2>1. CASE W[d + 1] = W[d]
        <3>1. W[(d + 1) + 1] = W[d + 1]
            BY <2>0, <2>1
        <3> QED BY <2>0, <3>1
    <2>2. CASE W[d + 1] # W[d] /\ Cardinality(W[d]) >= d
        <3>1. W[d] \in SUBSET W[d + 1] /\ IsFiniteSet(W[d + 1])
            BY <1>1
        <3>2. Cardinality(W[d]) <= Cardinality(W[d + 1]) /\ Cardinality(W[d]) # Cardinality(W[d + 1])
            BY <2>2, <3>1, FS_Subset, Zenon
        <3>3. Cardinality(W[d]) \in Nat /\ Cardinality(W[d + 1]) \in Nat
            BY <1>1
        <3>4. Cardinality(W[d + 1]) >= d + 1
            BY <2>2, <3>2, <3>3
        <3> QED BY <3>4
    <2> QED BY <1>3, <2>1, <2>2
<1>4. \A d \in Nat : d \in T
    <2> HIDE DEF T
    <2> QED BY <1>2, <1>3, SetInduction
<1>5. W[Cardinality(S) + 1] = W[Cardinality(S)]
    <2> DEFINE N == Cardinality(S)
    <2>1. N \in Nat
        BY FS_CardinalityType
    <2>2. W[N] \in SUBSET S /\ W[N + 1] \in SUBSET S /\ W[N] \subseteq W[N + 1]
        BY <2>1
    <2>3. W[N + 1] = W[N] \/ Cardinality(W[N]) >= N
        BY <1>4, <2>1
    <2>4. Cardinality(W[N]) <= N /\ (N = Cardinality(W[N]) => S = W[N]) /\ Cardinality(W[N]) \in Nat
        <3>1. Cardinality(W[N]) <= Cardinality(S) /\ (Cardinality(S) = Cardinality(W[N]) => S = W[N])
            BY <2>2, FS_Subset, Zenon
        <3> QED BY <1>1, <2>1, <3>1
    <2> HIDE DEF N
    <2>5. ASSUME Cardinality(W[N]) >= N PROVE W[N + 1] = W[N]
        <3>1. Cardinality(W[N]) = N
            BY <2>1, <2>4, <2>5
        <3> QED BY <2>2, <2>4, <3>1
    <2>6. W[N + 1] = W[N]
        BY <2>3, <2>5
    <2> QED BY <2>6 DEF N
<1> QED BY <1>4, <1>5

-----------------------------------------------------------------------------
(* The chain of folders above a folder. *)

Standing(tree) == {f \in Folder : tree[f] # None}
Parents(tree, A) == {tree[g].parent : g \in A} \ {None}
Forest(tree) == \A f \in Standing(tree) : tree[f].parent \in Standing(tree) \cup {None}

\* The levels of Up, and what it has collected after each.
Climb(tree, f, R, W) ==
    /\ R \in [Nat -> SUBSET Standing(tree)] /\ W \in [Nat -> SUBSET Standing(tree)]
    /\ R[0] = {f} \cap Standing(tree) /\ W[0] = {}
    /\ \A n \in Nat : R[n + 1] = Parents(tree, R[n]) /\ W[n + 1] = W[n] \cup R[n]
    /\ \A n \in Nat : n # 0 => Up(tree, f, n) = W[n]

LEMMA UpClimbs ==
    ASSUME NEW tree, Forest(tree), NEW f
    PROVE  \E R, W : Climb(tree, f, R, W)
<1> DEFINE X == SUBSET Standing(tree)
           base == {f} \cap Standing(tree)
           step == [A \in X |-> Parents(tree, A)]
<1>1. base \in X /\ step \in [X -> X]
    <2> SUFFICES ASSUME NEW A \in X PROVE Parents(tree, A) \in X
        OBVIOUS
    <2> QED BY DEF Parents, Forest
<1>2. PICK R \in [Nat -> X] : R[0] = base /\ \A n \in Nat : R[n + 1] = step[R[n]]
    <2> HIDE DEF base, step, X
    <2> QED BY <1>1, Iterates
<1>3. \A n \in Nat : R[n + 1] = Parents(tree, R[n])
    BY <1>2
<1> DEFINE W == [n \in Nat |-> UNION {R[d] : d \in 0 .. n - 1}]
<1>4. W \in [Nat -> X] /\ W[0] = {}
    BY <1>2
<1>5. ASSUME NEW n \in Nat PROVE W[n + 1] = W[n] \cup R[n]
    <2>1. 0 .. (n + 1) - 1 = (0 .. n - 1) \cup {n}
        OBVIOUS
    <2> QED BY <2>1
<1>6. ASSUME NEW depth \in Nat, depth # 0 PROVE Up(tree, f, depth) = W[depth]
    <2> DEFINE Rec(row) == row = [d \in 0 .. depth - 1 |->
                              IF d = 0 THEN {g \in {f} \cap Folder : tree[g] # None}
                              ELSE {tree[g].parent : g \in row[d - 1]} \ {None}]
               r == [d \in 0 .. depth - 1 |-> R[d]]
               c == CHOOSE row : Rec(row)
    <2>1. Rec(r)
        <3>1. {g \in {f} \cap Folder : tree[g] # None} = R[0]
            BY <1>2 DEF Standing
        <3>2. ASSUME NEW d \in 0 .. depth - 1, d # 0
              PROVE  {tree[g].parent : g \in r[d - 1]} \ {None} = R[d]
            <4>1. d - 1 \in Nat /\ d - 1 \in 0 .. depth - 1 /\ (d - 1) + 1 = d
                BY <3>2
            <4>2. r[d - 1] = R[d - 1] /\ R[(d - 1) + 1] = Parents(tree, R[d - 1])
                BY <1>3, <4>1
            <4> QED BY <4>1, <4>2 DEF Parents
        <3>3. r = [d \in 0 .. depth - 1 |-> IF d = 0 THEN R[0] ELSE R[d]]
            OBVIOUS
        <3> QED BY <3>1, <3>2, <3>3
    <2>2. Rec(c)
        <3> HIDE DEF Rec, r
        <3> QED BY <2>1
    <2>3. Up(tree, f, depth) = UNION {c[d] : d \in 0 .. depth - 1}
        BY DEF Up
    <2>4. \A d \in 0 .. depth - 1 : c[d] = R[d]
        <3> DEFINE T == {d \in Nat : d \in 0 .. depth - 1 => c[d] = R[d]}
        <3> HIDE DEF c
        <3>1. 0 \in T
            BY <1>2, <2>2 DEF Standing
        <3>2. ASSUME NEW d \in Nat, d \in T PROVE d + 1 \in T
            <4> SUFFICES ASSUME d + 1 \in 0 .. depth - 1 PROVE c[d + 1] = R[d + 1]
                OBVIOUS
            <4>0. d + 1 # 0 /\ (d + 1) - 1 = d /\ d \in 0 .. depth - 1
                OBVIOUS
            <4>1. c[d + 1] = {tree[g].parent : g \in c[d]} \ {None}
                BY <2>2, <4>0
            <4>2. c[d] = R[d]
                BY <3>2, <4>0
            <4> QED BY <1>3, <4>1, <4>2 DEF Parents
        <3>3. \A d \in Nat : d \in T
            <4> HIDE DEF T
            <4> QED BY <3>1, <3>2, SetInduction
        <3> QED BY <3>3
    <2>5. W[depth] = UNION {R[d] : d \in 0 .. depth - 1}
        OBVIOUS
    <2> HIDE DEF c, W
    <2>6. {c[d] : d \in 0 .. depth - 1} = {R[d] : d \in 0 .. depth - 1}
        BY <2>4
    <2> QED BY <2>3, <2>5, <2>6
<1> HIDE DEF W
<1>7. Climb(tree, f, R, W)
    BY <1>2, <1>3, <1>4, <1>5, <1>6 DEF Climb
<1> QED BY <1>7

\* What a climb collects: a part of any closed set f is in, ...
LEMMA ClimbIsLeast ==
    ASSUME NEW tree, NEW f, NEW R, NEW W, Climb(tree, f, R, W),
           NEW C, f \in Standing(tree) => f \in C,
           \A g \in C \cap Standing(tree) : tree[g].parent # None => tree[g].parent \in C
    PROVE  \A n \in Nat : W[n] \subseteq C
<1> DEFINE T == {n \in Nat : W[n] \subseteq C /\ R[n] \subseteq C}
<1>1. 0 \in T
    BY DEF Climb
<1>2. ASSUME NEW n \in Nat, n \in T PROVE n + 1 \in T
    <2>1. W[n + 1] = W[n] \cup R[n] /\ R[n + 1] = Parents(tree, R[n]) /\ R[n] \in SUBSET Standing(tree)
        BY DEF Climb
    <2>2. R[n] \subseteq C /\ W[n] \subseteq C
        BY <1>2
    <2>3. R[n + 1] \subseteq C
        BY <2>1, <2>2 DEF Parents
    <2> QED BY <2>1, <2>2, <2>3
<1>3. \A n \in Nat : n \in T
    <2> HIDE DEF T
    <2> QED BY <1>1, <1>2, SetInduction
<1> QED BY <1>3

\* ... and closed once it stops.
LEMMA ClimbStops ==
    ASSUME NEW tree, NEW f, NEW R, NEW W, Climb(tree, f, R, W)
    PROVE  /\ \A n \in Nat : W[n] \subseteq W[n + 1] /\ (n # 0 => R[0] \subseteq W[n])
           /\ \A n \in Nat : W[n + 1] = W[n] => Parents(tree, W[n]) \subseteq W[n]
           /\ \A n \in Nat : W[n + 1] = W[n] => W[n + 2] = W[n + 1]
<1> DEFINE T == {n \in Nat : Parents(tree, W[n]) \cup R[0] = W[n + 1]}
<1>1. \A n \in Nat : W[n + 1] = W[n] \cup R[n] /\ R[n + 1] = Parents(tree, R[n])
    BY DEF Climb
<1>2. 0 \in T
    BY <1>1 DEF Climb, Parents
<1>3. ASSUME NEW n \in Nat, n \in T PROVE n + 1 \in T
    <2>1. W[(n + 1) + 1] = W[n + 1] \cup R[n + 1] /\ W[n + 1] = W[n] \cup R[n]
        BY <1>1
    <2>2. Parents(tree, W[n + 1]) = Parents(tree, W[n]) \cup Parents(tree, R[n])
        BY <2>1 DEF Parents
    <2>3. Parents(tree, W[n]) \cup R[0] = W[n + 1]
        BY <1>3
    <2>4. Parents(tree, W[n + 1]) \cup R[0] = W[n + 1] \cup R[n + 1]
        BY <1>1, <2>2, <2>3
    <2> QED BY <2>1, <2>4
<1>4. \A n \in Nat : n \in T
    <2> HIDE DEF T
    <2> QED BY <1>2, <1>3, SetInduction
<1>5. \A n \in Nat : Parents(tree, W[n]) \cup R[0] = W[n + 1]
    BY <1>4
<1>6. \A n \in Nat : n # 0 => n - 1 \in Nat /\ (n - 1) + 1 = n
    OBVIOUS
<1>7. \A n \in Nat : n # 0 => R[0] \subseteq W[n]
    BY <1>5, <1>6
<1>8. ASSUME NEW n \in Nat, W[n + 1] = W[n] PROVE W[n + 2] = W[n + 1]
    <2>1. n + 1 \in Nat /\ (n + 1) + 1 = n + 2
        OBVIOUS
    <2> QED BY <1>5, <1>8, <2>1
<1> QED BY <1>1, <1>5, <1>7, <1>8

\* The chain of f is made of folders that are there, f among them ...
LEMMA UpStanding ==
    ASSUME NEW tree, Forest(tree), NEW f, NEW depth \in Nat \ {0}
    PROVE  /\ Up(tree, f, depth) \subseteq Standing(tree)
           /\ f \in Standing(tree) => f \in Up(tree, f, depth)
           /\ f \notin Standing(tree) => Up(tree, f, depth) = {}
<1>1. PICK R, W : Climb(tree, f, R, W)
    BY UpClimbs
<1>2. Up(tree, f, depth) = W[depth] /\ W[depth] \in SUBSET Standing(tree)
    BY <1>1 DEF Climb
<1>3. R[0] \subseteq W[depth] /\ R[0] = {f} \cap Standing(tree)
    <2>1. \A n \in Nat : n # 0 => R[0] \subseteq W[n]
        BY <1>1, ClimbStops, Zenon
    <2> QED BY <1>1, <2>1 DEF Climb
<1>4. ASSUME f \notin Standing(tree) PROVE W[depth] \subseteq {}
    <2> DEFINE C == {}
    <2>1. /\ f \in Standing(tree) => f \in C
          /\ \A g \in C \cap Standing(tree) : tree[g].parent # None => tree[g].parent \in C
        BY <1>4
    <2> HIDE DEF C
    <2>2. \A n \in Nat : W[n] \subseteq C
        BY <1>1, <2>1, ClimbIsLeast, Zenon
    <2> QED BY <2>2 DEF C
<1> QED BY <1>2, <1>3, <1>4

\* ... and least among the sets that have f and the parent of each of theirs.
LEMMA UpIsLeast ==
    ASSUME NEW tree, Forest(tree), NEW f, NEW depth \in Nat \ {0},
           NEW C, f \in Standing(tree) => f \in C,
           \A g \in C \cap Standing(tree) : tree[g].parent # None => tree[g].parent \in C
    PROVE  Up(tree, f, depth) \subseteq C
<1>1. PICK R, W : Climb(tree, f, R, W)
    BY UpClimbs
<1>2. W[depth] \subseteq C
    BY <1>1, ClimbIsLeast
<1> QED BY <1>1, <1>2 DEF Climb

\* As many levels as there are folders are all of them.
LEMMA UpIsClosed ==
    ASSUME NEW tree, Forest(tree), NEW f \in Standing(tree)
    PROVE  LET up == Up(tree, f, Cardinality(Folder))
           IN  \A g \in up : tree[g].parent # None => tree[g].parent \in up
<1> DEFINE N == Cardinality(Folder)
<1>1. PICK R, W : Climb(tree, f, R, W)
    BY UpClimbs
<1>2. N \in Nat /\ N # 0
    BY ItemAssumption, FS_CardinalityType, FS_EmptySet DEF Standing
<1>3. W \in [Nat -> SUBSET Folder]
    BY <1>1 DEF Climb, Standing
<1>4. W[N + 1] = W[N]
    BY <1>1, <1>3, ClimbStops, Saturates, ItemAssumption
<1> HIDE DEF N
<1>5. Parents(tree, W[N]) \subseteq W[N] /\ Up(tree, f, N) = W[N]
    <2>1. \A n \in Nat : W[n + 1] = W[n] => Parents(tree, W[n]) \subseteq W[n]
        BY <1>1, ClimbStops, Zenon
    <2> QED BY <1>1, <1>2, <1>4, <2>1 DEF Climb
<1> QED BY <1>5 DEF Parents, N

\* Fewer are, when they have room for all ancestors.
LEMMA UpIsWhole ==
    ASSUME NEW tree, Forest(tree), NEW f \in Standing(tree), NEW depth \in Nat \ {0},
           Cardinality(Up(tree, f, Cardinality(Folder))) <= depth
    PROVE  Up(tree, f, depth) = Up(tree, f, Cardinality(Folder))
<1> DEFINE all == Up(tree, f, Cardinality(Folder))
<1>1. PICK R, W : Climb(tree, f, R, W)
    BY UpClimbs
<1>2. Cardinality(Folder) \in Nat \ {0}
    BY ItemAssumption, FS_CardinalityType, FS_EmptySet DEF Standing
<1>3. /\ f \in all /\ all \subseteq Folder
      /\ \A g \in all : tree[g].parent # None => tree[g].parent \in all
    BY <1>2, UpStanding, UpIsClosed DEF Standing
<1>4. Up(tree, f, depth) \subseteq all
    <2> HIDE DEF all
    <2> QED BY <1>3, UpIsLeast
<1>5. W \in [Nat -> SUBSET Folder] /\ Up(tree, f, depth) = W[depth]
    BY <1>1 DEF Climb, Standing
<1>6. W[depth + 1] = W[depth] \/ Cardinality(W[depth]) >= depth
    BY <1>1, <1>5, ClimbStops, Saturates, ItemAssumption
<1>7. CASE W[depth + 1] = W[depth]
    <2>1. Parents(tree, W[depth]) \subseteq W[depth]
        BY <1>1, <1>7, ClimbStops
    <2>2. f \in W[depth]
        BY <1>5, UpStanding
    <2>3. all \subseteq W[depth]
        BY <1>2, <2>1, <2>2, UpIsLeast DEF Parents
    <2> QED BY <1>4, <1>5, <2>3
<1>8. CASE Cardinality(W[depth]) >= depth
    <2> HIDE DEF all
    <2>1. IsFiniteSet(all) /\ W[depth] \in SUBSET all
        BY <1>3, <1>4, <1>5, FS_Subset, ItemAssumption
    <2>2. /\ Cardinality(W[depth]) <= Cardinality(all)
          /\ Cardinality(all) = Cardinality(W[depth]) => all = W[depth]
          /\ IsFiniteSet(W[depth])
        BY <2>1, FS_Subset, Zenon
    <2>3. Cardinality(W[depth]) \in Nat /\ Cardinality(all) \in Nat
        BY <2>1, <2>2, FS_CardinalityType
    <2>4. Cardinality(all) <= depth
        BY DEF all
    <2>5. all = W[depth]
        BY <1>8, <2>2, <2>3, <2>4
    <2> QED BY <1>5, <2>5 DEF all
<1> QED BY <1>6, <1>7, <1>8

-----------------------------------------------------------------------------
(* The folders below those a user has. *)

\* What Below collects, step by step.
Sink(listed, base, W) ==
    /\ W \in [Nat -> SUBSET Folder] /\ W[0] = base
    /\ \A n \in Nat : W[n + 1] = W[n] \cup {f \in listed : folder[f].parent \in W[n]}
    /\ Below(listed, base) = W[Cardinality(Folder)]

LEMMA BelowSinks ==
    ASSUME NEW listed \in SUBSET Folder, NEW base \in SUBSET Folder
    PROVE  \E W : Sink(listed, base, W)
<1> DEFINE X == SUBSET Folder
           step == [A \in X |-> A \cup {f \in listed : folder[f].parent \in A}]
           N == Cardinality(Folder)
<1>1. base \in X /\ step \in [X -> X]
    OBVIOUS
<1>2. PICK W \in [Nat -> X] : W[0] = base /\ \A n \in Nat : W[n + 1] = step[W[n]]
    <2> HIDE DEF step, X
    <2> QED BY <1>1, Iterates
<1>3. \A n \in Nat : W[n + 1] = W[n] \cup {f \in listed : folder[f].parent \in W[n]}
    BY <1>2
<1>4. N \in Nat
    BY ItemAssumption, FS_CardinalityType
<1> DEFINE Rec(level) == level = [d \in 0 .. N |->
                IF d = 0 THEN base
                ELSE LET over == level[d - 1]
                     IN  over \cup {f \in listed : folder[f].parent \in over}]
           r == [d \in 0 .. N |-> W[d]]
           c == CHOOSE level : Rec(level)
<1>5. Below(listed, base) = c[N]
    BY DEF Below
<1> HIDE DEF N
<1>6. Rec(r)
    <2>1. ASSUME NEW d \in 0 .. N, d # 0
          PROVE  W[d] = r[d - 1] \cup {f \in listed : folder[f].parent \in r[d - 1]}
        <3>1. d - 1 \in Nat /\ d - 1 \in 0 .. N /\ (d - 1) + 1 = d
            BY <1>4, <2>1
        <3>2. r[d - 1] = W[d - 1]
            BY <3>1
        <3> QED BY <1>3, <3>1, <3>2
    <2>2. r = [d \in 0 .. N |-> IF d = 0 THEN W[0] ELSE W[d]]
        OBVIOUS
    <2> QED BY <1>2, <2>1, <2>2
<1>7. Rec(c)
    <2> HIDE DEF Rec, r
    <2> QED BY <1>6
<1>8. c[N] = W[N]
    <2> DEFINE T == {d \in Nat : d \in 0 .. N => c[d] = W[d]}
    <2> HIDE DEF c
    <2>1. 0 \in T
        BY <1>2, <1>4, <1>7
    <2>2. ASSUME NEW d \in Nat, d \in T PROVE d + 1 \in T
        <3> SUFFICES ASSUME d + 1 \in 0 .. N PROVE c[d + 1] = W[d + 1]
            OBVIOUS
        <3>1. d + 1 # 0 /\ (d + 1) - 1 = d /\ d \in 0 .. N
            BY <1>4
        <3>2. c[d + 1] = c[d] \cup {f \in listed : folder[f].parent \in c[d]}
            BY <1>7, <3>1
        <3>3. c[d] = W[d]
            BY <2>2, <3>1
        <3> QED BY <1>3, <3>2, <3>3
    <2>3. \A d \in Nat : d \in T
        <3> HIDE DEF T
        <3> QED BY <2>1, <2>2, SetInduction
    <2> QED BY <1>4, <2>3
<1>9. Sink(listed, base, W)
    BY <1>2, <1>3, <1>5, <1>8 DEF Sink, N
<1> QED BY <1>9

LEMMA SinkStops ==
    ASSUME NEW listed, NEW base, NEW W, Sink(listed, base, W)
    PROVE  /\ \A n \in Nat : base \subseteq W[n]
           /\ W[Cardinality(Folder) + 1] = W[Cardinality(Folder)]
<1>1. /\ W \in [Nat -> SUBSET Folder] /\ W[0] = base
      /\ \A n \in Nat : W[n + 1] = W[n] \cup {f \in listed : folder[f].parent \in W[n]}
    BY DEF Sink
<1>2. \A n \in Nat : W[n] \subseteq W[n + 1]
    BY <1>1
<1>3. ASSUME NEW n \in Nat, W[n + 1] = W[n] PROVE W[n + 2] = W[n + 1]
    <2>1. n + 1 \in Nat /\ (n + 1) + 1 = n + 2
        OBVIOUS
    <2>2. /\ W[(n + 1) + 1] = W[n + 1] \cup {f \in listed : folder[f].parent \in W[n + 1]}
          /\ W[n + 1] = W[n] \cup {f \in listed : folder[f].parent \in W[n]}
        BY <1>1, <2>1
    <2> QED BY <1>3, <2>1, <2>2
<1>4. W[Cardinality(Folder) + 1] = W[Cardinality(Folder)]
    BY <1>1, <1>2, <1>3, Saturates, ItemAssumption
<1> DEFINE T == {n \in Nat : base \subseteq W[n]}
<1>5. 0 \in T
    BY <1>1
<1>6. ASSUME NEW n \in Nat, n \in T PROVE n + 1 \in T
    BY <1>2, <1>6
<1>7. \A n \in Nat : n \in T
    <2> HIDE DEF T
    <2> QED BY <1>5, <1>6, SetInduction
<1> QED BY <1>4, <1>7

\* Below has base, and the listed children of each of its folders ...
LEMMA BelowIsClosed ==
    ASSUME NEW listed \in SUBSET Folder, NEW base \in SUBSET Folder
    PROVE  LET below == Below(listed, base)
           IN  /\ base \subseteq below /\ below \subseteq Folder
               /\ \A f \in listed : folder[f].parent \in below => f \in below
<1>1. PICK W : Sink(listed, base, W)
    BY BelowSinks
<1>2. Cardinality(Folder) \in Nat
    BY ItemAssumption, FS_CardinalityType
<1>3. base \subseteq W[Cardinality(Folder)] /\ W[Cardinality(Folder) + 1] = W[Cardinality(Folder)]
    BY <1>1, <1>2, SinkStops
<1> DEFINE N == Cardinality(Folder)
<1> HIDE DEF N
<1>4. /\ W[N + 1] = W[N] \cup {f \in listed : folder[f].parent \in W[N]}
      /\ W[N + 1] = W[N] /\ base \subseteq W[N] /\ W[N] \subseteq Folder
      /\ Below(listed, base) = W[N]
    BY <1>1, <1>2, <1>3 DEF Sink, N
<1> QED BY <1>4

\* ... and nothing else.
LEMMA BelowIsLeast ==
    ASSUME NEW listed \in SUBSET Folder, NEW base \in SUBSET Folder,
           NEW C, base \subseteq C, \A f \in listed : folder[f].parent \in C => f \in C
    PROVE  Below(listed, base) \subseteq C
<1>1. PICK W : Sink(listed, base, W)
    BY BelowSinks
<1>2. /\ W[0] = base
      /\ \A n \in Nat : W[n + 1] = W[n] \cup {f \in listed : folder[f].parent \in W[n]}
    BY <1>1 DEF Sink
<1> DEFINE T == {n \in Nat : W[n] \subseteq C}
<1>3. 0 \in T
    BY <1>2
<1>4. ASSUME NEW n \in Nat, n \in T PROVE n + 1 \in T
    BY <1>2, <1>4
<1>5. \A n \in Nat : n \in T
    <2> HIDE DEF T
    <2> QED BY <1>3, <1>4, SetInduction
<1>6. Cardinality(Folder) \in Nat
    BY ItemAssumption, FS_CardinalityType
<1>7. W[Cardinality(Folder)] \subseteq C
    BY <1>5, <1>6
<1> QED BY <1>1, <1>7 DEF Sink

-----------------------------------------------------------------------------
(* Rights in terms of chains. *)

\* The best of the shares on the items, 0 without any.
LEMMA GrantedIsBest ==
    ASSUME SharesOK, NEW u, NEW items
    PROVE  /\ \A s \in ActiveShares(u, items) : 0 < s.access /\ s.access <= Granted(u, items)
           /\ Granted(u, items) = 0 \/ \E s \in ActiveShares(u, items) : s.access = Granted(u, items)
<1> DEFINE levels == {s.access : s \in ActiveShares(u, items)}
<1>1. \A a \in levels : a = 1 \/ a = 2
    BY DEF SharesOK, ActiveShares, VIEW, EDIT
<1>2. Granted(u, items) = Best(levels) /\ \A s \in ActiveShares(u, items) : s.access \in levels
    BY DEF Granted
<1>3. \A a \in levels : \E s \in ActiveShares(u, items) : s.access = a
    OBVIOUS
<1> HIDE DEF levels
<1>4. CASE levels = {}
    BY <1>2, <1>4 DEF Best
<1>5. CASE levels # {}
    <2>1. PICK a \in levels : 2 \in levels => a = 2
        BY <1>5
    <2>2. \A b \in levels : b <= a
        BY <1>1, <2>1
    <2>3. Best(levels) \in levels /\ \A b \in levels : b <= Best(levels)
        BY <1>5, <2>2 DEF Best
    <2> QED BY <1>1, <1>2, <1>3, <2>3
<1> QED BY <1>4, <1>5

\* What the keys of the schema give.
LEMMA Rows ==
    ASSUME TypeOK
    PROVE  /\ SharesOK /\ Forest(folder) /\ Standing(folder) = Folders
           /\ \A u : OwnedFolders(u) \in SUBSET Folders /\ SharedFolders(u) \in SUBSET Folders
           /\ Folders \in SUBSET Folder /\ Notes \in SUBSET Note
           /\ \A n \in Notes : note[n].folder \in Folders \cup {None}
           /\ \A f \in Folders : f \notin Note
           /\ \A u : SharedNotes(u) \in SUBSET Notes
<1>1. Consistent(folder, note, shares)
    BY DEF TypeOK
<1>2. /\ Standing(folder) = Folders /\ Folders \in SUBSET Folder /\ Notes \in SUBSET Note
    BY DEF Standing, Folders, Notes
<1>3. \A s \in shares : s.on \in Folders \cup Notes /\ s.access \in {VIEW, EDIT}
    BY <1>1 DEF Consistent, Share, Folders, Notes
<1>4. \A f \in Folders : folder[f].parent \in Folders \cup {None}
    BY <1>1, NoneAssumption, ItemAssumption DEF Consistent, FolderRow, Folders
<1>5. \A n \in Notes : note[n].folder \in Folders \cup {None}
    BY <1>1, NoneAssumption, ItemAssumption DEF Consistent, NoteRow, Notes, Folders
<1>6. \A u : OwnedFolders(u) \in SUBSET Folders /\ SharedFolders(u) \in SUBSET Folders
    BY <1>2, <1>3, ItemAssumption DEF OwnedFolders, SharedFolders, ActiveShares
<1>7. \A u : SharedNotes(u) \in SUBSET Notes
    BY <1>2, <1>3, ItemAssumption DEF SharedNotes, ActiveShares
<1> QED BY <1>2, <1>3, <1>4, <1>5, <1>6, <1>7, ItemAssumption DEF SharesOK, Forest

Ancestors(f) == Up(folder, f, Cardinality(Folder))

LEMMA AncestorsAre ==
    ASSUME TypeOK, NEW f \in Folders
    PROVE  /\ f \in Ancestors(f) /\ Ancestors(f) \subseteq Folders
           /\ folder[f].parent # None => Ancestors(folder[f].parent) \subseteq Ancestors(f)
           /\ f \in ShallowFolders => FolderChain(f) = Ancestors(f)
<1>1. Forest(folder) /\ Standing(folder) = Folders
    BY Rows
<1>2. Cardinality(Folder) \in Nat \ {0}
    BY ItemAssumption, FS_CardinalityType, FS_EmptySet DEF Folders
<1>3. f \in Ancestors(f) /\ Ancestors(f) \subseteq Folders
    BY <1>1, <1>2, UpStanding DEF Ancestors
<1>4. \A g \in Ancestors(f) : folder[g].parent # None => folder[g].parent \in Ancestors(f)
    BY <1>1, UpIsClosed DEF Ancestors
<1>5. ASSUME folder[f].parent # None PROVE Ancestors(folder[f].parent) \subseteq Ancestors(f)
    <2> DEFINE C == Ancestors(f)
               p == folder[f].parent
    <2>1. p \in C /\ \A g \in C \cap Standing(folder) : folder[g].parent # None => folder[g].parent \in C
        BY <1>3, <1>4, <1>5
    <2> HIDE DEF C, p
    <2>2. Up(folder, p, Cardinality(Folder)) \subseteq C
        BY <1>1, <1>2, <2>1, UpIsLeast
    <2> QED BY <2>2 DEF C, p, Ancestors
<1>6. ASSUME f \in ShallowFolders PROVE FolderChain(f) = Ancestors(f)
    BY <1>1, <1>6, UpIsWhole, BoundAssumption DEF ShallowFolders, FolderChain, Ancestors
<1> QED BY <1>3, <1>5, <1>6

LEMMA ChainsStand ==
    ASSUME TypeOK, NEW f
    PROVE  /\ FolderChain(f) \subseteq Folders
           /\ f \in Folders => f \in FolderChain(f)
           /\ f \notin Folders => FolderChain(f) = {}
BY Rows, UpStanding, BoundAssumption DEF FolderChain

\* What the chain of a folder meets is listed, and so is the folder.
LEMMA ChainIsListed ==
    ASSUME TypeOK, NEW u, NEW f \in Folders, NEW g \in FolderChain(f), g \in AccessibleFolders(u)
    PROVE  f \in AccessibleFolders(u)
<1> DEFINE listed == AccessibleFolders(u)
           C == {h \in Folders : h \notin listed}
<1>1. \A h \in Folders : folder[h].parent \in listed => h \in listed
    BY Rows, BelowIsClosed DEF AccessibleFolders
<1>2. \A h \in C : folder[h].parent # None => folder[h].parent \in C
    BY <1>1, Rows DEF Forest
<1>3. SUFFICES ASSUME f \notin listed PROVE FALSE
    OBVIOUS
<1>4. f \in C /\ g \notin C
    BY <1>3
<1> HIDE DEF C
<1>5. Up(folder, f, MaxDepth) \subseteq C
    BY <1>2, <1>4, UpIsLeast, BoundAssumption, Rows
<1> QED BY <1>4, <1>5 DEF FolderChain

\* A listed folder has an ancestor that is owned or shared.
LEMMA ListedHasRoot ==
    ASSUME TypeOK, NEW u, NEW f \in AccessibleFolders(u)
    PROVE  f \in Folders /\ Ancestors(f) \cap (OwnedFolders(u) \cup SharedFolders(u)) # {}
<1> DEFINE base == OwnedFolders(u) \cup SharedFolders(u)
           C == {h \in Folders : Ancestors(h) \cap base # {}}
<1>1. base \subseteq Folders /\ Folders \in SUBSET Folder
    BY Rows
<1>2. base \subseteq C
    BY <1>1, AncestorsAre
<1>3. ASSUME NEW h \in Folders, folder[h].parent \in C PROVE h \in C
    BY <1>3, AncestorsAre, NoneAssumption DEF Folders
<1>4. Below(Folders, base) \subseteq C
    <2> HIDE DEF C, base
    <2> QED BY <1>1, <1>2, <1>3, BelowIsLeast
<1> QED BY <1>4 DEF AccessibleFolders

\* Rights on a folder come from what its chain meets.
LEMMA RightsOfChain ==
    ASSUME TypeOK, NEW u, NEW f \in Folders
    PROVE  /\ OwnsOneOf(u, FolderChain(f)) <=> FolderChain(f) \cap OwnedFolders(u) # {}
           /\ ActiveShares(u, FolderChain(f)) # {} <=> FolderChain(f) \cap SharedFolders(u) # {}
           /\ FolderAccess(u, f) > 0 <=> FolderChain(f) \cap (OwnedFolders(u) \cup SharedFolders(u)) # {}
<1>1. FolderChain(f) \subseteq Folders /\ Folders \subseteq Folder
    BY ChainsStand, Rows
<1>2. OwnsOneOf(u, FolderChain(f)) <=> FolderChain(f) \cap OwnedFolders(u) # {}
    BY <1>1 DEF OwnsOneOf, OwnedFolders, Folders
<1>3. ActiveShares(u, FolderChain(f)) # {} <=> FolderChain(f) \cap SharedFolders(u) # {}
    BY <1>1 DEF ActiveShares, SharedFolders
<1>4. Granted(u, FolderChain(f)) > 0 <=> ActiveShares(u, FolderChain(f)) # {}
    <2>1. /\ \A s \in ActiveShares(u, FolderChain(f)) : 0 < s.access /\ s.access <= Granted(u, FolderChain(f))
          /\ \/ Granted(u, FolderChain(f)) = 0
             \/ \E s \in ActiveShares(u, FolderChain(f)) : s.access = Granted(u, FolderChain(f))
        BY GrantedIsBest, Rows
    <2>2. \A s \in ActiveShares(u, FolderChain(f)) : s.access \in 1 .. 2
        BY Rows DEF ActiveShares, SharesOK, VIEW, EDIT
    <2>3. Granted(u, FolderChain(f)) \in 0 .. 2
        BY GrantedRange, Rows
    <2> QED BY <2>1, <2>2, <2>3
<1> QED BY <1>2, <1>3, <1>4 DEF FolderAccess, OWNER

-----------------------------------------------------------------------------
(* Resolving and listing agree. *)

LEMMA FoldersAgree ==
    ASSUME TypeOK, NEW u, NEW f \in Folders
    PROVE  /\ FolderAccess(u, f) > 0 => f \in AccessibleFolders(u)
           /\ f \in AccessibleFolders(u) \cap ShallowFolders => FolderAccess(u, f) > 0
<1> DEFINE base == OwnedFolders(u) \cup SharedFolders(u)
<1>1. base \subseteq AccessibleFolders(u)
    BY Rows, BelowIsClosed DEF AccessibleFolders
<1>2. FolderAccess(u, f) > 0 <=> FolderChain(f) \cap base # {}
    BY RightsOfChain
<1>3. f \in AccessibleFolders(u) => Ancestors(f) \cap base # {}
    BY ListedHasRoot
<1>4. f \in ShallowFolders => FolderChain(f) = Ancestors(f)
    BY AncestorsAre
<1> HIDE DEF base
<1>5. ASSUME FolderChain(f) \cap base # {} PROVE f \in AccessibleFolders(u)
    <2>1. PICK g \in FolderChain(f) : g \in AccessibleFolders(u)
        BY <1>1, <1>5
    <2> QED BY <2>1, ChainIsListed
<1> QED BY <1>2, <1>3, <1>4, <1>5

\* A note can be opened by its author, through its folder, or through a share of
\* its own.
LEMMA RightsOnNote ==
    ASSUME TypeOK, NEW u, NEW n \in Notes
    PROVE  NoteAccess(u, n) > 0 <=>
               \/ note[n].author = u \/ n \in SharedNotes(u)
               \/ note[n].folder # None /\ FolderAccess(u, note[n].folder) > 0
<1> DEFINE f == note[n].folder
           chain == FolderChain(f)
<1>1. note[n] # None /\ n \in Note /\ n \notin Folder /\ f \in Folders \cup {None} /\ None \notin Folders
    BY Rows, ItemAssumption, NoneAssumption DEF Notes, Folders
<1>2. chain \subseteq Folders /\ Folders \subseteq Folder /\ (f \notin Folders => chain = {})
    BY ChainsStand, Rows
<1>3. /\ \A s \in ActiveShares(u, {n} \cup chain) :
             s.access \in 1 .. 2 /\ s.access <= Granted(u, {n} \cup chain)
      /\ \/ Granted(u, {n} \cup chain) = 0
         \/ \E s \in ActiveShares(u, {n} \cup chain) : s.access = Granted(u, {n} \cup chain)
      /\ Granted(u, {n} \cup chain) \in 0 .. 2
    <2>1. \A s \in shares : s.access \in 1 .. 2
        BY Rows DEF SharesOK, VIEW, EDIT
    <2> QED BY <2>1, GrantedIsBest, GrantedRange, Rows DEF ActiveShares
<1>4. ActiveShares(u, {n} \cup chain) # {} <=> n \in SharedNotes(u) \/ ActiveShares(u, chain) # {}
    BY <1>1 DEF ActiveShares, SharedNotes
<1>5. Granted(u, {n} \cup chain) > 0 <=> n \in SharedNotes(u) \/ ActiveShares(u, chain) # {}
    <2> DEFINE all == ActiveShares(u, {n} \cup chain)
               best == Granted(u, {n} \cup chain)
    <2>1. /\ \A s \in all : s.access \in 1 .. 2 /\ s.access <= best
          /\ best = 0 \/ \E s \in all : s.access = best
          /\ best \in 0 .. 2
        BY <1>3
    <2> HIDE DEF all, best
    <2>2. best > 0 <=> all # {}
        BY <2>1
    <2> QED BY <1>4, <2>2 DEF all, best
<1>6. f # None => (FolderAccess(u, f) > 0 <=> OwnsOneOf(u, chain) \/ ActiveShares(u, chain) # {})
    BY <1>1, RightsOfChain
<1>7. f = None => ~OwnsOneOf(u, chain) /\ ActiveShares(u, chain) = {}
    BY <1>1, <1>2 DEF OwnsOneOf, ActiveShares
<1>8. NoteAccess(u, n) = IF note[n].author = u \/ OwnsOneOf(u, chain) THEN OWNER ELSE Granted(u, {n} \cup chain)
    BY <1>1 DEF NoteAccess
<1> HIDE DEF f, chain
<1> QED BY <1>5, <1>6, <1>7, <1>8 DEF OWNER, f

LEMMA ListingAgrees == TypeOK => ListedCanBeOpened
<1> SUFFICES ASSUME TypeOK, NEW u \in User
             PROVE  LET folders == AccessibleFolders(u)
                        notes == ListedNotes(u, TRUE)
                        hits == SearchHits(u) \cap IndexPageNotes(u)
                    IN  /\ \A f \in Folders : FolderAccess(u, f) > 0 => f \in folders
                        /\ \A n \in Notes : NoteAccess(u, n) > 0 =>
                                n \in notes /\ (n \in hits \/ note[n].archived)
                        /\ \A f \in folders \cap ShallowFolders : FolderAccess(u, f) > 0
                        /\ \A n \in notes : note[n].folder \in ShallowFolders \cup {None}
                                                => NoteAccess(u, n) > 0
                        /\ \A n \in SharedSection(u) : NoteAccess(u, n) > 0
    BY DEF ListedCanBeOpened
<1>1. \A f \in Folders : /\ FolderAccess(u, f) > 0 => f \in AccessibleFolders(u)
                         /\ f \in AccessibleFolders(u) \cap ShallowFolders => FolderAccess(u, f) > 0
    BY FoldersAgree
<1>2. \A n \in Notes : NoteAccess(u, n) > 0 <=>
               \/ note[n].author = u \/ n \in SharedNotes(u)
               \/ note[n].folder # None /\ FolderAccess(u, note[n].folder) > 0
    BY RightsOnNote
<1>3. /\ \A n \in Notes : note[n].folder \in Folders \cup {None}
      /\ AccessibleFolders(u) \subseteq Folders /\ ShallowFolders \subseteq Folders /\ None \notin Folders
    BY Rows, ListedHasRoot, NoneAssumption DEF ShallowFolders, Folders
<1>4. \A n \in Notes, archived \in BOOLEAN : n \in ListedNotes(u, archived) <=>
            /\ note[n].archived => archived
            /\ \/ note[n].author = u \/ note[n].folder \in AccessibleFolders(u) \/ n \in SharedNotes(u)
    BY DEF ListedNotes
<1>5. ListedNotes(u, TRUE) \subseteq Notes /\ SharedSection(u) \subseteq Notes \cap SharedNotes(u)
    BY DEF ListedNotes, SharedSection
<1>6. SearchHits(u) \cap IndexPageNotes(u) = ListedNotes(u, FALSE)
    BY DEF SearchHits, IndexPageNotes
<1>7. \A n \in Notes : NoteAccess(u, n) > 0 =>
            \/ note[n].author = u \/ note[n].folder \in AccessibleFolders(u) \/ n \in SharedNotes(u)
    BY <1>1, <1>2, <1>3
<1>8. \A n \in Notes : NoteAccess(u, n) > 0 =>
            n \in ListedNotes(u, TRUE) /\ (n \in ListedNotes(u, FALSE) \/ note[n].archived)
    BY <1>4, <1>7
<1>9. \A n \in ListedNotes(u, TRUE) : note[n].folder \in ShallowFolders \cup {None} => NoteAccess(u, n) > 0
    BY <1>1, <1>2, <1>3, <1>4, <1>5
<1> QED BY <1>1, <1>2, <1>3, <1>5, <1>6, <1>8, <1>9

LEMMA SectionsAgree == TypeOK => OwnSectionIsOwned
<1> SUFFICES ASSUME TypeOK, NEW u \in User, NEW f \in OwnFolders(u) \cap ShallowFolders
             PROVE  FolderAccess(u, f) = OWNER
    BY DEF OwnSectionIsOwned
<1> DEFINE listed == AccessibleFolders(u)
           base == OwnedFolders(u) \cup SharedFolders(u)
           above == Below(listed, SharedFolders(u))
           C == {h \in listed : h \in above \/ Ancestors(h) \cap OwnedFolders(u) # {}}
<1>1. /\ listed \subseteq Folders /\ Folders \in SUBSET Folder /\ listed \in SUBSET Folder
      /\ base \subseteq listed /\ base \in SUBSET Folder /\ SharedFolders(u) \in SUBSET Folder
      /\ \A h \in Folders : folder[h].parent \in listed => h \in listed
    BY Rows, ListedHasRoot, BelowIsClosed DEF AccessibleFolders
<1>2. /\ SharedFolders(u) \subseteq above
      /\ \A h \in listed : folder[h].parent \in above => h \in above
    BY <1>1, BelowIsClosed
<1>3. base \subseteq C
    BY <1>1, <1>2, AncestorsAre
<1>4. ASSUME NEW h \in Folders, folder[h].parent \in C PROVE h \in C
    <2>1. h \in listed /\ folder[h].parent # None
        BY <1>1, <1>4, NoneAssumption
    <2>2. Ancestors(folder[h].parent) \subseteq Ancestors(h)
        BY <2>1, AncestorsAre
    <2> QED BY <1>2, <1>4, <2>1, <2>2
<1>5. listed \subseteq C
    <2> HIDE DEF C, base
    <2>1. Below(Folders, base) \subseteq C
        BY <1>1, <1>3, <1>4, BelowIsLeast
    <2> QED BY <2>1 DEF AccessibleFolders, base
<1>6. f \in listed /\ f \notin above /\ f \in ShallowFolders
    BY DEF OwnFolders
<1>7. f \in Folders /\ FolderChain(f) \cap OwnedFolders(u) # {}
    BY <1>1, <1>5, <1>6, AncestorsAre
<1> QED BY <1>7, RightsOfChain DEF FolderAccess

-----------------------------------------------------------------------------
(* What a request reads while at most one change falls on it. *)

\* The right on a note, as far as the folder it was read in tells.
RowLevel(u, n, f) ==
    LET chain == FolderChain(f)
    IN  IF OwnsOneOf(u, chain) THEN OWNER ELSE Granted(u, {n} \cup chain)

\* What was resolved, and what will be from what was read, is no more than was held.
Based(u, r) ==
    LET x == Current(r).on
        n == Len(r.got) + 1
    IN  /\ \A i \in 1 .. Len(r.got) : r.got[i] <= r.held[i]
        /\ r.stage = "chain" /\ x \in Note => RowLevel(u, x, r.row) <= r.held[n]
        /\ r.stage = "grants" => Granted(u, r.chain \cup (Note \cap {x})) <= r.held[n]

Good(u, r) ==
    /\ Len(r.held) = Len(r.needs)
    /\ \A i \in 1 .. Len(r.needs) :
          /\ r.held[i] >= Access(u, r.needs[i].on)
          /\ r.overlap = 0 => r.held[i] = Access(u, r.needs[i].on)
    /\ r.overlap < 2 => Based(u, r)

BasisInv == TypeOK /\ Inv /\ \A u \in User : req[u] # None => Good(u, req[u])

AccessTyped == \A u, x : Access(u, x) \in 0 .. 3

LEMMA AccessTypedNow == SharesOK => AccessTyped
BY AccessRange DEF AccessTyped

LEMMA AccessTypedNext == SharesOK' => AccessTyped'
BY AccessTypedNow, PTL

LEMMA BestOfTwo ==
    ASSUME NEW a \in 0 .. 3, NEW b \in 0 .. 3
    PROVE  LET c == Best({a} \cup {b})
           IN  c \in 0 .. 3 /\ a <= c /\ b <= c /\ c \in {a, b}
<1>1. PICK c \in {a, b} : a <= c /\ b <= c
    OBVIOUS
<1>2. \E d \in {a} \cup {b} : \A e \in {a} \cup {b} : e <= d
    BY <1>1
<1>3. Best({a} \cup {b}) \in {a} \cup {b} /\ \A e \in {a} \cup {b} : e <= Best({a} \cup {b})
    BY <1>2 DEF Best
<1> QED BY <1>3

\* What a change makes of a request under way.
LEMMA WatchedIs ==
    ASSUME SharesOK', NEW u \in User, NEW r \in Request, Len(r.held) = Len(r.needs), None \notin Request
    PROVE  LET q == Watched(r, u)
           IN  /\ q \in Request /\ q # None /\ Len(q.held) = Len(q.needs)
               /\ q.op = r.op /\ q.on = r.on /\ q.arg = r.arg /\ q.needs = r.needs
               /\ q.stage = r.stage /\ q.row = r.row /\ q.chain = r.chain /\ q.got = r.got
               /\ q.overlap = IF r.overlap = 2 THEN 2 ELSE r.overlap + 1
               /\ \A i \in 1 .. Len(r.needs) :
                     LET a == Access(u, r.needs[i].on)'
                     IN  q.held[i] >= a /\ q.held[i] >= r.held[i] /\ q.held[i] \in {a, r.held[i]}
<1>1. /\ r.needs \in Seq(Need) /\ r.held \in Seq(0 .. 3) /\ Len(r.needs) \in Nat
      /\ DOMAIN r.needs = 1 .. Len(r.needs) /\ r.overlap \in 0 .. 2
    BY LenProperties DEF Request
<1>2. \A i \in 1 .. Len(r.needs) : r.held[i] \in 0 .. 3
    BY <1>1, ElementOfSeq
<1> DEFINE over == IF r.overlap = 2 THEN 2 ELSE r.overlap + 1
           held == [i \in DOMAIN r.needs |->
                        Best({r.held[i]} \cup {Access(u, x)' : x \in {r.needs[i].on}})]
           q == [r EXCEPT !.overlap = over, !.held = held]
<1>3. \A i \in 1 .. Len(r.needs) :
         /\ held[i] \in 0 .. 3
         /\ held[i] >= Access(u, r.needs[i].on)' /\ held[i] >= r.held[i]
         /\ held[i] \in {Access(u, r.needs[i].on)', r.held[i]}
    <2> TAKE i \in 1 .. Len(r.needs)
    <2>1. Access(u, r.needs[i].on)' \in 0 .. 3
        BY AccessTypedNext DEF AccessTyped
    <2>2. {Access(u, x)' : x \in {r.needs[i].on}} = {Access(u, r.needs[i].on)'}
        OBVIOUS
    <2> DEFINE a == r.held[i]
               b == Access(u, r.needs[i].on)'
    <2>3. held[i] = Best({a} \cup {b})
        BY <1>1, <2>2
    <2>4. a \in 0 .. 3 /\ b \in 0 .. 3
        BY <1>2, <2>1
    <2> HIDE DEF held, a, b
    <2>5. held[i] \in 0 .. 3 /\ a <= held[i] /\ b <= held[i] /\ held[i] \in {a, b}
        BY <2>3, <2>4, BestOfTwo, Zenon
    <2>6. held[i] >= b /\ held[i] >= a
        BY <2>4, <2>5
    <2> QED BY <2>5, <2>6 DEF a, b
<1>4. held \in Seq(0 .. 3) /\ Len(held) = Len(r.needs)
    <2>1. held \in [1 .. Len(r.needs) -> 0 .. 3]
        BY <1>1, <1>3
    <2> QED BY <1>1, <2>1
<1>5. over \in 0 .. 2
    BY <1>1
<1>6. r # None
    OBVIOUS
<1>7. Watched(r, u) = q
    BY <1>6 DEF Watched
<1> HIDE DEF held, over
<1>8. q \in Request
    BY <1>4, <1>5 DEF Request
<1>9. /\ q.op = r.op /\ q.on = r.on /\ q.arg = r.arg /\ q.needs = r.needs
      /\ q.stage = r.stage /\ q.row = r.row /\ q.chain = r.chain /\ q.got = r.got
      /\ q.overlap = over /\ q.held = held
    BY DEF Request
<1> HIDE DEF q
<1> QED BY <1>3, <1>4, <1>7, <1>8, <1>9 DEF over

\* A request in its fields.
LEMMA RequestIs ==
    ASSUME NEW r \in Request
    PROVE  /\ r.op \in AllOps /\ r.on \in Item \cup {None} /\ r.arg \in Arg
           /\ r.needs \in Seq(Need) /\ Len(r.needs) \in Nat
           /\ r.stage \in {"note", "chain", "grants", "tree", "write"}
           /\ r.row \in Folder \cup {None} /\ r.chain \subseteq Folder
           /\ r.got \in Seq(0 .. 3) /\ Len(r.got) \in Nat
           /\ r.held \in Seq(0 .. 3) /\ Len(r.held) \in Nat /\ r.overlap \in 0 .. 2
           /\ \A i \in 1 .. Len(r.needs) : r.needs[i] \in Need
           /\ \A i \in 1 .. Len(r.got) : r.got[i] \in 0 .. 3
           /\ \A i \in 1 .. Len(r.held) : r.held[i] \in 0 .. 3
<1>1. /\ r.op \in AllOps /\ r.on \in Item \cup {None} /\ r.arg \in Arg
      /\ r.needs \in Seq(Need) /\ r.row \in Folder \cup {None} /\ r.chain \subseteq Folder
      /\ r.stage \in {"note", "chain", "grants", "tree", "write"}
      /\ r.got \in Seq(0 .. 3) /\ r.held \in Seq(0 .. 3) /\ r.overlap \in 0 .. 2
    BY DEF Request, Arg
<1> QED BY <1>1, LenProperties, ElementOfSeq

LEMMA Now ==
    ASSUME BasisInv, NEW u \in User, req[u] # None
    PROVE  req[u] \in Request /\ Good(u, req[u]) /\ Fine(u, req[u])
BY DEF BasisInv, TypeOK, Inv

LEMMA SameGood ==
    ASSUME UNCHANGED db
    PROVE  \A u, r : Good(u, r)' <=> Good(u, r)
BY DEF db, Good, Based, RowLevel, Access, NoteAccess, FolderAccess, OwnsOneOf, Granted, ActiveShares, FolderChain

LEMMA OneGood ==
    ASSUME BasisInv, Inv', UNCHANGED <<db, lost>>, made' \in 0 .. MaxRequests,
           tokens' \subseteq Token, conns' \subseteq Conn,
           NEW u \in User, NEW r, req' = [req EXCEPT ![u] = r], r # None => r \in Request /\ Good(u, r)
    PROVE  BasisInv'
<1>1. TypeOK'
    BY DEF BasisInv, TypeOK, db
<1>2. ASSUME NEW v \in User, req'[v] # None PROVE Good(v, req[v])'
    <2>1. req'[v] = IF v = u THEN r ELSE req[v]
        BY DEF BasisInv, TypeOK
    <2>2. Good(v, req'[v])
        BY <1>2, <2>1 DEF BasisInv
    <2> QED BY <2>2, SameGood
<1> QED BY <1>1, <1>2 DEF BasisInv

LEMMA SettleGood ==
    ASSUME BasisInv, Inv', NEW u \in User, req[u] # None, req[u].stage \in {"note", "chain", "grants"},
           NEW level \in 0 .. 3, Settle(u, level),
           req[u].overlap < 2 => level <= req[u].held[Len(req[u].got) + 1]
    PROVE  BasisInv'
<1> DEFINE r == req[u]
           got == Append(r.got, level)
           next == IF Len(got) < Len(r.needs) THEN IF r.needs[Len(got) + 1].on \in Note THEN "note" ELSE "chain"
                   ELSE IF r.op = "move" /\ r.arg # None THEN "tree" ELSE "write"
           q == [r EXCEPT !.got = got, !.row = None, !.chain = {}, !.stage = next]
<1>1. /\ UNCHANGED <<db, lost>> /\ made' \in 0 .. MaxRequests
      /\ tokens' \subseteq Token /\ conns' \subseteq Conn
    BY DEF Settle, sessions, BasisInv, TypeOK
<1>2. CASE ~Suffices(u, r, level)
    BY <1>1, <1>2, OneGood DEF Settle
<1>3. CASE Suffices(u, r, level)
    <2>1. req' = [req EXCEPT ![u] = q]
        BY <1>3 DEF Settle
    <2>2. r \in Request /\ Good(u, r) /\ Fine(u, r)
        BY Now
    <2>3. /\ r.got \in Seq(0 .. 3) /\ Len(r.got) \in Nat /\ Len(r.needs) \in Nat
          /\ Len(r.got) < Len(r.needs)
        BY <2>2, RequestIs DEF Fine, Progress
    <2>4. /\ got \in Seq(0 .. 3) /\ Len(got) = Len(r.got) + 1
          /\ \A i \in 1 .. Len(r.got) : got[i] = r.got[i]
          /\ got[Len(r.got) + 1] = level
        BY <2>3, AppendProperties
    <2>5. /\ next \in {"note", "chain", "tree", "write"}
          /\ next = "chain" => r.needs[Len(got) + 1].on \notin Note
        OBVIOUS
    <2> HIDE DEF got, next
    <2>6. q \in Request
        BY <2>2, <2>4, <2>5 DEF Request
    <2>7. /\ q.needs = r.needs /\ q.stage = next /\ q.got = got /\ q.held = r.held /\ q.overlap = r.overlap
        BY <2>2 DEF Request
    <2> HIDE DEF q
    <2>8. Current(q) = r.needs[Len(got) + 1]
        BY <2>7 DEF Current
    <2>9. ASSUME r.overlap < 2 PROVE Based(u, q)
        <3>1. \A i \in 1 .. Len(r.got) + 1 : i = Len(r.got) + 1 \/ i \in 1 .. Len(r.got)
            BY <2>3
        <3>2. \A i \in 1 .. Len(q.got) : q.got[i] <= q.held[i]
            BY <2>2, <2>4, <2>7, <2>9, <3>1 DEF Good, Based
        <3> QED BY <2>5, <2>7, <2>8, <3>2 DEF Based
    <2>10. Good(u, q)
        BY <2>2, <2>7, <2>9 DEF Good
    <2> QED BY <1>1, <2>1, <2>6, <2>10, OneGood
<1> QED BY <1>2, <1>3

-----------------------------------------------------------------------------
(* Queries and beginnings keep it. *)

\* A query of r moves it on; nothing else happens.
LEMMA ReadGood ==
    ASSUME BasisInv, Inv', UNCHANGED <<db, made, sessions, lost>>, NEW u \in User, req[u] # None,
           NEW q \in Request, req' = [req EXCEPT ![u] = q],
           q.needs = req[u].needs, q.got = req[u].got, q.held = req[u].held, q.overlap = req[u].overlap,
           LET x == Current(req[u]).on
               n == Len(req[u].got) + 1
           IN  q.overlap < 2 =>
                  /\ q.stage = "chain" /\ x \in Note => RowLevel(u, x, q.row) <= q.held[n]
                  /\ q.stage = "grants" => Granted(u, q.chain \cup (Note \cap {x})) <= q.held[n]
    PROVE  BasisInv'
<1>1. req[u] \in Request /\ Good(u, req[u])
    BY Now
<1>2. Current(q) = Current(req[u])
    BY DEF Current
<1>3. q.overlap < 2 => Based(u, q)
    BY <1>1, <1>2 DEF Good, Based
<1>4. Good(u, q)
    BY <1>1, <1>3 DEF Good
<1>5. made' \in 0 .. MaxRequests /\ tokens' \subseteq Token /\ conns' \subseteq Conn
    BY DEF sessions, BasisInv, TypeOK
<1> QED BY <1>4, <1>5, OneGood

\* The next need is an item, and the right held on it at least the one now.
LEMMA CurrentHeld ==
    ASSUME BasisInv, NEW u \in User, req[u] # None, req[u].stage \in {"note", "chain", "grants"}
    PROVE  LET r == req[u]
               x == Current(r).on
           IN  /\ Access(u, x) <= r.held[Len(r.got) + 1]
               /\ (x \in Note /\ x \notin Folder) \/ (x \in Folder /\ x \notin Note)
               /\ r.held[Len(r.got) + 1] \in 0 .. 3 /\ Access(u, x) \in 0 .. 3
<1> DEFINE r == req[u]
           n == Len(r.got) + 1
<1>1. r \in Request /\ Good(u, r) /\ Fine(u, r)
    BY Now
<1>2. n \in 1 .. Len(r.needs) /\ Len(r.held) = Len(r.needs) /\ Current(r) = r.needs[n]
    BY <1>1, RequestIs DEF Fine, Progress, Good, Current
<1>3. r.held[n] >= Access(u, r.needs[n].on) /\ r.held[n] \in 0 .. 3
    BY <1>1, <1>2, RequestIs DEF Good
<1>4. Access(u, r.needs[n].on) \in 0 .. 3
    BY AccessRange DEF BasisInv, Inv
<1>5. r.needs[n].on \in Item
    BY <1>1, <1>2, RequestIs DEF Need
<1> HIDE DEF n
<1> QED BY <1>2, <1>3, <1>4, <1>5, ItemAssumption DEF Item, n

LEMMA ReadNoteGood == ASSUME BasisInv, NEW u \in User, ReadNote(u) PROVE BasisInv'
<1> DEFINE r == req[u]
           x == Current(r).on
           q == [r EXCEPT !.row = note[x].folder, !.stage = "chain"]
<1>1. r # None /\ r.stage = "note" /\ r \in Request /\ Good(u, r) /\ Fine(u, r) /\ x \in Note
    BY Now DEF ReadNote, At, Fine, Progress
<1>2. Inv'
    BY ReadNoteStep DEF BasisInv
<1>3. Access(u, x) <= r.held[Len(r.got) + 1] /\ r.held[Len(r.got) + 1] \in 0 .. 3
    BY <1>1, CurrentHeld
<1>4. CASE note[x] = None
    <2>1. Settle(u, 0)
        BY <1>4 DEF ReadNote
    <2> QED BY <1>1, <1>2, <1>3, <2>1, SettleGood
<1>5. CASE note[x] # None /\ note[x].author = u
    <2>1. Settle(u, OWNER)
        BY <1>5 DEF ReadNote
    <2>2. Access(u, x) = OWNER
        BY <1>1, <1>5 DEF Access, NoteAccess
    <2> QED BY <1>1, <1>2, <1>3, <2>1, <2>2, SettleGood DEF OWNER
<1>6. CASE Foreign(u, x)
    <2>1. /\ UNCHANGED <<db, made, sessions, lost>>
          /\ req' = [req EXCEPT ![u].row = note[x].folder, ![u].stage = "chain"]
        BY <1>6 DEF ReadNote, Foreign
    <2>2. req' = [req EXCEPT ![u] = q]
        BY <2>1 DEF BasisInv, TypeOK
    <2>3. note[x].folder \in Folder \cup {None}
        <3>1. note[x] \in NoteRow
            BY <1>1, <1>6 DEF BasisInv, TypeOK, Consistent, Foreign
        <3> QED BY <3>1 DEF NoteRow
    <2>4. RowLevel(u, x, note[x].folder) = Access(u, x)
        BY <1>1, <1>6 DEF RowLevel, Access, NoteAccess, Foreign
    <2> HIDE DEF x
    <2>5. q \in Request
        BY <1>1, <2>3 DEF Request
    <2>6. /\ q.needs = r.needs /\ q.stage = "chain" /\ q.got = r.got /\ q.held = r.held
          /\ q.overlap = r.overlap /\ q.row = note[x].folder
        BY <1>1 DEF Request
    <2> HIDE DEF q
    <2>7. RowLevel(u, x, q.row) <= q.held[Len(r.got) + 1]
        BY <1>3, <2>4, <2>6
    <2> QED BY <1>1, <1>2, <2>1, <2>2, <2>5, <2>6, <2>7, ReadGood DEF x
<1> QED BY <1>4, <1>5, <1>6 DEF Foreign

LEMMA ReadChainGood == ASSUME BasisInv, NEW u \in User, ReadChain(u) PROVE BasisInv'
<1> DEFINE r == req[u]
           x == Current(r).on
           n == Len(r.got) + 1
           f == IF x \in Folder THEN x ELSE r.row
           chain == FolderChain(f)
           q == [r EXCEPT !.chain = chain, !.stage = "grants"]
<1>1. r # None /\ r.stage = "chain" /\ r \in Request /\ Good(u, r) /\ Fine(u, r)
    BY Now DEF ReadChain, At
<1>2. Inv'
    BY ReadChainStep DEF BasisInv
<1>3. /\ Access(u, x) <= r.held[n] /\ r.held[n] \in 0 .. 3
      /\ (x \in Note /\ x \notin Folder) \/ (x \in Folder /\ x \notin Note)
    BY <1>1, CurrentHeld
<1>4. ASSUME r.overlap < 2
      PROVE  /\ OwnsOneOf(u, chain) => OWNER <= r.held[n]
             /\ ~OwnsOneOf(u, chain) => Granted(u, chain \cup (Note \cap {x})) <= r.held[n]
    <2>1. CASE x \in Note
        <3>1. RowLevel(u, x, r.row) <= r.held[n] /\ f = r.row
            BY <1>1, <1>3, <1>4, <2>1 DEF Good, Based
        <3>2. chain \cup (Note \cap {x}) = {x} \cup chain
            BY <2>1
        <3> QED BY <3>1, <3>2 DEF RowLevel
    <2>2. CASE x \in Folder
        <3>1. FolderAccess(u, x) <= r.held[n] /\ f = x
            BY <1>3, <2>2 DEF Access
        <3>2. chain \cup (Note \cap {x}) = chain
            BY <1>3, <2>2
        <3> QED BY <3>1, <3>2 DEF FolderAccess
    <2> QED BY <1>3, <2>1, <2>2
<1>5. CASE OwnsOneOf(u, chain)
    <2>1. Settle(u, OWNER)
        BY <1>5 DEF ReadChain
    <2> QED BY <1>1, <1>2, <1>4, <1>5, <2>1, SettleGood DEF OWNER
<1>6. CASE ~OwnsOneOf(u, chain) /\ x \in Folder /\ chain = {}
    <2>1. Settle(u, 0)
        BY <1>6 DEF ReadChain
    <2> QED BY <1>1, <1>2, <1>3, <2>1, SettleGood
<1>7. CASE ~OwnsOneOf(u, chain) /\ ~(x \in Folder /\ chain = {})
    <2>1. /\ UNCHANGED <<db, made, sessions, lost>>
          /\ req' = [req EXCEPT ![u].chain = chain, ![u].stage = "grants"]
        BY <1>7 DEF ReadChain
    <2>2. req' = [req EXCEPT ![u] = q]
        BY <2>1 DEF BasisInv, TypeOK
    <2>3. chain \subseteq Folder
        BY ChainsStand, Rows DEF BasisInv
    <2> HIDE DEF chain, x
    <2>5. q \in Request
        BY <1>1, <2>3 DEF Request
    <2>6. /\ q.needs = r.needs /\ q.stage = "grants" /\ q.got = r.got /\ q.held = r.held
          /\ q.overlap = r.overlap /\ q.chain = chain
        BY <1>1 DEF Request
    <2> HIDE DEF q
    <2>7. q.overlap < 2 => Granted(u, q.chain \cup (Note \cap {x})) <= q.held[n]
        BY <1>4, <1>7, <2>6
    <2> QED BY <1>1, <1>2, <2>1, <2>2, <2>5, <2>6, <2>7, ReadGood DEF x
<1> QED BY <1>5, <1>6, <1>7

LEMMA ReadGrantsGood == ASSUME BasisInv, NEW u \in User, ReadGrants(u) PROVE BasisInv'
<1> DEFINE r == req[u]
           level == Granted(u, r.chain \cup (Note \cap {Current(r).on}))
<1>1. r # None /\ r.stage = "grants" /\ Good(u, r) /\ Settle(u, level)
    BY Now DEF ReadGrants, At
<1>2. Inv'
    BY ReadGrantsStep DEF BasisInv
<1>3. level \in 0 .. 3
    BY GrantedRange DEF BasisInv, Inv
<1>4. r.overlap < 2 => level <= r.held[Len(r.got) + 1]
    BY <1>1 DEF Good, Based
<1> HIDE DEF level
<1> QED BY <1>1, <1>2, <1>3, <1>4, SettleGood

LEMMA ReadTreeGood == ASSUME BasisInv, NEW u \in User, ReadTree(u) PROVE BasisInv'
<1> DEFINE r == req[u]
           q == [r EXCEPT !.stage = "write"]
<1>1. r # None /\ r \in Request /\ UNCHANGED <<db, made, sessions, lost>>
    BY Now DEF ReadTree, At
<1>2. Inv'
    BY ReadTreeStep DEF BasisInv
<1>3. CASE req' = [req EXCEPT ![u] = None]
    <2>1. made' \in 0 .. MaxRequests /\ tokens' \subseteq Token /\ conns' \subseteq Conn
        BY <1>1 DEF sessions, BasisInv, TypeOK
    <2> QED BY <1>1, <1>2, <1>3, <2>1, OneGood
<1>4. CASE req' = [req EXCEPT ![u] = q]
    <2>1. q \in Request
        BY <1>1 DEF Request
    <2>2. /\ q.needs = r.needs /\ q.stage = "write" /\ q.got = r.got /\ q.held = r.held
          /\ q.overlap = r.overlap
        BY <1>1 DEF Request
    <2> HIDE DEF q
    <2> QED BY <1>1, <1>2, <1>4, <2>1, <2>2, ReadGood
<1> QED BY <1>3, <1>4 DEF ReadTree

LEMMA SendGood == ASSUME BasisInv, NEW u \in User, Send(u) PROVE BasisInv'
<1>1. PICK r \in Requests(u) :
        req' = [req EXCEPT ![u] = [r EXCEPT !.held = [i \in DOMAIN r.needs |-> Access(u, r.needs[i].on)]]]
    BY DEF Send
<1> DEFINE held == [i \in DOMAIN r.needs |-> Access(u, r.needs[i].on)]
           q == [r EXCEPT !.held = held]
<1>2. /\ r \in Request /\ r.stage \in {"note", "chain", "write"} /\ r.got = <<>>
      /\ r.stage = "chain" => Current(r).on \notin Note
    BY RequestsAsk DEF BasisInv
<1>3. r.needs \in Seq(Need) /\ Len(r.needs) \in Nat /\ DOMAIN r.needs = 1 .. Len(r.needs)
    BY <1>2, RequestIs, LenProperties
<1>4. held \in [1 .. Len(r.needs) -> 0 .. 3]
    BY <1>3, AccessRange DEF BasisInv, Inv
<1>5. \A i \in 1 .. Len(r.needs) : held[i] = Access(u, r.needs[i].on) /\ held[i] \in 0 .. 3
    BY <1>3, <1>4
<1> HIDE DEF held
<1>6. held \in Seq(0 .. 3) /\ Len(held) = Len(r.needs)
    BY <1>3, <1>4
<1>7. q \in Request
    BY <1>2, <1>6 DEF Request
<1>8. q.needs = r.needs /\ q.stage = r.stage /\ q.got = <<>> /\ q.held = held
    BY <1>2 DEF Request
<1> HIDE DEF q
<1>9. Current(q) = Current(r)
    BY <1>2, <1>8 DEF Current
<1>10. Based(u, q)
    BY <1>2, <1>8, <1>9 DEF Based
<1>11. Good(u, q)
    BY <1>5, <1>6, <1>8, <1>10 DEF Good
<1>12. /\ UNCHANGED <<db, lost>> /\ made' \in 0 .. MaxRequests
       /\ tokens' \subseteq Token /\ conns' \subseteq Conn
    BY BoundAssumption DEF Send, sessions, BasisInv, TypeOK
<1>13. Inv'
    BY SendStep DEF BasisInv
<1> QED BY <1>1, <1>7, <1>11, <1>12, <1>13, OneGood DEF q, held

LEMMA AnswerGood == ASSUME BasisInv, NEW u \in User, Answer(u) \/ Throw(u) PROVE BasisInv'
<1>1. /\ UNCHANGED <<db, lost>> /\ made' \in 0 .. MaxRequests
      /\ tokens' \subseteq Token /\ conns' \subseteq Conn /\ req' = [req EXCEPT ![u] = None]
    BY DEF Answer, Throw, sessions, BasisInv, TypeOK
<1>2. Inv'
    BY <1>1, OneRequest DEF BasisInv
<1> QED BY <1>1, <1>2, OneGood

LEMMA IssueGood == ASSUME BasisInv, NEW u \in User, IssueToken(u) PROVE BasisInv'
<1> DEFINE t == [user |-> u, note |-> req[u].on, write |-> req[u].got[1] >= EDIT,
                 exp |-> clock + TTL, sure |-> req[u].overlap < 2]
<1>1. req[u] # None /\ req[u].op = "token" /\ tokens' = tokens \cup {t}
    BY DEF IssueToken, Ready, At
<1>2. req[u].on \in Note
    BY <1>1, Now DEF Fine, Asks
<1>3. clock + TTL \in Nat
    BY BoundAssumption DEF BasisInv, TypeOK
<1>4. t \in Token
    BY <1>2, <1>3 DEF Token
<1>5. /\ UNCHANGED <<db, lost>> /\ made' \in 0 .. MaxRequests
      /\ tokens' \subseteq Token /\ conns' \subseteq Conn /\ req' = [req EXCEPT ![u] = None]
    BY <1>1, <1>4 DEF IssueToken, BasisInv, TypeOK
<1>6. Inv'
    BY <1>5, OneRequest DEF BasisInv
<1> QED BY <1>5, <1>6, OneGood

LEMMA ConnsGood == ASSUME BasisInv, NEW c, (c \in tokens /\ Connect(c)) \/ Disconnect(c) PROVE BasisInv'
<1>1. conns' \subseteq Conn
    <2>1. CASE c \in tokens /\ Connect(c)
        <3>1. c \in Token /\ clock \in Nat
            BY <2>1, BoundAssumption DEF BasisInv, TypeOK
        <3>2. [user |-> c.user, note |-> c.note, write |-> c.write, opened |-> clock, sure |-> c.sure] \in Conn
            BY <3>1 DEF Token, Conn
        <3> QED BY <2>1, <3>2 DEF Connect, BasisInv, TypeOK
    <2> QED BY <2>1 DEF Disconnect, BasisInv, TypeOK
<1>2. UNCHANGED <<db, req, made, tokens, lost>>
    BY DEF Connect, Disconnect
<1>3. Inv'
    BY <1>2, SameDb DEF BasisInv, Inv, Fine
<1>4. TypeOK'
    BY <1>1, <1>2 DEF BasisInv, TypeOK, db
<1> QED BY <1>2, <1>3, <1>4, SameGood DEF BasisInv

-----------------------------------------------------------------------------
(* One change: what is gone, and whose folder it moves. *)

BestGrants ==
    \A u, items :
        /\ \A s \in ActiveShares(u, items) : s.access <= Granted(u, items)
        /\ Granted(u, items) = 0 \/ \E s \in ActiveShares(u, items) : s.access = Granted(u, items)
        /\ Granted(u, items) \in 0 .. 2

LEMMA BestGrantsNow == SharesOK => BestGrants
BY GrantedIsBest, GrantedRange DEF BestGrants

LEMMA BestGrantsNext == SharesOK' => BestGrants'
BY BestGrantsNow, PTL

\* Fewer shares, no more rights.
LEMMA GrantsShrink ==
    ASSUME SharesOK, SharesOK', shares' \subseteq shares, clock' = clock, NEW u, NEW items
    PROVE  Granted(u, items)' <= Granted(u, items)
<1>1. BestGrants /\ BestGrants'
    BY BestGrantsNow, BestGrantsNext
<1>2. ActiveShares(u, items)' \subseteq ActiveShares(u, items)
    BY DEF ActiveShares
<1>3. Granted(u, items) \in 0 .. 2 /\ \A s \in ActiveShares(u, items) : s.access <= Granted(u, items)
    BY <1>1 DEF BestGrants
<1>4. \/ Granted(u, items)' = 0
      \/ \E s \in ActiveShares(u, items)' : s.access = Granted(u, items)'
    BY <1>1 DEF BestGrants
<1> QED BY <1>2, <1>3, <1>4

\* What a change may do to the rows: with the folders as they were, it takes
\* shares away at most; or it leaves folders and notes; or it leaves notes and
\* shares; or it takes a folder away and its notes out of it.
Change(gone) ==
    \/ UNCHANGED <<folder, clock>> /\ shares' \subseteq shares
    \/ UNCHANGED <<folder, note>>
    \/ UNCHANGED <<note, shares, clock>>
    \/ /\ folder'[gone] = None /\ shares' \subseteq shares /\ clock' = clock
       /\ \A n \in Note : n \in Notes =>
             IF note[n].folder = gone THEN note'[n].folder = None /\ note'[n].author = note[n].author /\ note'[n] # None
             ELSE note'[n] = note[n]

LEMMA ChainsStandNext == (TypeOK => \A f : f \notin Folders => FolderChain(f) = {})'
<1> DEFINE P == TypeOK => \A f : f \notin Folders => FolderChain(f) = {}
<1>1. P
    BY ChainsStand
<1> QED BY <1>1, PTL

LEMMA ChangeBased ==
    ASSUME TypeOK, TypeOK', NEW gone, Change(gone), NEW u \in User,
           NEW r \in Request, Good(u, r), Fine(u, r), r.overlap = 0,
           NEW q \in Request, q.needs = r.needs, q.stage = r.stage, q.row = r.row, q.chain = r.chain,
           q.got = r.got,
           \A i \in 1 .. Len(r.needs) : q.held[i] >= Access(u, r.needs[i].on)' /\ q.held[i] >= r.held[i],
           Len(q.held) = Len(r.needs)
    PROVE  Based(u, q)'
<1> DEFINE x == Current(r).on
           n == Len(r.got) + 1
<1>1. /\ Len(r.got) \in Nat /\ Len(r.needs) \in Nat /\ Len(r.held) = Len(r.needs)
      /\ \A i \in 1 .. Len(r.got) : r.got[i] \in 0 .. 3
      /\ \A i \in 1 .. Len(r.needs) : r.held[i] \in 0 .. 3 /\ q.held[i] \in 0 .. 3 /\ r.needs[i] \in Need
      /\ r.stage \in {"note", "chain", "grants", "tree", "write"}
    BY RequestIs DEF Good
<1>2. Progress(r) /\ Read(u, r)
    BY DEF Fine
<1>3. Len(r.got) <= Len(r.needs)
    BY <1>1, <1>2 DEF Progress
<1>4. \A i \in 1 .. Len(r.got) : r.got[i] <= q.held[i]
    <2> TAKE i \in 1 .. Len(r.got)
    <2>1. i \in 1 .. Len(r.needs) /\ r.got[i] <= r.held[i]
        BY <1>1, <1>3 DEF Good, Based
    <2>2. r.held[i] <= q.held[i]
        BY <2>1
    <2>3. r.got[i] \in 0 .. 3 /\ r.held[i] \in 0 .. 3 /\ q.held[i] \in 0 .. 3
        BY <1>1, <2>1
    <2> QED BY <2>1, <2>2, <2>3
<1>5. /\ Current(q) = Current(r)
      /\ SharesOK /\ SharesOK'
    BY Rows DEF Current, TypeOK, Consistent, SharesOK, Share
<1>6. ASSUME r.stage \in {"chain", "grants"}
      PROVE  /\ n \in 1 .. Len(r.needs) /\ Current(r) = r.needs[n]
             /\ (x \in Note /\ x \notin Folder) \/ (x \in Folder /\ x \notin Note)
             /\ Access(u, x)' <= q.held[n] /\ Access(u, x) <= q.held[n] /\ q.held[n] \in 0 .. 3
             /\ Access(u, x)' \in 0 .. 3 /\ Access(u, x) \in 0 .. 3
    <2>1. n \in 1 .. Len(r.needs) /\ Current(r) = r.needs[n]
        BY <1>1, <1>2, <1>6 DEF Progress, Current
    <2>2. x \in Item
        BY <1>1, <2>1 DEF Need
    <2>3. Access(u, x)' \in 0 .. 3 /\ Access(u, x) \in 0 .. 3
        BY <1>5, AccessTypedNow, AccessTypedNext DEF AccessTyped
    <2>4. q.held[n] >= Access(u, r.needs[n].on)' /\ q.held[n] >= r.held[n]
          /\ r.held[n] >= Access(u, r.needs[n].on) /\ q.held[n] \in 0 .. 3 /\ r.held[n] \in 0 .. 3
        BY <1>1, <2>1 DEF Good
    <2> HIDE DEF n
    <2> QED BY <2>1, <2>2, <2>3, <2>4, ItemAssumption DEF Item
<1>7. ASSUME r.stage = "chain", x \in Note PROVE RowLevel(u, x, r.row)' <= q.held[n]
    <2>1. Foreign(u, x) /\ r.row = note[x].folder
        BY <1>2, <1>7 DEF Read
    <2>2. RowLevel(u, x, r.row) = Access(u, x)
        BY <1>7, <2>1 DEF RowLevel, Access, NoteAccess, Foreign
    <2>3. CASE UNCHANGED <<folder, clock>> /\ shares' \subseteq shares
        <3>1. /\ FolderChain(r.row)' = FolderChain(r.row)
              /\ OwnsOneOf(u, FolderChain(r.row))' <=> OwnsOneOf(u, FolderChain(r.row))
            BY <2>3 DEF FolderChain, OwnsOneOf
        <3>2. \A items : Granted(u, items)' <= Granted(u, items) /\ Granted(u, items)' \in 0 .. 2 /\ Granted(u, items) \in 0 .. 2
            BY <1>5, <2>3, GrantsShrink, BestGrantsNow, BestGrantsNext DEF BestGrants
        <3>3. RowLevel(u, x, r.row)' <= RowLevel(u, x, r.row) /\ RowLevel(u, x, r.row)' \in 0 .. 3
            BY <3>1, <3>2 DEF RowLevel, OWNER
        <3> QED BY <1>6, <1>7, <2>2, <3>3
    <2>4. CASE note'[x] = note[x]
        <3>1. RowLevel(u, x, r.row)' = Access(u, x)'
            BY <1>7, <2>1, <2>4 DEF RowLevel, Access, NoteAccess, Foreign
        <3> QED BY <1>6, <1>7, <3>1
    <2>5. CASE /\ folder'[gone] = None /\ r.row = gone
               /\ note'[x].folder = None /\ note'[x].author = note[x].author /\ note'[x] # None
        <3>1. gone \notin Folders' /\ None \notin Folders'
            BY <2>5, NoneAssumption DEF Folders
        <3>2. FolderChain(gone)' = {} /\ FolderChain(None)' = {}
            BY <3>1, ChainsStandNext
        <3>3. RowLevel(u, x, r.row)' = Access(u, x)'
            BY <1>7, <2>1, <2>5, <3>2 DEF RowLevel, Access, NoteAccess, Foreign
        <3> QED BY <1>6, <1>7, <3>3
    <2>6. x \in Notes
        BY <1>7, <2>1 DEF Foreign, Notes
    <2> QED BY <1>7, <2>1, <2>3, <2>4, <2>5, <2>6 DEF Change
<1>8. ASSUME r.stage = "grants" PROVE Granted(u, r.chain \cup (Note \cap {x}))' <= q.held[n]
    <2> DEFINE items == r.chain \cup (Note \cap {x})
    <2>1. /\ ~OwnsOneOf(u, r.chain)
          /\ x \in Note => Foreign(u, x) /\ r.chain = FolderChain(note[x].folder)
          /\ x \in Folder => r.chain = FolderChain(x)
        BY <1>2, <1>8 DEF Read
    <2>2. (x \in Note => items = {x} \cup r.chain) /\ (x \notin Note => items = r.chain)
        OBVIOUS
    <2>3. Granted(u, items) = Access(u, x)
        BY <1>6, <1>8, <2>1, <2>2 DEF Access, NoteAccess, FolderAccess, Foreign
    <2>4. Granted(u, items)' \in 0 .. 2 /\ Granted(u, items) \in 0 .. 2
        BY <1>5, BestGrantsNow, BestGrantsNext DEF BestGrants
    <2>5. CASE shares' \subseteq shares /\ clock' = clock
        <3>1. Granted(u, items)' <= Granted(u, items)
            BY <1>5, <2>5, GrantsShrink
        <3> QED BY <1>6, <1>8, <2>3, <2>4, <3>1
    <2>6. CASE UNCHANGED <<folder, note>>
        <3>1. \A f : FolderChain(f)' = FolderChain(f)
            BY <2>6 DEF FolderChain
        <3>2. OwnsOneOf(u, r.chain)' <=> OwnsOneOf(u, r.chain)
            BY <2>6 DEF OwnsOneOf
        <3>3. Granted(u, items)' = Access(u, x)'
            BY <1>6, <1>8, <2>1, <2>2, <2>6, <3>1, <3>2 DEF Access, NoteAccess, FolderAccess, Foreign
        <3> QED BY <1>6, <1>8, <3>3
    <2> QED BY <2>5, <2>6 DEF Change
<1> HIDE DEF n
<1> QED BY <1>4, <1>5, <1>7, <1>8 DEF Based, n

-----------------------------------------------------------------------------
(* Each write as one change, and the keys it leaves. *)

Keys == Consistent(folder, note, shares)

\* Keys in terms of what is there.
LEMMA KeysAre ==
    Keys <=> /\ folder \in [Folder -> FolderRow \cup {None}]
             /\ note \in [Note -> NoteRow \cup {None}]
             /\ shares \subseteq Share
             /\ \A s, t \in shares : s.on = t.on /\ s.to = t.to => s = t
             /\ \A f \in Folders : folder[f].parent \in Folders \cup {None}
             /\ \A n \in Notes : note[n].folder \in Folders \cup {None}
             /\ \A s \in shares : s.on \in Folders \cup Notes
<1>1. Folders \subseteq Folder /\ Notes \subseteq Note /\ Note \cap Folder = {} /\ None \notin Note \cup Folder
    BY ItemAssumption, NoneAssumption DEF Folders, Notes
<1>2. ASSUME folder \in [Folder -> FolderRow \cup {None}], note \in [Note -> NoteRow \cup {None}]
      PROVE  /\ \A f \in Folders : folder[f].parent \in Folder \cup {None}
             /\ \A n \in Notes : note[n].folder \in Folder \cup {None}
    BY <1>2 DEF FolderRow, NoteRow, Folders, Notes
<1>3. {f \in Folder : folder[f] # None} \cup {n \in Note : note[n] # None} = Folders \cup Notes
    BY DEF Folders, Notes
<1>4. Folder \cap (Folders \cup Notes) = Folders /\ Note \cap (Folders \cup Notes) = Notes
    BY <1>1
<1>5. (Folder \cup {None}) \cap (Folders \cup Notes \cup {None}) = Folders \cup {None}
    BY <1>1
<1> QED BY <1>1, <1>2, <1>3, <1>4, <1>5 DEF Keys, Consistent

LEMMA KeysAreNext ==
    Keys' <=> /\ folder' \in [Folder -> FolderRow \cup {None}]
              /\ note' \in [Note -> NoteRow \cup {None}]
              /\ shares' \subseteq Share
              /\ \A s, t \in shares' : s.on = t.on /\ s.to = t.to => s = t
              /\ \A f \in Folders' : folder'[f].parent \in Folders' \cup {None}
              /\ \A n \in Notes' : note'[n].folder \in Folders' \cup {None}
              /\ \A s \in shares' : s.on \in Folders' \cup Notes'
<1> DEFINE P == /\ folder \in [Folder -> FolderRow \cup {None}]
                /\ note \in [Note -> NoteRow \cup {None}]
                /\ shares \subseteq Share
                /\ \A s, t \in shares : s.on = t.on /\ s.to = t.to => s = t
                /\ \A f \in Folders : folder[f].parent \in Folders \cup {None}
                /\ \A n \in Notes : note[n].folder \in Folders \cup {None}
                /\ \A s \in shares : s.on \in Folders \cup Notes
<1>1. Keys <=> P
    BY KeysAre
<1>2. Keys' <=> P'
    <2> HIDE DEF P
    <2> QED BY <1>1, PTL
<1> QED BY <1>2

\* Notes and folders that are changed are still there.
LEMMA StillThere ==
    /\ \A row \in NoteRow : row # None
    /\ \A row \in FolderRow : row # None
BY RowAssumption

LEMMA ArchiveChange ==
    ASSUME BasisInv, NEW u \in User, WriteArchive(u)
    PROVE  Keys' /\ Change(None)
<1> DEFINE n == req[u].on
           row == [note[n] EXCEPT !.archived = (req[u].op = "archive")]
<1>1. n \in Notes /\ note' = [note EXCEPT ![n] = row] /\ UNCHANGED <<folder, shares, clock>>
    BY DEF WriteArchive, Ready, CanWrite, Wrote, BasisInv, TypeOK, Consistent
<1>2. Keys
    BY DEF BasisInv, TypeOK, Keys
<1>3. note[n] \in NoteRow /\ n \in Note /\ note[n].folder \in Folders \cup {None}
    BY <1>1, <1>2, KeysAre DEF Notes
<1>4. row \in NoteRow /\ row.folder = note[n].folder
    BY <1>3 DEF NoteRow
<1> HIDE DEF row
<1>5. Notes' = Notes /\ Folders' = Folders
    BY <1>1, <1>2, <1>3, <1>4, StillThere, KeysAre DEF Notes, Folders
<1>6. Keys'
    BY <1>1, <1>2, <1>3, <1>4, <1>5, KeysAre, KeysAreNext
<1> QED BY <1>1, <1>6 DEF Change

LEMMA FileChange ==
    ASSUME BasisInv, NEW u \in User, WriteFile(u)
    PROVE  Keys' /\ Change(None)
<1> DEFINE n == req[u].on
           row == [note[n] EXCEPT !.folder = req[u].arg]
<1>1. /\ n \in Notes /\ req[u].arg \in Folders \cup {None}
      /\ note' = [note EXCEPT ![n] = row] /\ UNCHANGED <<folder, shares, clock>>
    BY DEF WriteFile, Ready, CanWrite, Wrote, BasisInv, TypeOK, Consistent
<1>2. Keys
    BY DEF BasisInv, TypeOK, Keys
<1>3. note[n] \in NoteRow /\ n \in Note /\ Folders \subseteq Folder
    BY <1>1, <1>2, KeysAre DEF Notes, Folders
<1>4. row \in NoteRow /\ row.folder = req[u].arg
    BY <1>1, <1>3 DEF NoteRow
<1> HIDE DEF row
<1>5. Notes' = Notes /\ Folders' = Folders
    BY <1>1, <1>2, <1>3, <1>4, StillThere, KeysAre DEF Notes, Folders
<1>6. Keys'
    BY <1>1, <1>2, <1>3, <1>4, <1>5, KeysAre, KeysAreNext
<1> QED BY <1>1, <1>6 DEF Change

LEMMA DestroyChange ==
    ASSUME BasisInv, NEW u \in User, WriteDestroy(u)
    PROVE  Keys' /\ Change(None)
<1> DEFINE n == req[u].on
<1>1. /\ n \in Notes /\ note' = [note EXCEPT ![n] = None] /\ shares' = {s \in shares : s.on # n}
      /\ UNCHANGED <<folder, clock>>
    BY DEF WriteDestroy, Ready, CanWrite, Wrote
<1>2. Keys
    BY DEF BasisInv, TypeOK, Keys
<1>3. Notes' = Notes \ {n} /\ Folders' = Folders /\ n \in Note
    BY <1>1, <1>2, KeysAre DEF Notes, Folders
<1>4. Keys'
    BY <1>1, <1>2, <1>3, KeysAre, KeysAreNext
<1> QED BY <1>1, <1>4 DEF Change

LEMMA CreateChange ==
    ASSUME BasisInv, NEW u \in User, WriteCreate(u)
    PROVE  Keys' /\ Change(None)
<1> DEFINE row == [author |-> u, folder |-> req[u].arg, archived |-> FALSE]
<1>1. /\ req[u].arg \in Folders \cup {None} /\ UNCHANGED <<folder, shares, clock>>
    BY DEF WriteCreate, Ready, CanWrite, Wrote
<1>2. PICK n \in Note \ Notes : note' = [note EXCEPT ![n] = row]
    BY DEF WriteCreate
<1>3. Keys
    BY DEF BasisInv, TypeOK, Keys
<1>4. row \in NoteRow /\ row.folder = req[u].arg
    BY <1>1 DEF NoteRow, Folders
<1> HIDE DEF row
<1>5. Notes' = Notes \cup {n} /\ Folders' = Folders
    BY <1>1, <1>2, <1>3, <1>4, StillThere, KeysAre DEF Notes, Folders
<1>6. Keys'
    BY <1>1, <1>2, <1>3, <1>4, <1>5, KeysAre, KeysAreNext
<1> QED BY <1>1, <1>6 DEF Change

LEMMA MkdirChange ==
    ASSUME BasisInv, NEW u \in User, WriteMkdir(u)
    PROVE  Keys' /\ Change(None)
<1> DEFINE row == [owner |-> u, parent |-> req[u].arg]
<1>1. /\ req[u].arg \in Folders \cup {None} /\ UNCHANGED <<note, shares, clock>>
    BY DEF WriteMkdir, Ready, CanWrite, Wrote
<1>2. PICK f \in Folder \ Folders : folder' = [folder EXCEPT ![f] = row]
    BY DEF WriteMkdir
<1>3. Keys
    BY DEF BasisInv, TypeOK, Keys
<1>4. row \in FolderRow /\ row.parent = req[u].arg
    BY <1>1 DEF FolderRow, Folders
<1> HIDE DEF row
<1>5. Notes' = Notes /\ Folders' = Folders \cup {f}
    BY <1>1, <1>2, <1>3, <1>4, StillThere, KeysAre DEF Notes, Folders
<1>6. Keys'
    BY <1>1, <1>2, <1>3, <1>4, <1>5, KeysAre, KeysAreNext
<1> QED BY <1>1, <1>6 DEF Change

LEMMA MoveChange ==
    ASSUME BasisInv, NEW u \in User, WriteMove(u)
    PROVE  Keys' /\ Change(None)
<1> DEFINE f == req[u].on
           row == [folder[f] EXCEPT !.parent = req[u].arg]
<1>1. /\ f \in Folders /\ req[u].arg \in Folders \cup {None}
      /\ folder' = [folder EXCEPT ![f] = row] /\ UNCHANGED <<note, shares, clock>>
    BY DEF WriteMove, Ready, CanWrite, Wrote, BasisInv, TypeOK, Consistent
<1>2. Keys
    BY DEF BasisInv, TypeOK, Keys
<1>3. folder[f] \in FolderRow /\ f \in Folder /\ Folders \subseteq Folder
    BY <1>1, <1>2, KeysAre DEF Folders
<1>4. row \in FolderRow /\ row.parent = req[u].arg
    BY <1>1, <1>3 DEF FolderRow
<1> HIDE DEF row
<1>5. Notes' = Notes /\ Folders' = Folders
    BY <1>1, <1>2, <1>3, <1>4, StillThere, KeysAre DEF Notes, Folders
<1>6. Keys'
    BY <1>1, <1>2, <1>3, <1>4, <1>5, KeysAre, KeysAreNext
<1> QED BY <1>1, <1>6 DEF Change

LEMMA RmdirChange ==
    ASSUME BasisInv, NEW u \in User, WriteRmdir(u)
    PROVE  Keys' /\ \E gone : Change(gone)
<1> DEFINE gone == req[u].on
<1>1. /\ gone \in Folders /\ clock' = clock /\ shares' = {s \in shares : s.on # gone}
      /\ note' = [n \in Note |-> IF n \in Notes /\ note[n].folder = gone
                                 THEN [note[n] EXCEPT !.folder = None] ELSE note[n]]
    BY DEF WriteRmdir, Ready, CanWrite, Wrote
<1>2. folder' = [f \in Folder |->
                    CASE f = gone -> None
                      [] f \in Folders \ {gone} /\ folder[f].parent = gone
                            -> [folder[f] EXCEPT !.parent = None]
                      [] OTHER -> folder[f]]
    BY DEF WriteRmdir
<1>3. Keys
    BY DEF BasisInv, TypeOK, Keys
<1> HIDE DEF gone
<1>4. /\ Folders \subseteq Folder /\ Notes \subseteq Note /\ gone \in Folder
      /\ \A f \in Folders : folder[f] \in FolderRow /\ folder[f].parent \in Folders \cup {None}
      /\ \A n \in Notes : note[n] \in NoteRow /\ note[n].folder \in Folders \cup {None}
    BY <1>1, <1>3, KeysAre DEF Folders, Notes
<1>5. /\ folder'[gone] = None
      /\ \A f \in Folder \ Folders : folder'[f] = None
      /\ \A f \in Folders : f # gone =>
            /\ folder'[f] \in FolderRow
            /\ folder'[f].parent = IF folder[f].parent = gone THEN None ELSE folder[f].parent
    <2>1. folder'[gone] = None
        BY <1>2, <1>4
    <2>2. ASSUME NEW f \in Folder \ Folders PROVE folder'[f] = None
        BY <1>1, <1>2 DEF Folders
    <2>3. ASSUME NEW f \in Folders, f # gone
          PROVE  /\ folder'[f] \in FolderRow
                 /\ folder'[f].parent = IF folder[f].parent = gone THEN None ELSE folder[f].parent
        <3>1. CASE folder[f].parent = gone
            <4>1. folder'[f] = [folder[f] EXCEPT !.parent = None]
                BY <1>2, <1>4, <2>3, <3>1
            <4> QED BY <1>4, <3>1, <4>1 DEF FolderRow
        <3>2. CASE folder[f].parent # gone
            <4>1. folder'[f] = folder[f]
                BY <1>2, <1>4, <2>3, <3>2
            <4> QED BY <1>4, <3>2, <4>1
        <3> QED BY <3>1, <3>2
    <2> QED BY <2>1, <2>2, <2>3
<1>6. /\ \A n \in Note \ Notes : note'[n] = None
      /\ \A n \in Notes :
            /\ note'[n] \in NoteRow /\ note'[n].author = note[n].author
            /\ note[n].folder = gone => note'[n].folder = None
            /\ note[n].folder # gone => note'[n] = note[n]
    <2>1. \A n \in Note \ Notes : note'[n] = None
        BY <1>1 DEF Notes
    <2>2. ASSUME NEW n \in Notes, note[n].folder = gone
          PROVE  note'[n] \in NoteRow /\ note'[n].author = note[n].author /\ note'[n].folder = None
        <3>1. note'[n] = [note[n] EXCEPT !.folder = None]
            BY <1>1, <1>4, <2>2
        <3> QED BY <1>4, <3>1 DEF NoteRow
    <2>3. \A n \in Notes : note[n].folder # gone => note'[n] = note[n]
        BY <1>1, <1>4
    <2> QED BY <1>4, <2>1, <2>2, <2>3
<1>7. folder' \in [Folder -> FolderRow \cup {None}] /\ note' \in [Note -> NoteRow \cup {None}]
    <2>1. \A f \in Folder : folder'[f] \in FolderRow \cup {None}
        BY <1>5
    <2>2. \A n \in Note : note'[n] \in NoteRow \cup {None}
        BY <1>6
    <2>3. folder' = [f \in Folder |-> folder'[f]]
        BY <1>2
    <2>4. note' = [n \in Note |-> note'[n]]
        BY <1>1
    <2> QED BY <2>1, <2>2, <2>3, <2>4
<1>8. Notes' = Notes /\ Folders' = Folders \ {gone}
    BY <1>4, <1>5, <1>6, StillThere DEF Notes, Folders
<1>9. \A s \in shares : s.on \in Folders \cup Notes
    BY <1>3, KeysAre
<1>10. Keys'
    <2>1. shares' \subseteq Share /\ \A s, t \in shares' : s.on = t.on /\ s.to = t.to => s = t
        BY <1>1, <1>3, KeysAre
    <2>2. \A s \in shares' : s.on \in Folders' \cup Notes'
        BY <1>1, <1>8, <1>9
    <2>3. \A f \in Folders' : folder'[f].parent \in Folders' \cup {None}
        BY <1>4, <1>5, <1>8
    <2>4. \A n \in Notes' : note'[n].folder \in Folders' \cup {None}
        BY <1>4, <1>6, <1>8
    <2> QED BY <1>7, <2>1, <2>2, <2>3, <2>4, KeysAreNext
<1>11. Change(gone)
    BY <1>1, <1>5, <1>6, StillThere DEF Change
<1> QED BY <1>10, <1>11

-----------------------------------------------------------------------------
(* Writes on shares, time, and the step of all requests on a change. *)

LEMMA ShareChange ==
    ASSUME BasisInv, NEW u \in User, WriteShare(u)
    PROVE  Keys' /\ Change(None)
<1> DEFINE r == req[u]
           old == {s \in shares : s.on = r.on /\ s.to = r.arg.to}
           id == IF old = {} THEN made ELSE (CHOOSE s \in old : TRUE).made
           new == [on |-> r.on, to |-> r.arg.to, access |-> r.arg.access, by |-> u, made |-> id,
                   until |-> Expiry(r.arg.ttl)]
<1>1. shares' = (shares \ old) \cup {new} /\ UNCHANGED <<folder, note, clock>>
    BY DEF WriteShare, Wrote
<1>2. r # None /\ r.op = "share" /\ r.on \in Notes \cup Folders
    BY DEF WriteShare, Ready, At, CanWrite
<1>3. r.arg \in Grant
    BY <1>2, Now DEF Fine, Asks
<1>4. Keys /\ clock \in 0 .. MaxClock /\ made \in 0 .. MaxRequests
    BY DEF BasisInv, TypeOK, Keys
<1>5. old \subseteq shares /\ shares \subseteq Share
    BY <1>4, KeysAre
<1>6. id \in 0 .. MaxRequests
    <2> HIDE DEF old
    <2>1. CASE old = {}
        BY <1>4, <2>1
    <2>2. CASE old # {}
        <3>1. (CHOOSE s \in old : TRUE) \in old
            BY <2>2
        <3>2. (CHOOSE s \in old : TRUE) \in Share
            BY <1>5, <3>1
        <3> QED BY <2>2, <3>2 DEF Share
    <2> QED BY <2>1, <2>2
<1>7. Expiry(r.arg.ttl) \in 1 .. Forever
    <2>1. r.arg.ttl \in {0, 1}
        BY <1>3 DEF Grant
    <2> QED BY <1>4, <2>1, BoundAssumption DEF Expiry, Forever
<1>8. new.on = r.on /\ new.to = r.arg.to
    OBVIOUS
<1>9. new \in Share
    <2>1. r.on \in Item /\ r.arg.to \in User /\ r.arg.access \in {VIEW, EDIT}
        BY <1>2, <1>3 DEF Notes, Folders, Item, Grant
    <2> HIDE DEF id
    <2> QED BY <1>6, <1>7, <2>1 DEF Share
<1> HIDE DEF new
<1>10. Notes' = Notes /\ Folders' = Folders
    BY <1>1 DEF Notes, Folders
<1>11. \A s, t \in shares' : s.on = t.on /\ s.to = t.to => s = t
    BY <1>1, <1>4, <1>8, KeysAre
<1>12. \A s \in shares' : s.on \in Folders' \cup Notes'
    BY <1>1, <1>2, <1>4, <1>8, <1>10, KeysAre
<1>13. Keys'
    <2> HIDE DEF old
    <2> QED BY <1>1, <1>4, <1>5, <1>9, <1>10, <1>11, <1>12, KeysAre, KeysAreNext
<1> QED BY <1>1, <1>13 DEF Change

LEMMA RevokeChange ==
    ASSUME BasisInv, NEW u \in User, WriteRevoke(u)
    PROVE  Keys' /\ Change(None)
<1>1. shares' \subseteq shares /\ UNCHANGED <<folder, note, clock>>
    BY DEF WriteRevoke, Wrote
<1>2. Keys
    BY DEF BasisInv, TypeOK, Keys
<1>3. Notes' = Notes /\ Folders' = Folders
    BY <1>1 DEF Notes, Folders
<1>4. Keys'
    BY <1>1, <1>2, <1>3, KeysAre, KeysAreNext
<1> QED BY <1>1, <1>4 DEF Change

\* Every write and every tick is such a change; it ends the request of the writer
\* and counts against those of the others.
Overlaps ==
    /\ Keys' /\ \E gone : Change(gone)
    /\ \A v \in User : req'[v] = None \/ req'[v] = Watched(req[v], v)
    /\ req' = [v \in User |-> req'[v]]
    /\ Account /\ clock' \in 0 .. MaxClock /\ clock' >= clock /\ UNCHANGED <<made, sessions>>

LEMMA WritesOverlap == ASSUME BasisInv, NEW u \in User, Write(u) PROVE Overlaps
<1>1. Keys' /\ \E gone : Change(gone)
    BY ArchiveChange, FileChange, DestroyChange, CreateChange, MkdirChange, MoveChange, RmdirChange,
       ShareChange, RevokeChange DEF Write
<1>2. Wrote(u)
    BY DEF Write, WriteArchive, WriteFile, WriteDestroy, WriteCreate, WriteMkdir, WriteMove, WriteRmdir,
           WriteShare, WriteRevoke
<1>3. clock \in 0 .. MaxClock
    BY DEF BasisInv, TypeOK
<1> QED BY <1>1, <1>2, <1>3, BoundAssumption DEF Overlaps, Wrote

LEMMA TickOverlaps == ASSUME BasisInv, Tick PROVE Overlaps
<1>1. Keys /\ clock \in 0 .. MaxClock
    BY DEF BasisInv, TypeOK, Keys
<1>2. Keys'
    BY <1>1 DEF Tick, Keys
<1>3. Change(None)
    BY DEF Tick, Change
<1> QED BY <1>1, <1>2, <1>3, BoundAssumption DEF Overlaps, Tick

\* What becomes of lost.
LEMMA AccountIs ==
    ASSUME SharesOK', Account, NEW u \in User, NEW n \in Note
    PROVE  lost'[u][n] = IF NoteAccess(u, n)' >= EDIT THEN Holds
                         ELSE IF lost[u][n] = Holds THEN clock' + 1 ELSE lost[u][n]
<1>1. Access(u, n)' \in 0 .. 3
    BY AccessTypedNext DEF AccessTyped
<1>2. NoteAccess(u, n)' \in 0 .. 3
    BY <1>1 DEF Access
<1>3. lost'[u][n] = CASE NoteAccess(u, n)' >= EDIT -> Holds
                      [] NoteAccess(u, n)' < EDIT /\ lost[u][n] = Holds -> clock' + 1
                      [] OTHER -> lost[u][n]
    BY DEF Account
<1>4. CASE NoteAccess(u, n)' >= EDIT
    BY <1>2, <1>3, <1>4 DEF EDIT
<1>5. CASE NoteAccess(u, n)' < EDIT /\ lost[u][n] = Holds
    BY <1>2, <1>3, <1>5 DEF EDIT
<1>6. CASE NoteAccess(u, n)' < EDIT /\ lost[u][n] # Holds
    BY <1>2, <1>3, <1>6 DEF EDIT
<1> QED BY <1>2, <1>4, <1>5, <1>6 DEF EDIT

LEMMA OverlapGood == ASSUME BasisInv, Inv', Overlaps PROVE BasisInv'
<1>1. SharesOK'
    BY DEF Inv
<1>2. lost' \in [User -> [Note -> 0 .. Holds]]
    <2>1. \A u \in User, n \in Note : lost'[u][n] \in 0 .. Holds
        <3> TAKE u \in User, n \in Note
        <3>1. lost[u][n] \in 0 .. Holds /\ clock' + 1 \in 0 .. Holds /\ Holds \in 0 .. Holds
            BY BoundAssumption DEF BasisInv, TypeOK, Holds, Overlaps
        <3>2. Account
            BY DEF Overlaps
        <3> QED BY <1>1, <3>1, <3>2, AccountIs
    <2>2. lost' = [u \in User |-> [n \in Note |-> lost'[u][n]]]
        BY DEF Overlaps, Account
    <2> QED BY <2>1, <2>2
<1>3. ASSUME NEW v \in User, req'[v] # None
      PROVE  /\ req[v] \in Request /\ Good(v, req[v]) /\ Fine(v, req[v])
             /\ req'[v] = Watched(req[v], v)
    <2>1. req'[v] = Watched(req[v], v) /\ req[v] # None
        BY <1>3 DEF Overlaps, Watched
    <2> QED BY <2>1, Now
<1>4. \A v \in User : req'[v] \in Request \cup {None}
    BY <1>1, <1>3, WatchedIs, RowAssumption DEF Good
<1>5. TypeOK'
    BY <1>2, <1>4 DEF Overlaps, BasisInv, TypeOK, Keys, sessions
<1>6. ASSUME NEW v \in User, req'[v] # None PROVE Good(v, req[v])'
    <2>10. PICK r : r = req[v]
        OBVIOUS
    <2>11. PICK q : q = req'[v]
        OBVIOUS
    <2>1. r \in Request /\ Good(v, r) /\ Fine(v, r) /\ q = Watched(r, v)
        BY <1>3, <1>6, <2>10, <2>11
    <2>12. Len(r.held) = Len(r.needs)
        BY <2>1 DEF Good
    <2>2. /\ q \in Request /\ Len(q.held) = Len(q.needs)
          /\ q.needs = r.needs /\ q.stage = r.stage /\ q.row = r.row /\ q.chain = r.chain /\ q.got = r.got
          /\ q.overlap = IF r.overlap = 2 THEN 2 ELSE r.overlap + 1
          /\ \A i \in 1 .. Len(r.needs) : q.held[i] >= Access(v, r.needs[i].on)' /\ q.held[i] >= r.held[i]
        BY <1>1, <2>1, <2>12, WatchedIs, RowAssumption
    <2>3. r.overlap \in 0 .. 2
        BY <2>1, RequestIs
    <2>4. q.overlap < 2 => r.overlap = 0
        BY <2>2, <2>3
    <2>5. q.overlap # 0
        BY <2>2, <2>3
    <2>6. PICK gone : Change(gone)
        BY DEF Overlaps
    <2>7. TypeOK
        BY DEF BasisInv
    <2>8. ASSUME r.overlap = 0 PROVE Based(v, q)'
        BY <1>5, <2>1, <2>2, <2>6, <2>7, <2>8, ChangeBased
    <2>9. Good(v, q)'
        BY <2>2, <2>4, <2>5, <2>8 DEF Good
    <2> QED BY <2>9, <2>11
<1> QED BY <1>5, <1>6 DEF BasisInv

-----------------------------------------------------------------------------
(* The results. *)

LEMMA InitGood == Init => BasisInv
<1> SUFFICES ASSUME Init PROVE BasisInv
    OBVIOUS
<1>1. Inv
    BY InitInv
<1>2. Consistent(folder, note, shares)
    BY SeedAssumption DEF Init
<1>3. lost \in [User -> [Note -> 0 .. Holds]]
    BY BoundAssumption DEF Init, Holds
<1>4. TypeOK
    BY <1>2, <1>3, BoundAssumption DEF Init, TypeOK
<1> QED BY <1>1, <1>4 DEF BasisInv, Init

LEMMA NextGood == BasisInv /\ [Next]_vars => BasisInv'
<1> SUFFICES ASSUME BasisInv, [Next]_vars PROVE BasisInv'
    OBVIOUS
<1>1. Inv'
    BY NextInv DEF BasisInv
<1>2. ASSUME NEW u \in User, Resolve(u) PROVE BasisInv'
    BY <1>2, ReadNoteGood, ReadChainGood, ReadGrantsGood, ReadTreeGood DEF Resolve
<1>3. ASSUME NEW u \in User, Write(u) PROVE BasisInv'
    BY <1>1, <1>3, WritesOverlap, OverlapGood
<1>4. CASE Tick
    BY <1>1, <1>4, TickOverlaps, OverlapGood
<1>5. CASE UNCHANGED vars
    <2>1. TypeOK'
        BY <1>5 DEF BasisInv, TypeOK, vars, db, sessions
    <2>2. UNCHANGED db /\ UNCHANGED req
        BY <1>5 DEF vars
    <2> QED BY <1>1, <2>1, <2>2, SameGood DEF BasisInv
<1> QED BY <1>2, <1>3, <1>4, <1>5, SendGood, AnswerGood, IssueGood, ConnsGood DEF Next

LEMMA AlwaysGood == Spec => []BasisInv
BY InitGood, NextGood, PTL DEF Spec

\* Rows, shares, requests and tokens keep their types, and the keys of the schema
\* hold: no two shares for one item and user, no reference to what is gone
\* (schema.prisma, folders/[id]/route.ts:143-171, shares/route.ts).
THEOREM KeysHold == Spec => []TypeOK
<1>1. BasisInv => TypeOK
    BY DEF BasisInv
<1> QED BY <1>1, AlwaysGood, PTL

\* What a request resolved, query by query, was held at some moment since it
\* began, as long as one change at most fell in between (access.ts:68-113).
THEOREM DecisionsHaveBasis == Spec => []DecisionHadBasis
<1>1. BasisInv => DecisionHadBasis
    <2> SUFFICES ASSUME BasisInv, NEW u \in User, req[u] # None, req[u].overlap < 2,
                        NEW i \in DOMAIN req[u].got
                 PROVE  req[u].got[i] <= req[u].held[i]
        BY DEF DecisionHadBasis
    <2>1. req[u] \in Request /\ Good(u, req[u])
        BY Now
    <2>2. i \in 1 .. Len(req[u].got)
        BY <2>1, RequestIs, LenProperties
    <2> QED BY <2>1, <2>2 DEF Good, Based
<1> QED BY <1>1, AlwaysGood, PTL

\* Resolution and listing agree (access.ts:37-113, 138-211).
THEOREM ListsAndRightsAgree == Spec => []ListedCanBeOpened
BY KeysHold, ListingAgrees, PTL

\* A user's own section has folders with all rights only (shared-folders.ts:9-35).
THEOREM OwnSectionIsTrue == Spec => []OwnSectionIsOwned
BY KeysHold, SectionsAgree, PTL

-----------------------------------------------------------------------------
(* Collab sessions: how late a right can still be used. *)

Last(u, n) == lost[u][n]

\* Who can edit now is down as such; a request on which nothing or one change fell
\* has not held the right longer ago than this tick; tokens and connections for
\* writing are not later than a token's life after it.
LateHolds == \A u \in User, n \in Note : NoteAccess(u, n) >= EDIT => Last(u, n) = Holds
LateRequests ==
    \A u \in User : req[u] # None /\ req[u].overlap < 2 =>
        \A i \in 1 .. Len(req[u].needs) :
            req[u].held[i] >= EDIT /\ req[u].needs[i].on \in Note => clock < Last(u, req[u].needs[i].on)
LateTokens ==
    \A t \in tokens : /\ t.exp <= clock + TTL
                      /\ t.write /\ t.sure => t.exp < Last(t.user, t.note) + TTL /\ Last(t.user, t.note) > 0
LateConns ==
    \A c \in conns : /\ c.opened <= clock
                     /\ c.write /\ c.sure => c.opened < Last(c.user, c.note) + TTL /\ Last(c.user, c.note) > 0
LateInv == BasisInv /\ LateHolds /\ LateRequests /\ LateTokens /\ LateConns

\* What queries leave alone.
LEMMA QueriesKeep ==
    ASSUME BasisInv, NEW u \in User, Resolve(u)
    PROVE  /\ UNCHANGED <<db, made, sessions, lost>>
           /\ \A v \in User : v # u => req'[v] = req[v]
           /\ req'[u] # None => /\ req[u] # None /\ req'[u].needs = req[u].needs
                                /\ req'[u].held = req[u].held /\ req'[u].overlap = req[u].overlap
<1> DEFINE r == req[u]
           P == /\ UNCHANGED <<db, made, sessions, lost>>
                /\ \A v \in User : v # u => req'[v] = req[v]
                /\ req'[u] # None => /\ r # None /\ req'[u].needs = r.needs
                                     /\ req'[u].held = r.held /\ req'[u].overlap = r.overlap
<1>1. r # None
    BY DEF Resolve, ReadNote, ReadChain, ReadGrants, ReadTree, At
<1>2. r \in Request /\ req \in [User -> Request \cup {None}]
    BY <1>1, Now DEF BasisInv, TypeOK
<1>3. ASSUME NEW level, Settle(u, level) PROVE P
    <2>1. PICK got, stage : req' = [req EXCEPT ![u] = IF ~Suffices(u, r, level) THEN None
                ELSE [r EXCEPT !.got = got, !.row = None, !.chain = {}, !.stage = stage]]
        BY <1>3, Zenon DEF Settle
    <2>2. UNCHANGED <<db, made, sessions, lost>>
        BY <1>3 DEF Settle
    <2> QED BY <1>1, <1>2, <2>1, <2>2 DEF Request
<1>4. CASE ReadNote(u)
    <2> DEFINE n == Current(r).on
    <2>1. CASE note[n] = None \/ (note[n] # None /\ note[n].author = u)
        BY <1>3, <1>4, <2>1 DEF ReadNote
    <2>2. CASE note[n] # None /\ note[n].author # u
        <3>1. /\ req' = [req EXCEPT ![u].row = note[n].folder, ![u].stage = "chain"]
              /\ UNCHANGED <<db, made, sessions, lost>>
            BY <1>4, <2>2 DEF ReadNote
        <3> HIDE DEF n
        <3> QED BY <1>1, <1>2, <3>1 DEF Request
    <2> QED BY <2>1, <2>2
<1>5. CASE ReadChain(u)
    <2> DEFINE x == Current(r).on
               chain == FolderChain(IF x \in Folder THEN x ELSE r.row)
    <2>1. CASE OwnsOneOf(u, chain) \/ (~OwnsOneOf(u, chain) /\ x \in Folder /\ chain = {})
        BY <1>3, <1>5, <2>1 DEF ReadChain
    <2>2. CASE ~OwnsOneOf(u, chain) /\ ~(x \in Folder /\ chain = {})
        <3>1. /\ req' = [req EXCEPT ![u].chain = chain, ![u].stage = "grants"]
              /\ UNCHANGED <<db, made, sessions, lost>>
            BY <1>5, <2>2 DEF ReadChain
        <3> HIDE DEF chain
        <3> QED BY <1>1, <1>2, <3>1 DEF Request
    <2> QED BY <2>1, <2>2
<1>6. CASE ReadGrants(u)
    BY <1>3, <1>6 DEF ReadGrants
<1>7. CASE ReadTree(u)
    BY <1>1, <1>2, <1>7 DEF ReadTree, Request
<1> QED BY <1>4, <1>5, <1>6, <1>7 DEF Resolve

LEMMA SameAccess ==
    ASSUME UNCHANGED db
    PROVE  \A u, n : NoteAccess(u, n)' = NoteAccess(u, n)
BY DEF db, NoteAccess, OwnsOneOf, Granted, ActiveShares, FolderChain

LEMMA InitLate == Init => LateInv
BY InitGood DEF Init, LateInv, LateHolds, LateRequests, LateTokens, LateConns, Last

\* The arithmetic of one step of lost, on plain numbers: a is the old entry, b the new one.
LEMMA LossStep ==
    ASSUME NEW k \in Nat, NEW m \in Nat, NEW a \in Nat, NEW b, NEW hi, k <= m,
           b = IF hi THEN m + 2 ELSE IF a = m + 2 THEN k + 1 ELSE a
    PROVE  b \in Nat /\ (b = m + 2 \/ b = k + 1 => k < b)
OBVIOUS

LEMMA LossKeepsBound ==
    ASSUME NEW j \in Nat, NEW k \in Nat, NEW m \in Nat, NEW ttl \in Nat, NEW a \in Nat, NEW e \in Nat,
           NEW b, b \in {m + 2, k + 1, a}, j <= k, k <= m,
           e <= j + ttl, e < a + ttl, a > 0
    PROVE  e < b + ttl /\ b > 0
<1>1. CASE b = m + 2
    BY <1>1
<1>2. CASE b = k + 1
    BY <1>2
<1>3. CASE b = a
    BY <1>3
<1> QED BY <1>1, <1>2, <1>3

LEMMA OverlapLate == ASSUME LateInv, BasisInv', Overlaps PROVE LateInv'
<1>1. /\ BasisInv /\ SharesOK' /\ Account /\ tokens' = tokens /\ conns' = conns
    BY DEF LateInv, BasisInv, Inv, Overlaps, sessions
<1>0. /\ clock \in Nat /\ clock' \in Nat /\ clock <= clock' /\ clock' <= MaxClock
      /\ MaxClock \in Nat /\ TTL \in Nat
    BY BoundAssumption DEF LateInv, BasisInv, TypeOK, Overlaps
<1>k. PICK k : k = clock'
    OBVIOUS
<1>2. ASSUME NEW u \in User, NEW n \in Note
      PROVE  /\ Last(u, n) \in Nat /\ Last(u, n)' \in Nat
             /\ Last(u, n)' = IF NoteAccess(u, n)' >= EDIT THEN MaxClock + 2
                              ELSE IF Last(u, n) = MaxClock + 2 THEN clock' + 1 ELSE Last(u, n)
             /\ NoteAccess(u, n) >= EDIT => Last(u, n) = MaxClock + 2
    <2>1. lost[u][n] \in 0 .. Holds
        BY <1>1 DEF BasisInv, TypeOK
    <2>2. lost'[u][n] = IF NoteAccess(u, n)' >= EDIT THEN Holds
                        ELSE IF lost[u][n] = Holds THEN clock' + 1 ELSE lost[u][n]
        BY <1>1, AccountIs
    <2>3. Last(u, n) = lost[u][n] /\ Last(u, n)' = lost'[u][n] /\ Holds = MaxClock + 2
        BY DEF Last, Holds
    <2>4. NoteAccess(u, n) >= EDIT => Last(u, n) = Holds
        BY DEF LateInv, LateHolds
    <2>5. Last(u, n)' = IF NoteAccess(u, n)' >= EDIT THEN MaxClock + 2
                        ELSE IF Last(u, n) = MaxClock + 2 THEN clock' + 1 ELSE Last(u, n)
        BY <2>2, <2>3
    <2>6. Last(u, n) \in Nat
        BY <1>0, <2>1, <2>3
    <2>7. PICK b : b = Last(u, n)'
        OBVIOUS
    <2>8. b = IF NoteAccess(u, n)' >= EDIT THEN MaxClock + 2
              ELSE IF Last(u, n) = MaxClock + 2 THEN k + 1 ELSE Last(u, n)
        BY <1>k, <2>5, <2>7
    <2>9. b \in Nat
        <3>1. k \in Nat /\ k <= MaxClock
            BY <1>0, <1>k
        <3> QED BY <1>0, <2>6, <2>8, <3>1, LossStep
    <2>10. Last(u, n)' \in Nat
        BY <2>7, <2>9
    <2> QED BY <2>3, <2>4, <2>5, <2>6, <2>10
<1>3. \A u \in User, n \in Note : NoteAccess(u, n)' >= EDIT => Last(u, n)' = Holds
    BY <1>2 DEF Holds
<1>4. ASSUME NEW u \in User, NEW n \in Note, NEW e \in Nat, e <= clock + TTL, e < Last(u, n) + TTL,
             Last(u, n) > 0
      PROVE  e < Last(u, n)' + TTL /\ Last(u, n)' > 0
    <2>1. PICK b : b = Last(u, n)'
        OBVIOUS
    <2>2. b \in {MaxClock + 2, k + 1, Last(u, n)}
        BY <1>2, <1>k, <2>1
    <2>3. k \in Nat /\ clock <= k /\ k <= MaxClock
        BY <1>0, <1>k
    <2>4. PICK a : a = Last(u, n)
        OBVIOUS
    <2>5. a \in Nat
        BY <1>2, <2>4
    <2>6. e < b + TTL /\ b > 0
        BY <1>0, <1>4, <2>2, <2>3, <2>4, <2>5, LossKeepsBound
    <2> QED BY <2>1, <2>6
<1>5. \A t \in tokens' : /\ t.exp <= clock' + TTL
                         /\ t.write /\ t.sure => t.exp < Last(t.user, t.note)' + TTL /\ Last(t.user, t.note)' > 0
    <2> TAKE t \in tokens'
    <2>1. t \in tokens /\ t.user \in User /\ t.note \in Note /\ t.exp \in Nat
        BY <1>1 DEF BasisInv, TypeOK, Token
    <2>2. /\ t.exp <= clock + TTL
          /\ t.write /\ t.sure => t.exp < Last(t.user, t.note) + TTL /\ Last(t.user, t.note) > 0
        BY <2>1 DEF LateInv, LateTokens
    <2>3. t.exp <= clock' + TTL
        BY <1>0, <2>1, <2>2
    <2> QED BY <1>4, <2>1, <2>2, <2>3
<1>6. \A c \in conns' : /\ c.opened <= clock'
                        /\ c.write /\ c.sure => c.opened < Last(c.user, c.note)' + TTL /\ Last(c.user, c.note)' > 0
    <2> TAKE c \in conns'
    <2>1. c \in conns /\ c.user \in User /\ c.note \in Note /\ c.opened \in Nat
        BY <1>1 DEF BasisInv, TypeOK, Conn
    <2>2. /\ c.opened <= clock
          /\ c.write /\ c.sure => c.opened < Last(c.user, c.note) + TTL /\ Last(c.user, c.note) > 0
        BY <2>1 DEF LateInv, LateConns
    <2>3. c.opened <= clock' /\ c.opened <= clock + TTL
        BY <1>0, <2>1, <2>2
    <2> QED BY <1>4, <2>1, <2>2, <2>3
<1>7. ASSUME NEW u \in User, req'[u] # None, req'[u].overlap < 2,
             NEW i \in 1 .. Len(req'[u].needs), req'[u].held[i] >= EDIT, req'[u].needs[i].on \in Note
      PROVE  clock' < Last(u, req[u].needs[i].on)'
    <2>1. PICK r : r = req[u]
        OBVIOUS
    <2>2. PICK q : q = req'[u]
        OBVIOUS
    <2>3. q = Watched(r, u) /\ r # None
        <3>1. req'[u] = Watched(req[u], u)
            BY <1>7 DEF Overlaps
        <3>2. req[u] # None
            BY <1>7, <3>1 DEF Watched
        <3> QED BY <2>1, <2>2, <3>1, <3>2
    <2>4. r \in Request /\ Good(u, r)
        BY <1>1, <2>1, <2>3, Now
    <2>5. Len(r.held) = Len(r.needs)
        BY <2>4 DEF Good
    <2>6. /\ q.needs = r.needs /\ q.overlap = IF r.overlap = 2 THEN 2 ELSE r.overlap + 1
          /\ \A j \in 1 .. Len(r.needs) : q.held[j] \in {Access(u, r.needs[j].on)', r.held[j]}
        BY <1>1, <2>3, <2>4, <2>5, WatchedIs, RowAssumption
    <2>7. r.overlap = 0
        BY <1>7, <2>2, <2>4, <2>6, RequestIs
    <2>8. PICK n : n = r.needs[i].on
        OBVIOUS
    <2>9. n \in Note /\ n = req'[u].needs[i].on
        BY <1>7, <2>2, <2>6, <2>8
    <2>10. r.held[i] = Access(u, n)
        BY <1>7, <2>2, <2>4, <2>6, <2>7, <2>8 DEF Good
    <2>11. q.held[i] \in {Access(u, n)', Access(u, n)} /\ q.held[i] >= EDIT
        BY <1>7, <2>2, <2>6, <2>8, <2>10
    <2>12. Access(u, n) = NoteAccess(u, n) /\ Access(u, n)' = NoteAccess(u, n)'
        BY <2>9 DEF Access
    <2>13. clock' < Last(u, n)'
        <3>1. /\ Last(u, n)' = IF NoteAccess(u, n)' >= EDIT THEN MaxClock + 2
                              ELSE IF Last(u, n) = MaxClock + 2 THEN clock' + 1 ELSE Last(u, n)
              /\ NoteAccess(u, n) >= EDIT => Last(u, n) = MaxClock + 2
            BY <1>2, <2>9
        <3>2. NoteAccess(u, n)' >= EDIT \/ NoteAccess(u, n) >= EDIT
            BY <2>11, <2>12
        <3>3. PICK b : b = Last(u, n)'
            OBVIOUS
        <3>4. b = MaxClock + 2 \/ b = k + 1
            BY <1>k, <3>1, <3>2, <3>3
        <3>5. k \in Nat /\ k <= MaxClock
            BY <1>0, <1>k
        <3>6. k < b
            BY <1>0, <3>4, <3>5
        <3> QED BY <1>k, <3>3, <3>6
    <2> QED BY <2>9, <2>13 DEF Last
<1>8. LateRequests'
    BY <1>7 DEF LateRequests
<1> QED BY <1>3, <1>5, <1>6, <1>8 DEF LateInv, LateHolds, LateTokens, LateConns

LEMMA QuietLate ==
    ASSUME LateInv, BasisInv', UNCHANGED <<db, lost>>,
           \A v \in User : req'[v] # None =>
               \/ req'[v] = req[v]
               \/ /\ req[v] # None /\ req'[v].needs = req[v].needs
                  /\ req'[v].held = req[v].held /\ req'[v].overlap = req[v].overlap,
           \A t \in tokens' : /\ t.exp <= clock + TTL
                              /\ t.write /\ t.sure => t.exp < Last(t.user, t.note) + TTL /\ Last(t.user, t.note) > 0,
           \A c \in conns' : /\ c.opened <= clock
                             /\ c.write /\ c.sure => c.opened < Last(c.user, c.note) + TTL
                                                    /\ Last(c.user, c.note) > 0
    PROVE  LateInv'
<1>1. clock' = clock /\ \A u, n : Last(u, n)' = Last(u, n)
    BY DEF db, Last
<1>2. \A u, n : NoteAccess(u, n)' = NoteAccess(u, n)
    BY SameAccess
<1> QED BY <1>1, <1>2 DEF LateInv, LateHolds, LateRequests, LateTokens, LateConns

LEMMA SendLate == ASSUME LateInv, BasisInv', NEW u \in User, Send(u) PROVE LateInv'
<1>1. /\ UNCHANGED <<db, tokens, conns, lost>> /\ \A v \in User : v # u => req'[v] = req[v]
      /\ clock' = clock /\ clock <= MaxClock /\ clock \in Nat
    BY DEF Send, sessions, db, LateInv, BasisInv, TypeOK
<1>2. \A v, n : Last(v, n)' = Last(v, n) /\ NoteAccess(v, n)' = NoteAccess(v, n)
    BY <1>1, SameAccess DEF Last
<1>3. PICK r \in Requests(u) :
        req' = [req EXCEPT ![u] = [r EXCEPT !.held = [i \in DOMAIN r.needs |-> Access(u, r.needs[i].on)]]]
    BY DEF Send
<1>4. r \in Request
    BY RequestsAsk DEF LateInv, BasisInv
<1>5. DOMAIN r.needs = 1 .. Len(r.needs)
    BY <1>4, RequestIs, LenProperties
<1>6. /\ req'[u].needs = r.needs
      /\ \A i \in 1 .. Len(r.needs) : req'[u].held[i] = Access(u, r.needs[i].on)
    BY <1>3, <1>4, <1>5 DEF Request, LateInv, BasisInv, TypeOK
<1>7. ASSUME NEW i \in 1 .. Len(req'[u].needs), req'[u].held[i] >= EDIT, req'[u].needs[i].on \in Note
      PROVE  clock < Last(u, req'[u].needs[i].on)
    <2> DEFINE n == r.needs[i].on
    <2>1. NoteAccess(u, n) >= EDIT /\ n \in Note
        BY <1>6, <1>7 DEF Access
    <2>2. Last(u, n) = MaxClock + 2
        BY <2>1 DEF LateInv, LateHolds, Holds
    <2> QED BY <1>1, <1>6, <2>2, BoundAssumption
<1> QED BY <1>1, <1>2, <1>7 DEF LateInv, LateHolds, LateRequests, LateTokens, LateConns

LEMMA IssueLate == ASSUME LateInv, BasisInv', NEW u \in User, IssueToken(u) PROVE LateInv'
<1> DEFINE r == req[u]
           t == [user |-> u, note |-> r.on, write |-> r.got[1] >= EDIT,
                 exp |-> clock + TTL, sure |-> r.overlap < 2]
<1>1. /\ r # None /\ r.op = "token" /\ r.stage = "write" /\ tokens' = tokens \cup {t}
      /\ UNCHANGED <<db, conns, lost>> /\ req' = [req EXCEPT ![u] = None]
    BY DEF IssueToken, Ready, At
<1>2. r \in Request /\ Good(u, r) /\ Fine(u, r)
    BY <1>1, Now DEF LateInv
<1>3. Len(r.needs) = 1 /\ Len(r.got) = 1 /\ r.on \in Note /\ r.needs[1].on = r.on /\ Len(r.held) = 1
    BY <1>1, <1>2 DEF Fine, Asks, Progress, Good
<1>4. r.got[1] \in 0 .. 3 /\ r.held[1] \in 0 .. 3
    BY <1>2, <1>3, RequestIs
<1>5. Last(u, r.on) \in Nat /\ clock \in Nat /\ TTL \in Nat
    BY <1>3, BoundAssumption DEF LateInv, BasisInv, TypeOK, Last, Holds
<1>6. ASSUME r.got[1] >= EDIT, r.overlap < 2 PROVE clock < Last(u, r.on)
    <2>1. r.got[1] <= r.held[1]
        BY <1>2, <1>3, <1>6 DEF Good, Based
    <2>2. r.held[1] >= EDIT
        BY <1>4, <1>6, <2>1 DEF EDIT
    <2> QED BY <1>1, <1>3, <1>6, <2>2 DEF LateInv, LateHolds, LateRequests, LateTokens, LateConns
<1>7. /\ t.exp <= clock + TTL
      /\ t.write /\ t.sure => t.exp < Last(t.user, t.note) + TTL /\ Last(t.user, t.note) > 0
    <2>1. t.exp = clock + TTL /\ t.user = u /\ t.note = r.on
        OBVIOUS
    <2>2. t.write /\ t.sure => r.got[1] >= EDIT /\ r.overlap < 2
        BY Zenon
    <2> HIDE DEF t
    <2>3. t.write /\ t.sure => clock < Last(u, r.on)
        BY <1>6, <2>2
    <2> QED BY <1>5, <2>1, <2>3
<1> HIDE DEF t
<1>8. \A v \in User : req'[v] # None => req'[v] = req[v]
    BY <1>1 DEF LateInv, BasisInv, TypeOK
<1> QED BY <1>1, <1>7, <1>8, QuietLate DEF LateInv, LateTokens, LateConns

LEMMA ConnectLate ==
    ASSUME LateInv, BasisInv', NEW c, (c \in tokens /\ Connect(c)) \/ Disconnect(c)
    PROVE  LateInv'
<1>1. UNCHANGED <<db, req, tokens, lost>>
    BY DEF Connect, Disconnect
<1>2. CASE c \in tokens /\ Connect(c)
    <2> DEFINE d == [user |-> c.user, note |-> c.note, write |-> c.write, opened |-> clock, sure |-> c.sure]
    <2>1. conns' = conns \cup {d} /\ clock <= c.exp
        BY <1>2 DEF Connect, Verify
    <2>2. c \in Token
        BY <1>2 DEF LateInv, BasisInv, TypeOK
    <2>3. c.exp \in Nat /\ Last(c.user, c.note) \in Nat /\ clock \in Nat /\ TTL \in Nat
        BY <2>2, BoundAssumption DEF LateInv, BasisInv, TypeOK, Last, Holds, Token
    <2>4. c.write /\ c.sure => c.exp < Last(c.user, c.note) + TTL /\ Last(c.user, c.note) > 0
        BY <1>2 DEF LateInv, LateTokens
    <2>5. /\ d.opened <= clock
          /\ d.write /\ d.sure => d.opened < Last(d.user, d.note) + TTL /\ Last(d.user, d.note) > 0
        BY <2>1, <2>3, <2>4
    <2> HIDE DEF d
    <2> QED BY <1>1, <2>1, <2>5, QuietLate DEF LateInv, LateTokens, LateConns
<1>3. CASE Disconnect(c)
    <2>1. conns' \subseteq conns
        BY <1>3 DEF Disconnect
    <2> QED BY <1>1, <2>1, QuietLate DEF LateInv, LateTokens, LateConns
<1> QED BY <1>2, <1>3

\* No connection is opened for writing later than a token's life after its user
\* could last edit the note (collab/[noteId]/route.ts:46-55, token.ts:57-79,
\* server.ts:215-235).
THEOREM LateConnectionsAreBounded == Spec => []StaleRightsOnlyOnOldConnections
<1>1. LateInv /\ [Next]_vars => LateInv'
    <2> SUFFICES ASSUME LateInv, [Next]_vars PROVE LateInv'
        OBVIOUS
    <2>1. BasisInv /\ BasisInv'
        BY NextGood DEF LateInv
    <2>2. ASSUME NEW u \in User, Resolve(u) PROVE LateInv'
        BY <2>1, <2>2, QueriesKeep, QuietLate DEF LateInv, LateTokens, LateConns, sessions
    <2>3. ASSUME NEW u \in User, Write(u) PROVE LateInv'
        BY <2>1, <2>3, WritesOverlap, OverlapLate
    <2>4. CASE Tick
        BY <2>1, <2>4, TickOverlaps, OverlapLate
    <2>5. ASSUME NEW u \in User, Answer(u) \/ Throw(u) PROVE LateInv'
        <3>1. UNCHANGED <<db, sessions, lost>> /\ req' = [req EXCEPT ![u] = None]
            BY <2>5 DEF Answer, Throw
        <3>2. \A v \in User : req'[v] # None => req'[v] = req[v]
            BY <2>1, <3>1 DEF BasisInv, TypeOK
        <3> QED BY <2>1, <3>1, <3>2, QuietLate DEF LateInv, LateTokens, LateConns, sessions
    <2>6. CASE UNCHANGED vars
        BY <2>1, <2>6, QuietLate DEF vars, sessions, LateInv, LateTokens, LateConns
    <2> QED BY <2>1, <2>2, <2>3, <2>4, <2>5, <2>6, SendLate, IssueLate, ConnectLate DEF Next
<1>2. LateInv => StaleRightsOnlyOnOldConnections
    BY DEF LateInv, LateHolds, LateRequests, LateTokens, LateConns, StaleRightsOnlyOnOldConnections, Last
<1> QED BY <1>1, <1>2, InitLate, PTL DEF Spec
=============================================================================
