----------------------------- MODULE NotesShell -----------------------------
(***************************************************************************)
(* The client shell around the notes: what it keeps of the lists, the      *)
(* filter in the URL, and the fetches and changes it has under way         *)
(* (apps/web: components/notes/NotesShell.tsx, lib/notes/api-client.ts,    *)
(* app/notes/page.tsx; the routes only by what they do to the rows).       *)
(*                                                                         *)
(* A handler is a closure: what it read from the state when it was called  *)
(* (the filter, the list) is what it uses after every await, although the  *)
(* state has moved on.  A request therefore carries the filter of the      *)
(* moment its handler was called.  Requests are served and answered in any *)
(* order; the answers of both note lists are matched by number with the    *)
(* newest request, those of the folder list are not.  Opening a note       *)
(* mounts a new shell with lists the server rendered.                      *)
(***************************************************************************)
EXTENDS Naturals, FiniteSets

CONSTANTS Notes,      \* ids
          Folders,    \* ids, and their paths
          Top,        \* no folder, and no filter
          Gone,       \* the place of a note that was deleted
          MaxActs,    \* bound: what the user does
          MaxTrouble  \* bound: failed requests, lost answers, changes from elsewhere

ASSUME NotesShellAssumption ==
  /\ MaxActs \in Nat /\ MaxTrouble \in Nat
  /\ Top \notin Folders /\ Gone \notin Folders /\ Top # Gone

VARIABLES rows,    \* the server: place of every note, the folders, is the share seen
          ui,      \* the state of the mounted shell
          calls,   \* requests of this shell, and of earlier ones, under way
          foreign, \* per list: changed by nobody this shell waits for since its newest fetch
          left     \* what is left of the bounds

vars == <<rows, ui, calls, foreign, left>>

Items == [id : Notes, at : Folders \cup {Top}]
Filters == Folders \cup {Top}

\* The path in the URL resolves against the folders at hand, or filters nothing.
FolderId(u) == IF u.path \in u.folders THEN u.path ELSE Top

\* GET /api/notes.
Listing(place, filter) ==
  {i \in Items : place[i.id] = i.at /\ (filter = Top \/ i.at = filter)}

Call(op, n, filter, note, folder) ==
  [op |-> op, n |-> n, filter |-> filter, note |-> note, folder |-> folder,
   stage |-> "sent", live |-> TRUE, ok |-> TRUE, notes |-> {}, folders |-> {}, seen |-> FALSE]

AnyNote == CHOOSE n \in Notes : TRUE

\* The shell as the server renders it.  With a filter in the URL the list is
\* fetched at once, without one the list that came with the page is kept.
Mount(path, r) ==
  LET f == IF path \in r.folders THEN path ELSE Top
  IN  [path |-> path, folders |-> r.folders,
       notes |-> IF f = Top THEN Listing(r.place, Top) ELSE {},
       pending |-> f # Top, req |-> IF f = Top THEN 0 ELSE 1, listOf |-> 0, listFor |-> Top,
       shared |-> "none", sharedReq |-> 1, sharedOf |-> 0, foldersReq |-> 0, foldersOf |-> 0,
       acts |-> 0, going |-> FALSE]

MountCalls(u) ==
  {Call("shared", 1, Top, AnyNote, Top)} \cup
  (IF u.pending THEN {Call("list", 1, FolderId(u), AnyNote, Top)} ELSE {})

Init ==
  /\ rows \in [place : [Notes -> Filters], folders : {Folders}, seen : {FALSE}]
  /\ \E p \in Filters : ui = Mount(p, rows) /\ calls = MountCalls(ui)
  /\ foreign = [list |-> FALSE, folders |-> FALSE]
  /\ left = [acts |-> MaxActs, trouble |-> MaxTrouble]

-----------------------------------------------------------------------------
(***************************************************************************)
(* Fetches.                                                                *)
(***************************************************************************)
\* refreshNotes with the filter of its closure.
ListCall(u, filter) == Call("list", u.req + 1, filter, AnyNote, Top)
Asked(u) == [u EXCEPT !.req = @ + 1, !.pending = TRUE]

FoldersCall(u, filter, folder) == Call("folders", u.foldersReq + 1, filter, AnyNote, folder)
SharedCall(u) == Call("shared", u.sharedReq + 1, Top, AnyNote, Top)

\* A new state of the shell, and the fetch React's effect adds when the
\* resolved filter has changed with it.
Render(u, cs) ==
  IF FolderId(u) = FolderId(ui)
    THEN ui' = u /\ calls' = cs
    ELSE ui' = Asked(u) /\ calls' = cs \cup {ListCall(u, FolderId(u))}

-----------------------------------------------------------------------------
(***************************************************************************)
(* The user.                                                               *)
(***************************************************************************)
Act == left.acts > 0 /\ left' = [left EXCEPT !.acts = @ - 1]

\* The command bar, or a folder that is selected: the URL changes.
SetQuery(path) ==
  /\ Act /\ path # ui.path
  /\ Render([ui EXCEPT !.path = path], calls)
  /\ UNCHANGED <<rows, foreign>>

\* A handler starts: it has read the filter and waits for its first request.
Start(op, note, folder) ==
  /\ Act
  /\ ui' = [ui EXCEPT !.acts = @ + 1]
  /\ calls' = calls \cup {Call(op, ui.acts + 1, FolderId(ui), note, folder)}
  /\ UNCHANGED <<rows, foreign>>

\* A drop where the list says the note is already does nothing.
HandleMoveNote(i, target) == i.at # target /\ Start("move", i.id, target)
HandleDeleteNote(i) == Start("destroy", i.id, Top)
HandleCreateFolder(f) == f \notin ui.folders /\ Start("mkdir", AnyNote, f)
HandleDeleteFolder(f) == Start("rmdir", AnyNote, f)

\* Renaming, reordering and icons: a request, then the folder list again.
HandlePatchFolder(f) == Start("patch", AnyNote, f)

HandleSharesChanged ==
  /\ Act
  /\ ui' = [Asked(ui) EXCEPT !.foldersReq = @ + 1, !.sharedReq = @ + 1]
  /\ calls' = calls \cup {ListCall(ui, FolderId(ui)), SharedCall(ui), FoldersCall(ui, Top, Top)}
  /\ UNCHANGED <<rows, foreign>>

\* The shared note is opened: it is shown as seen before the server knows.
OpenShared ==
  /\ Act /\ ui.shared # "none" /\ ~ui.going
  /\ ui' = [ui EXCEPT !.shared = "seen", !.going = TRUE, !.acts = @ + 1]
  /\ calls' = calls \cup (IF ui.shared = "seen" THEN {}
                           ELSE {Call("seen", ui.acts + 1, Top, AnyNote, Top)})
  /\ UNCHANGED <<rows, foreign>>

\* Any other note is opened, created or duplicated.
OpenNote == Act /\ ~ui.going /\ ui' = [ui EXCEPT !.going = TRUE] /\ UNCHANGED <<rows, calls, foreign>>

\* The new page arrives with a new shell; answers to the old one are dropped.
Navigate ==
  /\ ui.going
  /\ ui' = Mount(ui.path, rows)
  /\ calls' = {[c EXCEPT !.live = FALSE] :
                 c \in {c \in calls : c.stage = "sent" /\ c.op \notin {"list", "folders", "shared"}}}
              \cup MountCalls(ui')
  /\ foreign' = [list |-> FALSE, folders |-> FALSE]
  /\ UNCHANGED <<rows, left>>

-----------------------------------------------------------------------------
(***************************************************************************)
(* The routes, each by what it reads or leaves in the rows.                *)
(***************************************************************************)
Answered(c, d) == calls' = (calls \ {c}) \cup (IF c.live THEN {[d EXCEPT !.stage = "done"]} ELSE {})

ServeFetch(c) ==
  /\ Answered(c, [c EXCEPT !.notes = IF c.op = "list" THEN Listing(rows.place, c.filter) ELSE {},
                           !.folders = IF c.op = "folders" THEN rows.folders ELSE {},
                           !.seen = IF c.op = "shared" THEN rows.seen ELSE FALSE])
  /\ foreign' = [list |-> foreign.list /\ ~(c.op = "list" /\ c.n = ui.req),
                 folders |-> foreign.folders /\ ~(c.op = "folders" /\ c.n = ui.foldersReq)]
  /\ UNCHANGED rows

Possible(c) ==
  CASE c.op = "move"    -> rows.place[c.note] # Gone /\ c.folder \in rows.folders \cup {Top}
    [] c.op = "destroy" -> rows.place[c.note] # Gone
    [] c.op = "patch"   -> c.folder \in rows.folders
    [] c.op = "rmdir"   -> c.folder \in rows.folders /\ \A n \in Notes : rows.place[n] # c.folder
    [] OTHER            -> TRUE

After(c) ==
  CASE c.op = "move"    -> [rows EXCEPT !.place[c.note] = c.folder]
    [] c.op = "destroy" -> [rows EXCEPT !.place[c.note] = Gone]
    [] c.op = "mkdir"   -> [rows EXCEPT !.folders = @ \cup {c.folder}]
    [] c.op = "rmdir"   -> [rows EXCEPT !.folders = @ \ {c.folder}]
    [] c.op = "seen"    -> [rows EXCEPT !.seen = TRUE]
    [] OTHER            -> rows

ServeChange(c) ==
  /\ Answered(c, [c EXCEPT !.ok = Possible(c)])
  /\ rows' = IF Possible(c) THEN After(c) ELSE rows
  /\ foreign' = IF c.live THEN foreign
                ELSE [list |-> foreign.list \/ rows'.place # rows.place,
                      folders |-> foreign.folders \/ rows'.folders # rows.folders]

Serve(c) ==
  /\ c.stage = "sent"
  /\ IF c.op \in {"list", "folders", "shared"} THEN ServeFetch(c) ELSE ServeChange(c)
  /\ UNCHANGED <<ui, left>>

-----------------------------------------------------------------------------
(***************************************************************************)
(* Answers: the rest of the handler runs.                                  *)
(***************************************************************************)
\* Mutant: the number of the request is not compared.
ListAnswerAny(c, ok) ==
  Render([ui EXCEPT !.notes = IF ok THEN c.notes ELSE @, !.pending = FALSE,
                    !.listOf = IF ok THEN c.n ELSE @, !.listFor = IF ok THEN c.filter ELSE @], calls \ {c})
ListAnswer(c, ok) ==
  Render(IF c.n # ui.req THEN ui
         ELSE [ui EXCEPT !.notes = IF ok THEN c.notes ELSE @, !.pending = FALSE,
                         !.listOf = IF ok THEN c.n ELSE @, !.listFor = IF ok THEN c.filter ELSE @],
         calls \ {c})

SharedAnswer(c, ok) ==
  Render(IF c.n # ui.sharedReq \/ ~ok THEN ui
         ELSE [ui EXCEPT !.sharedOf = c.n, !.shared = IF c.seen THEN "seen" ELSE "unseen"], calls \ {c})

\* Whatever list of folders arrives replaces the last.  The one that follows a
\* deletion clears the filter if it was the deleted folder when that began.
FoldersAnswer(c, ok) ==
  LET got == IF ok THEN [ui EXCEPT !.folders = c.folders, !.foldersOf = c.n] ELSE ui
      cleared == c.folder # Top /\ c.folder = c.filter
  IN  Render([got EXCEPT !.path = IF cleared THEN Top ELSE @], calls \ {c})

\* The list that changed is fetched again, with the filter of the closure.
\* Mutant: a moved note is taken out of the list instead.
ChangeAnswerLocal(c, ok) ==
  IF ok /\ c.op = "move"
    THEN Render([ui EXCEPT !.notes = {i \in @ : i.id # c.note}], calls \ {c})
    ELSE Render(ui, calls \ {c})
ChangeAnswer(c, ok) ==
  IF ~ok \/ c.op = "seen" THEN Render(ui, calls \ {c})
  ELSE IF c.op \in {"move", "destroy"}
    THEN Render(Asked(ui), (calls \ {c}) \cup {ListCall(ui, c.filter)})
    ELSE Render([ui EXCEPT !.foldersReq = @ + 1],
                (calls \ {c}) \cup {FoldersCall(ui, IF c.op = "rmdir" THEN c.filter ELSE Top,
                                                    IF c.op = "rmdir" THEN c.folder ELSE Top)})

Apply(c, ok) ==
  CASE c.op = "list"    -> ListAnswer(c, ok)
    [] c.op = "shared"  -> SharedAnswer(c, ok)
    [] c.op = "folders" -> FoldersAnswer(c, ok)
    [] OTHER            -> ChangeAnswer(c, ok)

Answer(c) == c.stage = "done" /\ Apply(c, c.ok) /\ UNCHANGED <<rows, foreign, left>>

Trouble == left.trouble > 0 /\ left' = [left EXCEPT !.trouble = @ - 1]

\* A request fails, or its answer is lost after it was served.
Fail(c) ==
  /\ c.live /\ Trouble
  /\ Apply(c, FALSE)
  /\ foreign' = IF c.stage = "done" /\ c.op \in {"move", "destroy", "mkdir", "rmdir"}
                  THEN [list |-> TRUE, folders |-> TRUE] ELSE foreign
  /\ UNCHANGED rows

\* Another client moves a note.
Elsewhere(n, f) ==
  /\ Trouble /\ rows.place[n] \notin {Gone, f} /\ f \in rows.folders \cup {Top}
  /\ rows' = [rows EXCEPT !.place[n] = f]
  /\ foreign' = [foreign EXCEPT !.list = TRUE]
  /\ UNCHANGED <<ui, calls>>

Next ==
  \/ \E p \in Filters : SetQuery(p)
  \/ \E i \in ui.notes : HandleDeleteNote(i) \/ \E f \in ui.folders \cup {Top} : HandleMoveNote(i, f)
  \/ \E f \in Folders : HandleCreateFolder(f)
  \/ \E f \in ui.folders : HandleDeleteFolder(f) \/ HandlePatchFolder(f)
  \/ HandleSharesChanged \/ OpenShared \/ OpenNote \/ Navigate
  \/ \E c \in calls : Serve(c) \/ Answer(c) \/ Fail(c)
  \/ \E n \in Notes, f \in Filters : Elsewhere(n, f)

Spec == Init /\ [][Next]_vars

-----------------------------------------------------------------------------
(***************************************************************************)
(* Properties                                                              *)
(***************************************************************************)
Awaiting(ops) == \E c \in calls : c.live /\ c.op \in ops

\* Both note lists keep the promise of Latest: no answer but the newest is
\* shown, and "loading" ends with that answer (NotesShell.tsx:137-152, :178-188).
\* The list of shared notes has no "loading": its newest request is under way.
SharedWaits == \E c \in calls : c.live /\ c.op = "shared" /\ c.n = ui.sharedReq
OwnList == INSTANCE Latest WITH newest <- ui.req, shown <- ui.listOf, loading <- ui.pending
SharedList == INSTANCE Latest WITH newest <- ui.sharedReq, shown <- ui.sharedOf, loading <- SharedWaits
ListsAreLatest == OwnList!LatestSpec /\ SharedList!LatestSpec

\* With nothing under way, a list that was fetched for the filter in force is
\* the server's list: every handler that moves a note fetches after it, and no
\* older answer survives.  Likewise the folders, unless answers overtook each
\* other, and the filter is a folder that exists.  What another client changed
\* is not in it.  No error and no overtaking leaves the mark "loading" behind
\* (NotesShell.tsx:140-150, :154-173, :256-263, :298-305, :339-359).
RestingShellIsCurrent ==
  /\ ~Awaiting({"list"}) => ~ui.pending
  /\ (/\ ~Awaiting({"list", "move", "destroy", "folders", "rmdir"})
      /\ ui.listOf = ui.req /\ ui.listFor = FolderId(ui) /\ ~foreign.list)
       => ui.notes = Listing(rows.place, FolderId(ui))
  /\ (/\ ~Awaiting({"folders", "mkdir", "rmdir", "patch"})
      /\ ui.foldersOf = ui.foldersReq /\ ~foreign.folders)
       => ui.folders = rows.folders /\ FolderId(ui) \in rows.folders \cup {Top}
=============================================================================
