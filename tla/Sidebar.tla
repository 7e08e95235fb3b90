------------------------------- MODULE Sidebar -------------------------------
(***************************************************************************)
(* The sidebar: the rows of the folder tree with their inputs, menus and   *)
(* drags (components/notes/Sidebar/FolderTree.tsx), the input for a new    *)
(* folder and the rows of the notes (Sidebar/index.tsx), composed with the *)
(* command bar.                                                            *)
(*                                                                         *)
(* What the inputs and the drag do while requests are under way is the     *)
(* subject: a handler awaits its change and then a new list, and the       *)
(* answer acts on inputs and rows that may no longer be those it started   *)
(* with.  A row that leaves the page while it is dragged never hears that  *)
(* the drag has ended.  Names and the order of siblings are left out: the  *)
(* plan of a drop is the subject of FolderPlan, the lists of NotesShell.   *)
(***************************************************************************)
EXTENDS CommandBar

CONSTANTS Root, Absent,
          Initial,    \* the parents to start from
          MaxActs,    \* bound: what the user does
          MaxTrouble  \* bound: failed requests, changes from elsewhere

ASSUME SidebarAssumption ==
  /\ Root \notin Folders /\ Absent \notin Folders /\ Root # Absent /\ Nothing # Root
  /\ Initial \in [Folders -> Folders \cup {Root, Absent}]

VARIABLES rows,   \* the server: the parent of every folder, the folder of the note
          ui,     \* the list at hand, the rows and inputs of the tree
          pointer,\* what the mouse drags, and whether its row is still on the page
          calls,  \* handlers under way
          past,   \* what has happened, for the properties
          left    \* what is left of the bounds

tree == <<rows, ui, pointer, calls, past>>
vars == <<rows, ui, pointer, calls, past, left, bar, searches, overlapped>>

NoDrag == [kind |-> "none", id |-> Nothing, lost |-> FALSE]

Init ==
  /\ BarInit
  /\ rows = [parent |-> Initial, note |-> Root]
  /\ ui = [list |-> Initial, expanded |-> {f \in Folders : Initial[f] = Root},
           renaming |-> Nothing, typed |-> FALSE, focus |-> FALSE,
           creating |-> FALSE, dragging |-> Nothing]
  /\ pointer = NoDrag /\ calls = {}
  /\ past = [stored |-> {}, discarded |-> FALSE, crossed |-> FALSE, lost |-> FALSE,
             opened |-> 0, made |-> 0]
  /\ left = [acts |-> MaxActs, trouble |-> MaxTrouble]

-----------------------------------------------------------------------------
(* The rows of a list. *)

Known(l, f) == f \in Folders /\ l[f] # Absent

IsDescendant(l, a, f) ==
  \A S \in SUBSET Folders : f \in S /\ (\A g \in S : Known(l, l[g]) => l[g] \in S) => a \in S

\* flatten: a folder is shown if everything above it is expanded.
Visible(u, f) ==
  Known(u.list, f) /\ \A g \in Folders \ {f} : IsDescendant(u.list, g, f) => g \in u.expanded

HasChildren(l, f) == \E g \in Folders : l[g] = f

Hidden(u) == u.renaming # Nothing /\ ~Visible(u, u.renaming)

\* The new state of the tree: a dragged row that is not in it is gone for good,
\* a rename input that is not in it comes back empty, with the focus.
Show(u) ==
  /\ ui' = IF Hidden(u) THEN [u EXCEPT !.typed = FALSE, !.focus = @ /\ u.creating]
           ELSE [u EXCEPT !.focus = @ \/ (Hidden(ui) /\ u.renaming # Nothing)]
  /\ pointer' = [pointer EXCEPT !.lost = @ \/ (pointer.kind = "folder" /\ ~Visible(u, pointer.id))]

-----------------------------------------------------------------------------
(* The user. *)

Act == left.acts > 0 /\ left' = [left EXCEPT !.acts = @ - 1]

\* The mouse is free and no input has the focus, which a click would take.
Free == pointer.kind = "none" /\ ~ui.focus

Handler(op, id, target, inside) ==
  [n |-> Unused(calls), op |-> op, id |-> id, target |-> target, inside |-> inside,
   meant |-> pointer.id, stage |-> "change", ok |-> TRUE, got |-> FALSE, list |-> Initial]

Toggled(u, f) == [u EXCEPT !.expanded = IF f \in @ THEN @ \ {f} ELSE @ \cup {f}]

\* The arrow of a row, and the keys.
Toggle(f) ==
  /\ Act /\ Free
  /\ Visible(ui, f) /\ HasChildren(ui.list, f)
  /\ Show(Toggled(ui, f))
  /\ calls' = {IF c.target = f THEN [c EXCEPT !.inside = FALSE] ELSE c : c \in calls}
  /\ past' = [past EXCEPT !.crossed = @ \/ Hidden(ui')]
  /\ UNCHANGED rows /\ UNCHANGED barVars

\* A click on a row, or an arrow key: the path of the folder becomes the filter.
Select(f) ==
  /\ Act /\ Free /\ Visible(ui, f) /\ f # ui.renaming
  /\ Follow(f) /\ UNCHANGED tree

\* The menu, or F2 while no input is open.
RequestRename(f) ==
  /\ Act /\ Free /\ Visible(ui, f) /\ f # ui.renaming
  /\ ui' = [ui EXCEPT !.renaming = f, !.typed = FALSE, !.focus = TRUE]
  /\ past' = [past EXCEPT !.stored = {},
       !.crossed = @ \/ ui.renaming # Nothing \/ \E c \in calls : c.op = "rename"]
  /\ UNCHANGED <<rows, pointer, calls>> /\ UNCHANGED barVars

\* Typing after the commit is what an answer can throw away.
TypeName ==
  /\ Act /\ ui.focus /\ ui.renaming # Nothing /\ ~ui.creating
  /\ ui' = [ui EXCEPT !.typed = TRUE]
  /\ past' = [past EXCEPT !.crossed = @ \/ \E c \in calls : c.op = "rename"]
  /\ UNCHANGED <<rows, pointer, calls>> /\ UNCHANGED barVars

\* Mutant: the input closes before the answer.
CommitRenameAtOnce(enter) ==
  /\ Act /\ ui.focus /\ ui.renaming # Nothing /\ ~ui.creating
  /\ ui' = [ui EXCEPT !.renaming = Nothing, !.typed = FALSE, !.focus = FALSE]
  /\ calls' = calls \cup {Handler("rename", ui.renaming, Nothing, FALSE)}
  /\ past' = [past EXCEPT !.discarded = @ \/ ui.typed]
  /\ UNCHANGED <<rows, pointer>> /\ UNCHANGED barVars

\* Enter and the loss of the focus both commit; only Enter keeps the focus.
CommitRename(enter) ==
  /\ Act /\ ui.focus /\ ui.renaming # Nothing /\ ~ui.creating
  /\ ui' = [ui EXCEPT !.focus = enter]
  /\ calls' = calls \cup {Handler("rename", ui.renaming, Nothing, FALSE)}
  /\ UNCHANGED <<rows, pointer, past>> /\ UNCHANGED barVars

\* Escape, or a name that is blank.
CancelRename ==
  /\ Act /\ ui.focus /\ ui.renaming # Nothing /\ ~ui.creating
  /\ ui' = [ui EXCEPT !.renaming = Nothing, !.typed = FALSE, !.focus = FALSE]
  /\ UNCHANGED <<rows, pointer, calls, past>> /\ UNCHANGED barVars

\* The menu of a row that is not being renamed, and its confirmation.
RequestDelete(f) ==
  /\ Act /\ Free /\ Visible(ui, f) /\ f # ui.renaming
  /\ calls' = calls \cup {Handler("delete", f, IF bar.value = f THEN f ELSE Nothing, FALSE)}
  /\ UNCHANGED <<rows, ui, pointer, past>> /\ UNCHANGED barVars

\* The + button, and a name typed into the input it opens.
StartCreate ==
  /\ Act /\ Free /\ ~ui.creating
  /\ ui' = [ui EXCEPT !.creating = TRUE, !.focus = TRUE]
  /\ past' = [past EXCEPT !.opened = @ + 1]
  /\ UNCHANGED <<rows, pointer, calls>> /\ UNCHANGED barVars

\* submitCreate, by Enter or by the loss of the focus.
SubmitCreate(enter) ==
  /\ Act /\ ui.focus /\ ui.creating
  /\ ui' = [ui EXCEPT !.focus = enter]
  /\ calls' = calls \cup {Handler("create", Nothing, IF bar.value \in Folders THEN bar.value ELSE Root, FALSE)}
  /\ past' = [past EXCEPT !.crossed = @ \/ \E c \in calls : c.op = "create"]
  /\ UNCHANGED <<rows, pointer>> /\ UNCHANGED barVars

CancelCreate ==
  /\ Act /\ ui.focus /\ ui.creating
  /\ ui' = [ui EXCEPT !.creating = FALSE, !.focus = FALSE]
  /\ past' = [past EXCEPT !.crossed = @ \/ \E c \in calls : c.op = "create"]
  /\ UNCHANGED <<rows, pointer, calls>> /\ UNCHANGED barVars

-----------------------------------------------------------------------------
(* Drags. *)

DragFolder(f) ==
  /\ Act /\ Free /\ Visible(ui, f) /\ f # ui.renaming
  /\ pointer' = [kind |-> "folder", id |-> f, lost |-> FALSE]
  /\ ui' = [ui EXCEPT !.dragging = f]
  /\ UNCHANGED <<rows, calls, past>> /\ UNCHANGED barVars

DragNote ==
  /\ Act /\ Free
  /\ pointer' = [NoDrag EXCEPT !.kind = "note"]
  /\ UNCHANGED <<rows, ui, calls, past>> /\ UNCHANGED barVars

\* Mutant: the state of the drag is kept.
DragEndKeeps ==
  /\ pointer.kind # "none" /\ pointer' = NoDrag
  /\ UNCHANGED <<rows, ui, calls, past, left>> /\ UNCHANGED barVars

\* The button is released elsewhere, or Escape: only a row that is still there
\* gets the event.
DragEnd ==
  /\ pointer.kind # "none" /\ pointer' = NoDrag
  /\ ui' = IF pointer.kind = "folder" /\ ~pointer.lost THEN [ui EXCEPT !.dragging = Nothing] ELSE ui
  /\ past' = [past EXCEPT !.lost = @ \/ pointer.lost]
  /\ UNCHANGED <<rows, calls, left>> /\ UNCHANGED barVars

\* While a folder is being dragged, as far as the tree knows, every row outside
\* of it is covered by three zones.
Zoned(f) == ui.dragging # Nothing /\ Visible(ui, f) /\ ~IsDescendant(ui.list, ui.dragging, f)

Alone(d, parent) == ui.list[d] = parent /\ \A f \in Folders \ {d} : ui.list[f] # parent

\* applyDrop, with the plan reduced to the new parent: among the same siblings
\* it may change nothing.  Inside opens the target.
\* Mutant: the target stays closed.
ApplyDropClosed(d, parent, inside) ==
  LET u == [ui EXCEPT !.dragging = Nothing] IN
  \/ /\ (parent # Root /\ IsDescendant(ui.list, d, parent)) \/ ui.list[d] = parent
     /\ ui' = u /\ UNCHANGED calls
  \/ /\ ~(parent # Root /\ IsDescendant(ui.list, d, parent)) /\ ~Alone(d, parent)
     /\ ui' = u
     /\ calls' = calls \cup {Handler("reorder", d, parent, inside)}
ApplyDrop(d, parent, inside) ==
  LET u == [ui EXCEPT !.dragging = Nothing] IN
  \/ /\ (parent # Root /\ IsDescendant(ui.list, d, parent)) \/ ui.list[d] = parent
     /\ ui' = u /\ UNCHANGED calls
  \/ /\ ~(parent # Root /\ IsDescendant(ui.list, d, parent)) /\ ~Alone(d, parent)
     /\ ui' = [u EXCEPT !.expanded = IF inside THEN @ \cup {parent} ELSE @]
     /\ calls' = calls \cup {Handler("reorder", d, parent, inside)}

\* A drop on a zone: the id in the drag's data, or the one the tree remembers.
ZoneDrop(f, inside) ==
  /\ pointer.kind # "none" /\ Zoned(f)
  /\ ApplyDrop(IF pointer.kind = "folder" THEN pointer.id ELSE ui.dragging,
               IF inside THEN f ELSE ui.list[f], inside)
  /\ pointer' = NoDrag /\ past' = [past EXCEPT !.lost = @ \/ pointer.lost]
  /\ UNCHANGED <<rows, left>> /\ UNCHANGED barVars

\* A folder dropped beside the rows, if the tree knows of it and it is not at
\* the top already.
RootDrop ==
  /\ pointer.kind = "folder" /\ Known(ui.list, ui.dragging) /\ ui.list[ui.dragging] # Root
  /\ ApplyDrop(pointer.id, Root, FALSE)
  /\ pointer' = NoDrag /\ past' = [past EXCEPT !.lost = @ \/ pointer.lost]
  /\ UNCHANGED <<rows, left>> /\ UNCHANGED barVars

\* A note dropped on a row that no zone covers, or beside the rows.
NoteDrop(f) ==
  /\ pointer.kind = "note" /\ (f = Root \/ (Visible(ui, f) /\ ~Zoned(f)))
  /\ calls' = calls \cup {Handler("file", Nothing, f, FALSE)}
  /\ pointer' = NoDrag
  /\ UNCHANGED <<rows, ui, past, left>> /\ UNCHANGED barVars

-----------------------------------------------------------------------------
(* The server, and the answers. *)

Becomes(c, d) == calls' = (calls \ {c}) \cup {d}

After(c) ==
  CASE c.op = "reorder" ->
         IF Known(rows.parent, c.id) /\ (c.target = Root \/ (Known(rows.parent, c.target)
              /\ ~IsDescendant(rows.parent, c.id, c.target)))
           THEN {[rows EXCEPT !.parent[c.id] = c.target]} ELSE {}
    [] c.op = "create" ->
         IF c.target # Root /\ ~Known(rows.parent, c.target) THEN {}
         ELSE {[rows EXCEPT !.parent[f] = c.target] : f \in {g \in Folders : rows.parent[g] = Absent}}
    [] c.op = "delete" ->
         IF Known(rows.parent, c.id) /\ ~HasChildren(rows.parent, c.id) /\ rows.note # c.id
           THEN {[rows EXCEPT !.parent[c.id] = Absent]} ELSE {}
    [] c.op = "rename" -> IF Known(rows.parent, c.id) THEN {rows} ELSE {}
    [] c.op = "file" -> IF c.target = Root \/ Known(rows.parent, c.target)
                          THEN {[rows EXCEPT !.note = c.target]} ELSE {}

Change(c) ==
  /\ c.stage = "change"
  /\ IF After(c) = {} THEN Becomes(c, [c EXCEPT !.stage = "done", !.ok = FALSE]) /\ UNCHANGED <<rows, past>>
     ELSE /\ rows' \in After(c)
          /\ Becomes(c, [c EXCEPT !.stage = IF c.op = "file" THEN "done" ELSE "fetch"])
          /\ past' = [past EXCEPT !.stored = IF c.op = "rename" THEN @ \cup {c.id} ELSE @,
                                  !.made = IF c.op = "create" THEN @ + 1 ELSE @]
  /\ UNCHANGED <<ui, pointer, left>> /\ UNCHANGED barVars

Fetch(c) ==
  /\ c.stage = "fetch" /\ Becomes(c, [c EXCEPT !.stage = "done", !.got = TRUE, !.list = rows.parent])
  /\ UNCHANGED <<rows, ui, pointer, past, left>> /\ UNCHANGED barVars

\* Mutant: the input for a new folder stays open.
AfterwardsStays(c, u) ==
  IF c.op = "rename" THEN [u EXCEPT !.renaming = Nothing, !.typed = FALSE, !.focus = @ /\ u.creating]
  ELSE u

\* What the handler does last: whichever input is open then is closed.
Afterwards(c, u) ==
  CASE c.op = "rename" -> [u EXCEPT !.renaming = Nothing, !.typed = FALSE, !.focus = @ /\ u.creating]
    [] c.op = "create" -> [u EXCEPT !.creating = FALSE,
                                    !.focus = @ /\ u.renaming # Nothing /\ ~u.creating]
    [] OTHER -> u

Answer(c) ==
  /\ c.stage = "done" /\ calls' = calls \ {c}
  /\ IF ~c.ok \/ c.op = "file" THEN UNCHANGED <<ui, pointer, past>>
     ELSE /\ Show(Afterwards(c, [ui EXCEPT !.list = IF c.got THEN c.list ELSE @]))
          /\ past' = [past EXCEPT !.crossed = @ \/ Hidden(ui'), !.discarded = @ \/
               (ui.typed /\ ~ui'.typed /\ ui.renaming \notin past.stored)]
  /\ IF c.op = "delete" /\ c.ok /\ c.target # Nothing
       THEN Input([bar EXCEPT !.value = Nothing]) ELSE UNCHANGED barVars
  /\ UNCHANGED <<rows, left>>

Trouble == left.trouble > 0 /\ left' = [left EXCEPT !.trouble = @ - 1]

\* The change fails, or its answer is lost; the list that follows may fail
\* too, which the handler does not notice.
Fail(c) ==
  /\ Trouble
  /\ \/ c.stage \in {"change", "fetch"} /\ Becomes(c, [c EXCEPT !.stage = "done", !.ok = FALSE])
     \/ c.stage = "fetch" /\ Becomes(c, [c EXCEPT !.stage = "done"])
  /\ past' = [past EXCEPT !.crossed = @ \/ (c.stage = "fetch" /\ c.op = "create")]
  /\ UNCHANGED <<rows, ui, pointer>> /\ UNCHANGED barVars

\* Another client moves or deletes a folder.
Elsewhere(f, p) ==
  /\ Trouble /\ Known(rows.parent, f) /\ rows.parent[f] # p
  /\ CASE p = Absent -> ~HasChildren(rows.parent, f) /\ rows.note # f
       [] p \in Folders -> Known(rows.parent, p) /\ ~IsDescendant(rows.parent, f, p)
       [] OTHER -> TRUE
  /\ rows' = [rows EXCEPT !.parent[f] = p]
  /\ UNCHANGED <<ui, pointer, calls, past>> /\ UNCHANGED barVars

\* Of the commands, those of folders at the top are typed, others picked.
BarActs ==
  \/ Act /\ Free /\ UNCHANGED tree /\
       (\/ \E v \in Texts \cup {f \in Folders : ui.list[f] = Root} : Type(v)
        \/ \E f \in Folders : Known(ui.list, f) /\ ui.list[f] # Root /\ ApplyFolder(f)
        \/ OpenHit \/ Clear)
  \/ UNCHANGED left /\ UNCHANGED tree /\
       (Close \/ Fire \/ \E s \in searches : SearchAnswer(s, TRUE))
  \/ Trouble /\ UNCHANGED tree /\ \E s \in searches : SearchAnswer(s, FALSE)

Next ==
  \/ \E f \in Folders : Toggle(f) \/ Select(f) \/ RequestRename(f) \/ RequestDelete(f) \/ DragFolder(f)
  \/ \E enter \in BOOLEAN : CommitRename(enter) \/ SubmitCreate(enter)
  \/ TypeName \/ CancelRename \/ StartCreate \/ CancelCreate \/ DragNote \/ DragEnd \/ RootDrop
  \/ \E f \in Folders : NoteDrop(f) \/ \E inside \in BOOLEAN : ZoneDrop(f, inside)
  \/ NoteDrop(Root)
  \/ \E c \in calls : Change(c) \/ Fetch(c) \/ Answer(c) \/ Fail(c)
  \/ \E f \in Folders, p \in Folders \cup {Root, Absent} : Elsewhere(f, p)
  \/ BarActs

Spec == Init /\ [][Next]_vars

-----------------------------------------------------------------------------
(* Properties. *)

\* Unless a dragged row has left the page, the zones are there only while the
\* folder they remember is being dragged, and every drop moves what was
\* under the mouse: a note dropped on a row never moves a folder
\* (FolderTree.tsx:265-353, :385).
DragIsTrue ==
  ~past.lost =>
    /\ ui.dragging # Nothing => pointer.kind = "folder" /\ pointer.id = ui.dragging
    /\ \A c \in calls : c.op = "reorder" => c.id = c.meant

\* What was typed into a rename input is stored before the input closes, unless
\* it is cancelled, its row leaves the tree, or the user typed on or opened
\* another one while a rename was under way (FolderTree.tsx:128-142).
TypedIsKept == past.discarded => past.crossed

\* The input for a new folder makes one folder each time it is opened, unless it
\* is submitted again while the first request is under way, or the answer
\* to that is lost (Sidebar/index.tsx:85-101).
CreatedOnce == past.made > past.opened => past.crossed

\* A folder dropped into another one can be seen in the list that follows,
\* where its target can, unless the target was closed meanwhile
\* (FolderTree.tsx:180-184).
DroppedIsRevealed ==
  [][\A c \in calls :
       (/\ c.op = "reorder" /\ c.ok /\ c.got /\ c.inside /\ c.list[c.id] = c.target
        /\ \A d \in calls' : d.n # c.n)
         => (Visible(ui', c.target) => Visible(ui', c.id))]_vars
=============================================================================
