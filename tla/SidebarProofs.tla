--------------------------- MODULE SidebarProofs ---------------------------
(***************************************************************************)
(* The properties of Sidebar and CommandBar, for any folders, texts and    *)
(* number of handlers, and for any interleaving of their answers with the  *)
(* user, with failures and with the changes of other clients.              *)
(*                                                                         *)
(* The argument for the tree: as long as nothing was crossed, one create   *)
(* is under way at most, and while one is its input is open; the renames   *)
(* under way are those of the input that is open, if it still is.  What    *)
(* the tree remembers as dragged is what the mouse holds.  The target of a *)
(* drop inside stays expanded until somebody closes it.                    *)
(* The argument for the bar: a timer that runs is for the text at hand,    *)
(* and so is the only search, once no timer runs.                          *)
(***************************************************************************)
EXTENDS Sidebar, TLAPS

CallFields == {"n", "op", "id", "target", "inside", "meant", "stage", "ok", "got", "list"}

Shape ==
  /\ DOMAIN ui = {"list", "expanded", "renaming", "typed", "focus", "creating", "dragging"}
  /\ ui.dragging \in Folders \cup {Nothing}
  /\ DOMAIN pointer = {"kind", "id", "lost"} /\ pointer.lost \in BOOLEAN
  /\ pointer.kind = "folder" => pointer.id \in Folders
  /\ DOMAIN past = {"stored", "discarded", "crossed", "lost", "opened", "made"}
  /\ past.opened \in Nat /\ past.made \in Nat
  /\ past.crossed \in BOOLEAN /\ past.lost \in BOOLEAN /\ past.discarded \in BOOLEAN
  /\ ui.typed \in BOOLEAN /\ ui.creating \in BOOLEAN
  /\ \A c \in calls : DOMAIN c = CallFields /\ c.ok \in BOOLEAN /\ c.inside \in BOOLEAN

\* A drop inside a folder that nobody has closed since.
DropsOK ==
  \A c \in calls : c.op = "reorder" /\ c.inside =>
    c.id \in Folders /\ c.target \in Folders /\ c.target \in ui.expanded

\* Folders made, and those that may still be.
CreatesOK ==
  ~past.crossed =>
    /\ past.made <= past.opened
    /\ \A c, d \in calls : c.op = "create" /\ d.op = "create" => c = d
    /\ \A c \in calls : c.op = "create" =>
         ui.creating /\ (c.stage = "change" \/ ~c.ok => past.made < past.opened)
    /\ ui.creating /\ (\A c \in calls : c.op # "create") => past.made < past.opened

RenamesOK ==
  /\ ui.typed => ui.renaming # Nothing
  /\ ~past.crossed => \A c \in calls : c.op = "rename" =>
       /\ ui.renaming \in {Nothing, c.id}
       /\ c.stage # "change" /\ c.ok => c.id \in past.stored

\* Until it is done, nothing has gone wrong with a request.
Ongoing == \A c \in calls : c.stage # "done" => c.ok

Tree == Shape /\ Ongoing /\ DragIsTrue /\ DropsOK /\ CreatesOK /\ RenamesOK /\ TypedIsKept

\* What an answer to a drop must show, in one step.
Reveals ==
  \A c \in calls :
     (/\ c.op = "reorder" /\ c.ok /\ c.got /\ c.inside /\ c.list[c.id] = c.target
      /\ \A d \in calls' : d.n # c.n)
       => (Visible(ui', c.target) => Visible(ui', c.id))

\* Every request goes on, under its number.
GoesOn == \A c \in calls : \E d \in calls' : d.n = c.n

-----------------------------------------------------------------------------
(* Handlers that begin, and the inputs. *)

LEMMA GoesOnReveals == ASSUME GoesOn PROVE Reveals
BY DEF GoesOn, Reveals

LEMMA RequestRenameStep == ASSUME Tree, NEW f \in Folders, RequestRename(f) PROVE Tree' /\ GoesOn
BY DEF Tree, Shape, Ongoing, DragIsTrue, DropsOK, CreatesOK, RenamesOK, TypedIsKept, RequestRename, GoesOn

LEMMA TypeNameStep == ASSUME Tree, TypeName PROVE Tree' /\ GoesOn
BY DEF Tree, Shape, Ongoing, DragIsTrue, DropsOK, CreatesOK, RenamesOK, TypedIsKept, TypeName, GoesOn

LEMMA CommitRenameStep ==
    ASSUME Tree, NEW enter \in BOOLEAN, CommitRename(enter)
    PROVE  Tree' /\ GoesOn
<1> DEFINE h == Handler("rename", ui.renaming, Nothing, FALSE)
<1>1. /\ DOMAIN h = CallFields
      /\ h.op = "rename" /\ h.id = ui.renaming /\ h.inside = FALSE /\ h.stage = "change" /\ h.ok /\ h.ok \in BOOLEAN
    BY DEF Handler, CallFields
<1>2. calls' = calls \cup {h} /\ ui' = [ui EXCEPT !.focus = enter] /\ UNCHANGED <<pointer, past>>
    BY DEF CommitRename
<1> HIDE DEF h
<1>3. Shape' /\ Ongoing' /\ TypedIsKept'
    BY <1>1, <1>2 DEF Tree, Shape, Ongoing, TypedIsKept
<1>4. DragIsTrue' /\ DropsOK'
    BY <1>1, <1>2 DEF Tree, Shape, DragIsTrue, DropsOK
<1>5. CreatesOK'
    BY <1>1, <1>2 DEF Tree, Shape, CreatesOK
<1>6. RenamesOK'
    BY <1>1, <1>2 DEF Tree, Shape, RenamesOK
<1>7. GoesOn
    BY <1>2 DEF GoesOn
<1> QED BY <1>3, <1>4, <1>5, <1>6, <1>7 DEF Tree

LEMMA CancelRenameStep == ASSUME Tree, CancelRename PROVE Tree' /\ GoesOn
BY DEF Tree, Shape, Ongoing, DragIsTrue, DropsOK, CreatesOK, RenamesOK, TypedIsKept, CancelRename, GoesOn

LEMMA RequestDeleteStep == ASSUME Tree, NEW f \in Folders, RequestDelete(f) PROVE Tree' /\ GoesOn
<1> DEFINE h == Handler("delete", f, IF bar.value = f THEN f ELSE Nothing, FALSE)
<1>1. DOMAIN h = CallFields /\ h.op = "delete" /\ h.inside = FALSE /\ h.ok /\ h.ok \in BOOLEAN
    BY DEF Handler, CallFields
<1>2. calls' = calls \cup {h} /\ UNCHANGED <<ui, pointer, past>>
    BY DEF RequestDelete
<1> HIDE DEF h
<1>3. Shape' /\ Ongoing' /\ TypedIsKept'
    BY <1>1, <1>2 DEF Tree, Shape, Ongoing, TypedIsKept
<1>4. DragIsTrue' /\ DropsOK'
    BY <1>1, <1>2 DEF Tree, DragIsTrue, DropsOK
<1>5. CreatesOK'
    BY <1>1, <1>2 DEF Tree, CreatesOK
<1>6. RenamesOK'
    BY <1>1, <1>2 DEF Tree, RenamesOK
<1>7. GoesOn
    BY <1>2 DEF GoesOn
<1> QED BY <1>3, <1>4, <1>5, <1>6, <1>7 DEF Tree

LEMMA StartCreateStep == ASSUME Tree, StartCreate PROVE Tree' /\ GoesOn
BY DEF Tree, Shape, Ongoing, DragIsTrue, DropsOK, CreatesOK, RenamesOK, TypedIsKept, StartCreate, GoesOn

LEMMA SubmitCreateStep ==
    ASSUME Tree, NEW enter \in BOOLEAN, SubmitCreate(enter)
    PROVE  Tree' /\ GoesOn
<1> DEFINE h == Handler("create", Nothing, IF bar.value \in Folders THEN bar.value ELSE Root, FALSE)
<1>1. DOMAIN h = CallFields /\ h.op = "create" /\ h.inside = FALSE /\ h.ok /\ h.ok \in BOOLEAN
    BY DEF Handler, CallFields
<1>2. /\ calls' = calls \cup {h} /\ ui.creating /\ ui' = [ui EXCEPT !.focus = enter]
      /\ past' = [past EXCEPT !.crossed = @ \/ \E c \in calls : c.op = "create"]
      /\ UNCHANGED pointer
    BY DEF SubmitCreate
<1> HIDE DEF h
<1>3. Shape' /\ Ongoing' /\ TypedIsKept'
    BY <1>1, <1>2 DEF Tree, Shape, Ongoing, TypedIsKept
<1>4. DragIsTrue' /\ DropsOK'
    BY <1>1, <1>2 DEF Tree, Shape, DragIsTrue, DropsOK
<1>5. CreatesOK'
    BY <1>1, <1>2 DEF Tree, Shape, CreatesOK
<1>6. RenamesOK'
    BY <1>1, <1>2 DEF Tree, Shape, RenamesOK
<1>7. GoesOn
    BY <1>2 DEF GoesOn
<1> QED BY <1>3, <1>4, <1>5, <1>6, <1>7 DEF Tree

LEMMA CancelCreateStep == ASSUME Tree, CancelCreate PROVE Tree' /\ GoesOn
BY DEF Tree, Shape, Ongoing, DragIsTrue, DropsOK, CreatesOK, RenamesOK, TypedIsKept, CancelCreate, GoesOn

-----------------------------------------------------------------------------
(* Drags. *)

LEMMA DragFolderStep == ASSUME Tree, NEW f \in Folders, DragFolder(f) PROVE Tree' /\ GoesOn
BY DEF Tree, Shape, Ongoing, DragIsTrue, DropsOK, CreatesOK, RenamesOK, TypedIsKept, DragFolder, GoesOn

LEMMA DragNoteStep == ASSUME Tree, DragNote PROVE Tree' /\ GoesOn
BY DEF Tree, Shape, Ongoing, DragIsTrue, DropsOK, CreatesOK, RenamesOK, TypedIsKept, DragNote, Free, NoDrag,
       GoesOn

LEMMA DragEndStep == ASSUME Tree, DragEnd PROVE Tree' /\ GoesOn
BY DEF Tree, Shape, Ongoing, DragIsTrue, DropsOK, CreatesOK, RenamesOK, TypedIsKept, DragEnd, NoDrag, GoesOn

\* A drop of what the mouse holds.
LEMMA ApplyDropStep ==
    ASSUME Tree, NEW STATE d, d \in Folders, NEW STATE parent, NEW inside \in BOOLEAN,
           inside => parent \in Folders, ~past.lost => d = pointer.id,
           ApplyDrop(d, parent, inside), pointer' = NoDrag,
           past' = [past EXCEPT !.lost = @ \/ pointer.lost], pointer.lost \in BOOLEAN
    PROVE  Tree' /\ GoesOn
<1> DEFINE h == Handler("reorder", d, parent, inside)
           u == [ui EXCEPT !.dragging = Nothing]
<1>1. /\ DOMAIN h = CallFields /\ h.op = "reorder" /\ h.id = d /\ h.target = parent
      /\ h.inside = inside /\ h.meant = pointer.id /\ h.ok /\ h.ok \in BOOLEAN
    BY DEF Handler, CallFields
<1>2. \/ ui' = u /\ UNCHANGED calls
      \/ /\ ui' = [u EXCEPT !.expanded = IF inside THEN @ \cup {parent} ELSE @]
         /\ calls' = calls \cup {h}
    BY DEF ApplyDrop
<1> HIDE DEF h
<1>3. CASE ui' = u /\ UNCHANGED calls
    BY <1>3 DEF Tree, Shape, Ongoing, DragIsTrue, DropsOK, CreatesOK, RenamesOK, TypedIsKept, GoesOn, NoDrag
<1>4. CASE /\ ui' = [u EXCEPT !.expanded = IF inside THEN @ \cup {parent} ELSE @]
           /\ calls' = calls \cup {h}
    <2>1. Shape' /\ Ongoing' /\ TypedIsKept'
        BY <1>1, <1>4 DEF Tree, Shape, Ongoing, TypedIsKept, NoDrag
    <2>2. DragIsTrue'
        BY <1>1, <1>4 DEF Tree, Shape, DragIsTrue
    <2>3. DropsOK'
        BY <1>1, <1>4 DEF Tree, Shape, DropsOK
    <2>4. CreatesOK'
        BY <1>1, <1>4 DEF Tree, Shape, CreatesOK
    <2>5. RenamesOK'
        BY <1>1, <1>4 DEF Tree, Shape, RenamesOK
    <2>6. GoesOn
        BY <1>4 DEF GoesOn
    <2> QED BY <2>1, <2>2, <2>3, <2>4, <2>5, <2>6 DEF Tree
<1> QED BY <1>2, <1>3, <1>4

LEMMA ZoneDropStep ==
    ASSUME Tree, NEW f \in Folders, NEW inside \in BOOLEAN, ZoneDrop(f, inside)
    PROVE  Tree' /\ GoesOn
<1> DEFINE d == IF pointer.kind = "folder" THEN pointer.id ELSE ui.dragging
           parent == IF inside THEN f ELSE ui.list[f]
<1>1. ui.dragging # Nothing
    BY DEF ZoneDrop, Zoned
<1>2. d \in Folders /\ (~past.lost => d = pointer.id)
    BY <1>1 DEF Tree, Shape, Ongoing, DragIsTrue
<1>3. /\ ApplyDrop(d, parent, inside) /\ pointer' = NoDrag
      /\ past' = [past EXCEPT !.lost = @ \/ pointer.lost]
    BY DEF ZoneDrop
<1>4. inside => parent \in Folders
    OBVIOUS
<1>5. pointer.lost \in BOOLEAN
    BY DEF Tree, Shape
<1> HIDE DEF d, parent
<1> QED BY <1>2, <1>3, <1>4, <1>5, ApplyDropStep

LEMMA RootDropStep == ASSUME Tree, RootDrop PROVE Tree' /\ GoesOn
<1>1. pointer.id \in Folders /\ pointer.lost \in BOOLEAN
    BY DEF RootDrop, Tree, Shape
<1>2. /\ ApplyDrop(pointer.id, Root, FALSE) /\ pointer' = NoDrag
      /\ past' = [past EXCEPT !.lost = @ \/ pointer.lost]
    BY DEF RootDrop
<1> QED BY <1>1, <1>2, ApplyDropStep

LEMMA NoteDropStep ==
    ASSUME Tree, NEW f, NoteDrop(f)
    PROVE  Tree' /\ GoesOn
<1> DEFINE h == Handler("file", Nothing, f, FALSE)
<1>1. DOMAIN h = CallFields /\ h.op = "file" /\ h.inside = FALSE /\ h.ok /\ h.ok \in BOOLEAN
    BY DEF Handler, CallFields
<1>2. calls' = calls \cup {h} /\ UNCHANGED <<ui, past>> /\ pointer.kind = "note" /\ pointer' = NoDrag
    BY DEF NoteDrop
<1> HIDE DEF h
<1>3. Shape' /\ Ongoing' /\ TypedIsKept'
    BY <1>1, <1>2 DEF Tree, Shape, Ongoing, TypedIsKept, NoDrag
<1>4. DragIsTrue' /\ DropsOK'
    BY <1>1, <1>2 DEF Tree, Shape, DragIsTrue, DropsOK
<1>5. CreatesOK'
    BY <1>1, <1>2 DEF Tree, Shape, CreatesOK
<1>6. RenamesOK'
    BY <1>1, <1>2 DEF Tree, Shape, RenamesOK
<1>7. GoesOn
    BY <1>2 DEF GoesOn
<1> QED BY <1>3, <1>4, <1>5, <1>6, <1>7 DEF Tree

-----------------------------------------------------------------------------
(* Rows that open and close, and requests that go on. *)

\* What a new state of the tree leaves alone, and what becomes of the inputs.
LEMMA Shown ==
    ASSUME Tree, NEW STATE u, Show(u), DOMAIN u = DOMAIN ui, u.typed \in BOOLEAN
    PROVE  /\ DOMAIN ui' = DOMAIN ui
           /\ ui'.list = u.list /\ ui'.expanded = u.expanded /\ ui'.renaming = u.renaming
           /\ ui'.creating = u.creating /\ ui'.dragging = u.dragging
           /\ ui'.typed \in BOOLEAN /\ (ui'.typed => u.typed)
           /\ u.typed /\ ~ui'.typed => Hidden(u)
           /\ Hidden(u) <=> Hidden(ui')
           /\ DOMAIN pointer' = DOMAIN pointer
           /\ pointer'.kind = pointer.kind /\ pointer'.id = pointer.id /\ pointer'.lost \in BOOLEAN
<1>1. /\ DOMAIN ui' = DOMAIN ui
      /\ ui'.list = u.list /\ ui'.expanded = u.expanded /\ ui'.renaming = u.renaming
      /\ ui'.creating = u.creating /\ ui'.dragging = u.dragging
      /\ ui'.typed \in BOOLEAN /\ (ui'.typed => u.typed)
      /\ u.typed /\ ~ui'.typed => Hidden(u)
    BY DEF Tree, Shape, Show
<1>2. Hidden(u) <=> Hidden(ui')
    BY <1>1 DEF Hidden, Visible
<1>3. /\ DOMAIN pointer' = DOMAIN pointer
      /\ pointer'.kind = pointer.kind /\ pointer'.id = pointer.id /\ pointer'.lost \in BOOLEAN
    BY DEF Tree, Shape, Show
<1> QED BY <1>1, <1>2, <1>3

LEMMA ToggleStep == ASSUME Tree, NEW f \in Folders, Toggle(f) PROVE Tree' /\ GoesOn
<1> DEFINE u == Toggled(ui, f)
           Closed(c) == IF c.target = f THEN [c EXCEPT !.inside = FALSE] ELSE c
<1>1. /\ DOMAIN u = DOMAIN ui /\ u.typed = ui.typed /\ u.renaming = ui.renaming
      /\ u.creating = ui.creating /\ u.dragging = ui.dragging
      /\ ui.expanded \ {f} \subseteq u.expanded
    BY DEF Tree, Shape, Toggled
<1>2. Show(u) /\ UNCHANGED <<rows, bar>>
    BY DEF Toggle, barVars
<1>3. calls' = {Closed(c) : c \in calls} /\ past' = [past EXCEPT !.crossed = @ \/ Hidden(ui')]
    BY DEF Toggle
<1>4. \A c \in calls :
        /\ DOMAIN Closed(c) = CallFields /\ Closed(c).inside \in BOOLEAN
        /\ Closed(c).inside => c.inside /\ c.target # f
        /\ Closed(c).n = c.n /\ Closed(c).op = c.op /\ Closed(c).id = c.id
        /\ Closed(c).target = c.target /\ Closed(c).meant = c.meant
        /\ Closed(c).stage = c.stage /\ Closed(c).ok = c.ok
    BY DEF Tree, Shape, CallFields
<1> HIDE DEF u, Closed
<1>5. /\ DOMAIN ui' = DOMAIN ui /\ ui'.expanded = u.expanded /\ ui'.renaming = u.renaming
      /\ ui'.creating = u.creating /\ ui'.dragging = u.dragging
      /\ ui'.typed \in BOOLEAN /\ (ui'.typed => u.typed)
      /\ DOMAIN pointer' = DOMAIN pointer
      /\ pointer'.kind = pointer.kind /\ pointer'.id = pointer.id /\ pointer'.lost \in BOOLEAN
    BY <1>1, <1>2, Shown DEF Tree, Shape
<1>6. Hidden(ui') \in BOOLEAN
    BY DEF Hidden
<1>7. /\ DOMAIN past' = DOMAIN past /\ past'.stored = past.stored /\ past'.discarded = past.discarded
      /\ past'.lost = past.lost /\ past'.opened = past.opened /\ past'.made = past.made
      /\ past'.crossed \in BOOLEAN /\ (past.crossed => past'.crossed)
    BY <1>3, <1>6 DEF Tree, Shape
<1>8. Shape' /\ Ongoing' /\ DragIsTrue' /\ DropsOK'
    BY <1>1, <1>3, <1>4, <1>5, <1>7 DEF Tree, Shape, Ongoing, DragIsTrue, DropsOK
<1>9. CreatesOK'
    BY <1>1, <1>3, <1>4, <1>5, <1>7 DEF Tree, Shape, CreatesOK
<1>10. RenamesOK' /\ TypedIsKept'
    BY <1>1, <1>3, <1>4, <1>5, <1>7 DEF Tree, Shape, RenamesOK, TypedIsKept
<1>11. GoesOn
    BY <1>3, <1>4 DEF GoesOn
<1> QED BY <1>8, <1>9, <1>10, <1>11 DEF Tree

LEMMA ChangeStep == ASSUME Tree, NEW c \in calls, Change(c) PROVE Tree' /\ GoesOn
<1>1. CASE After(c) = {}
    <2> DEFINE d == [c EXCEPT !.stage = "done", !.ok = FALSE]
    <2>1. calls' = (calls \ {c}) \cup {d} /\ c.stage = "change" /\ UNCHANGED <<ui, pointer, past>>
        BY <1>1 DEF Change, Becomes
    <2>2. /\ DOMAIN d = CallFields /\ d.n = c.n /\ d.op = c.op /\ d.id = c.id /\ d.target = c.target
          /\ d.inside = c.inside /\ d.meant = c.meant /\ ~d.ok /\ d.ok \in BOOLEAN /\ d.stage = "done"
        BY DEF Tree, Shape, CallFields
    <2> HIDE DEF d
    <2>3. Shape' /\ Ongoing' /\ DragIsTrue' /\ DropsOK' /\ GoesOn
        BY <2>1, <2>2 DEF Tree, Shape, Ongoing, DragIsTrue, DropsOK, GoesOn
    <2>4. CreatesOK'
        BY <2>1, <2>2 DEF Tree, Shape, CreatesOK
    <2>5. RenamesOK' /\ TypedIsKept'
        BY <2>1, <2>2 DEF Tree, Shape, RenamesOK, TypedIsKept
    <2> QED BY <2>3, <2>4, <2>5 DEF Tree
<1>2. CASE After(c) # {}
    <2> DEFINE d == [c EXCEPT !.stage = IF c.op = "file" THEN "done" ELSE "fetch"]
    <2>1. /\ calls' = (calls \ {c}) \cup {d}
          /\ c.stage = "change" /\ UNCHANGED <<ui, pointer>>
          /\ past' = [past EXCEPT !.stored = IF c.op = "rename" THEN @ \cup {c.id} ELSE @,
                                  !.made = IF c.op = "create" THEN @ + 1 ELSE @]
        BY <1>2 DEF Change, Becomes
    <2>2. /\ DOMAIN d = CallFields /\ d.n = c.n /\ d.op = c.op /\ d.id = c.id /\ d.target = c.target
          /\ d.inside = c.inside /\ d.meant = c.meant /\ d.ok = c.ok /\ d.stage \in {"fetch", "done"}
        BY DEF Tree, Shape, CallFields
    <2> HIDE DEF d
    <2>3. Shape' /\ Ongoing' /\ DragIsTrue' /\ DropsOK' /\ GoesOn
        BY <2>1, <2>2 DEF Tree, Shape, Ongoing, DragIsTrue, DropsOK, GoesOn
    <2>4. CreatesOK'
        <3>1. CASE c.op = "create"
            BY <2>1, <2>2, <3>1 DEF Tree, Shape, Ongoing, CreatesOK
        <3>2. CASE c.op # "create"
            BY <2>1, <2>2, <3>2 DEF Tree, Shape, CreatesOK
        <3> QED BY <3>1, <3>2
    <2>5. RenamesOK' /\ TypedIsKept'
        BY <2>1, <2>2 DEF Tree, Shape, RenamesOK, TypedIsKept
    <2> QED BY <2>3, <2>4, <2>5 DEF Tree
<1> QED BY <1>1, <1>2

LEMMA FetchStep == ASSUME Tree, NEW c \in calls, Fetch(c) PROVE Tree' /\ GoesOn
<1> DEFINE d == [c EXCEPT !.stage = "done", !.got = TRUE, !.list = rows.parent]
<1>1. calls' = (calls \ {c}) \cup {d} /\ c.stage = "fetch" /\ UNCHANGED <<ui, pointer, past>>
    BY DEF Fetch, Becomes
<1>2. /\ DOMAIN d = CallFields /\ d.n = c.n /\ d.op = c.op /\ d.id = c.id /\ d.target = c.target
      /\ d.inside = c.inside /\ d.meant = c.meant /\ d.ok = c.ok /\ d.stage = "done"
    BY DEF Tree, Shape, CallFields
<1> HIDE DEF d
<1> QED
    BY <1>1, <1>2 DEF Tree, Shape, Ongoing, DragIsTrue, DropsOK, CreatesOK, RenamesOK, TypedIsKept, GoesOn

LEMMA FailStep == ASSUME Tree, NEW c \in calls, Fail(c) PROVE Tree' /\ GoesOn
<1>1. UNCHANGED <<ui, pointer>> /\ c.stage \in {"change", "fetch"}
      /\ past' = [past EXCEPT !.crossed = @ \/ (c.stage = "fetch" /\ c.op = "create")]
    BY DEF Fail
<1>2. PICK d : /\ calls' = (calls \ {c}) \cup {d}
               /\ DOMAIN d = CallFields /\ d.n = c.n /\ d.op = c.op /\ d.id = c.id
               /\ d.target = c.target /\ d.inside = c.inside /\ d.meant = c.meant /\ d.stage = "done"
               /\ d.ok \in BOOLEAN /\ (d.ok => c.ok /\ c.stage = "fetch")
    <2> DEFINE lost == [c EXCEPT !.stage = "done", !.ok = FALSE]
               unfetched == [c EXCEPT !.stage = "done"]
    <2>1. /\ DOMAIN lost = CallFields /\ lost.n = c.n /\ lost.op = c.op /\ lost.id = c.id
          /\ lost.target = c.target /\ lost.inside = c.inside /\ lost.meant = c.meant
          /\ lost.stage = "done" /\ lost.ok = FALSE
        BY DEF Tree, Shape, CallFields
    <2>2. /\ DOMAIN unfetched = CallFields /\ unfetched.n = c.n /\ unfetched.op = c.op
          /\ unfetched.id = c.id /\ unfetched.target = c.target /\ unfetched.inside = c.inside
          /\ unfetched.meant = c.meant /\ unfetched.stage = "done" /\ unfetched.ok = c.ok
        BY DEF Tree, Shape, CallFields
    <2>3. \/ calls' = (calls \ {c}) \cup {lost}
          \/ c.stage = "fetch" /\ calls' = (calls \ {c}) \cup {unfetched}
        BY DEF Fail, Becomes
    <2>4. c.ok \in BOOLEAN
        BY DEF Tree, Shape
    <2> HIDE DEF lost, unfetched
    <2>5. CASE calls' = (calls \ {c}) \cup {lost}
        BY <2>1, <2>5
    <2>6. CASE c.stage = "fetch" /\ calls' = (calls \ {c}) \cup {unfetched}
        BY <2>2, <2>4, <2>6
    <2> QED BY <2>3, <2>5, <2>6
<1>3. Shape' /\ DragIsTrue' /\ DropsOK' /\ Ongoing' /\ GoesOn
    BY <1>1, <1>2 DEF Tree, Shape, Ongoing, DragIsTrue, DropsOK, GoesOn
<1>4. CreatesOK'
    BY <1>1, <1>2 DEF Tree, Shape, CreatesOK
<1>5. RenamesOK' /\ TypedIsKept'
    BY <1>1, <1>2 DEF Tree, Shape, RenamesOK, TypedIsKept
<1> QED BY <1>3, <1>4, <1>5 DEF Tree

-----------------------------------------------------------------------------
(* Answers. *)

\* What is in an expanded folder is visible where that folder is: whatever is
\* above it is above the folder, or the folder itself.
LEMMA InExpandedVisible ==
    ASSUME NEW u, NEW f \in Folders, NEW t \in Folders,
           u.list[f] = t, t \in u.expanded, Visible(u, t)
    PROVE  Visible(u, f)
<1>1. Known(u.list, f)
    BY SidebarAssumption DEF Known
<1>2. SUFFICES ASSUME NEW g \in Folders \ {f}, IsDescendant(u.list, g, f), g # t
               PROVE  g \in u.expanded
    BY <1>1 DEF Visible
<1>3. IsDescendant(u.list, g, t)
    <2> SUFFICES ASSUME NEW S \in SUBSET Folders, t \in S,
                        \A h \in S : Known(u.list, u.list[h]) => u.list[h] \in S
                 PROVE  g \in S
        BY DEF IsDescendant
    <2>1. \A h \in S \cup {f} : Known(u.list, u.list[h]) => u.list[h] \in S \cup {f}
        OBVIOUS
    <2>2. g \in S \cup {f}
        BY <1>2, <2>1 DEF IsDescendant
    <2> QED BY <1>2, <2>2
<1> QED BY <1>2, <1>3 DEF Visible

LEMMA QuietAnswerStep ==
    ASSUME Tree, NEW c \in calls, c.stage = "done", ~c.ok \/ c.op = "file",
           calls' = calls \ {c}, UNCHANGED <<ui, pointer, past>>
    PROVE  Tree' /\ Reveals
<1>1. Shape' /\ Ongoing' /\ DragIsTrue' /\ DropsOK'
    BY DEF Tree, Shape, Ongoing, DragIsTrue, DropsOK
<1>2. CreatesOK'
    BY DEF Tree, Shape, CreatesOK
<1>3. RenamesOK' /\ TypedIsKept'
    BY DEF Tree, Shape, RenamesOK, TypedIsKept
<1>4. Reveals
    BY DEF Reveals
<1> QED BY <1>1, <1>2, <1>3, <1>4 DEF Tree

LEMMA ShownAnswerStep ==
    ASSUME Tree, NEW c \in calls, c.stage = "done", c.ok, c.op # "file", calls' = calls \ {c},
           Show(Afterwards(c, [ui EXCEPT !.list = IF c.got THEN c.list ELSE @])),
           past' = [past EXCEPT !.crossed = @ \/ Hidden(ui'), !.discarded = @ \/
                      (ui.typed /\ ~ui'.typed /\ ui.renaming \notin past.stored)]
    PROVE  Tree' /\ Reveals
<1> DEFINE u == Afterwards(c, [ui EXCEPT !.list = IF c.got THEN c.list ELSE @])
<1>1. /\ DOMAIN u = DOMAIN ui /\ u.typed \in BOOLEAN /\ u.creating \in BOOLEAN
      /\ u.expanded = ui.expanded /\ u.dragging = ui.dragging
      /\ c.got => u.list = c.list
    BY DEF Tree, Shape, Afterwards
<1>2. /\ u.renaming = IF c.op = "rename" THEN Nothing ELSE ui.renaming
      /\ u.typed = IF c.op = "rename" THEN FALSE ELSE ui.typed
      /\ u.creating = IF c.op = "create" THEN FALSE ELSE ui.creating
    BY DEF Tree, Shape, Afterwards
<1> HIDE DEF u
<1>3. /\ DOMAIN ui' = DOMAIN ui
      /\ ui'.list = u.list /\ ui'.expanded = u.expanded /\ ui'.renaming = u.renaming
      /\ ui'.creating = u.creating /\ ui'.dragging = u.dragging
      /\ ui'.typed \in BOOLEAN /\ (ui'.typed => u.typed)
      /\ u.typed /\ ~ui'.typed => Hidden(ui')
      /\ DOMAIN pointer' = DOMAIN pointer
      /\ pointer'.kind = pointer.kind /\ pointer'.id = pointer.id /\ pointer'.lost \in BOOLEAN
    BY <1>1, Shown DEF u
<1>4. Hidden(ui') \in BOOLEAN
    BY DEF Hidden
<1>5. /\ DOMAIN past' = DOMAIN past /\ past'.stored = past.stored
      /\ past'.lost = past.lost /\ past'.opened = past.opened /\ past'.made = past.made
      /\ past'.crossed \in BOOLEAN /\ (past'.crossed <=> past.crossed \/ Hidden(ui'))
      /\ past'.discarded \in BOOLEAN
      /\ past'.discarded <=> (past.discarded \/ (ui.typed /\ ~ui'.typed /\ ui.renaming \notin past.stored))
    BY <1>4 DEF Tree, Shape
<1>6. Shape' /\ Ongoing' /\ DragIsTrue' /\ DropsOK'
    <2>1. Shape'
        BY <1>1, <1>3, <1>5 DEF Tree, Shape
    <2>2. Ongoing' /\ DropsOK'
        BY <1>1, <1>3 DEF Tree, Ongoing, DropsOK
    <2>3. DragIsTrue'
        BY <1>1, <1>3, <1>5 DEF Tree, DragIsTrue
    <2> QED BY <2>1, <2>2, <2>3
<1>7. CreatesOK'
    BY <1>2, <1>3, <1>5 DEF Tree, Shape, CreatesOK
<1>8. RenamesOK'
    BY <1>2, <1>3, <1>5 DEF Tree, Shape, RenamesOK
<1>9. TypedIsKept'
    <2> SUFFICES ASSUME ui.typed, ~ui'.typed, ui.renaming \notin past.stored, ~past.crossed
                 PROVE  Hidden(ui')
        BY <1>5 DEF Tree, TypedIsKept
    <2>1. c.op # "rename"
        BY DEF Tree, RenamesOK
    <2> QED BY <1>2, <1>3, <2>1
<1>10. Reveals
    <2> SUFFICES ASSUME c.op = "reorder", c.got, c.inside, c.list[c.id] = c.target,
                        Visible(ui', c.target)
                 PROVE  Visible(ui', c.id)
        BY DEF Reveals
    <2>1. c.id \in Folders /\ c.target \in Folders /\ c.target \in ui'.expanded
        BY <1>1, <1>3 DEF Tree, DropsOK
    <2>2. ui'.list[c.id] = c.target
        BY <1>1, <1>3
    <2> QED BY <2>1, <2>2, InExpandedVisible
<1> QED BY <1>6, <1>7, <1>8, <1>9, <1>10 DEF Tree

LEMMA AnswerStep == ASSUME Tree, NEW c \in calls, Answer(c) PROVE Tree' /\ Reveals
<1>1. c.stage = "done" /\ calls' = calls \ {c}
    BY DEF Answer
<1>2. CASE ~c.ok \/ c.op = "file"
    BY <1>1, <1>2, QuietAnswerStep DEF Answer
<1>3. CASE c.ok /\ c.op # "file"
    <2>1. /\ Show(Afterwards(c, [ui EXCEPT !.list = IF c.got THEN c.list ELSE @]))
          /\ past' = [past EXCEPT !.crossed = @ \/ Hidden(ui'), !.discarded = @ \/
                         (ui.typed /\ ~ui'.typed /\ ui.renaming \notin past.stored)]
        BY <1>3 DEF Answer
    <2> QED BY <1>1, <1>3, <2>1, ShownAnswerStep
<1> QED BY <1>2, <1>3

-----------------------------------------------------------------------------
(* The bar. *)

BarOK ==
  /\ DOMAIN bar = {"value", "open", "hits", "busy", "timer"}
  /\ bar.busy \in BOOLEAN /\ overlapped \in BOOLEAN
  /\ bar.value \in Texts /\ bar.timer # Nothing => bar.timer = bar.value
  /\ ~overlapped =>
       /\ bar.busy <=> searches # {}
       /\ \A s, t \in searches : s = t
       /\ bar.value \in Texts /\ bar.timer = Nothing =>
            /\ \A s \in searches : s.q = bar.value
            /\ searches = {} => bar.hits \in {Nothing, bar.value}

LEMMA TypeStep == ASSUME BarOK, NEW v, Type(v) PROVE BarOK'
BY CommandBarAssumption DEF BarOK, Type, Input

LEMMA FireStep == ASSUME BarOK, Fire PROVE BarOK'
<1>1. CASE bar.timer \in Texts
    <2> DEFINE s == [n |-> Unused(searches), q |-> bar.timer]
    <2>1. /\ bar' = [bar EXCEPT !.timer = Nothing, !.busy = TRUE]
          /\ searches' = searches \cup {s} /\ overlapped' = (searches # {})
          /\ s.q = bar.timer /\ bar.timer # Nothing
        BY <1>1 DEF Fire
    <2> HIDE DEF s
    <2>2. overlapped' \in BOOLEAN
        BY <2>1
    <2> QED BY <2>1, <2>2 DEF BarOK
<1>2. CASE bar.timer \notin Texts
    BY <1>2 DEF BarOK, Fire, Input
<1> QED BY <1>1, <1>2

LEMMA SearchAnswerStep ==
    ASSUME BarOK, NEW s \in searches, NEW ok \in BOOLEAN, SearchAnswer(s, ok)
    PROVE  BarOK'
BY DEF BarOK, SearchAnswer

\* The text is replaced by one that is not searched for, or the hits go.
LEMMA OtherInputStep ==
    ASSUME BarOK,
           \/ \E f \in Folders : ApplyFolder(f) \/ Follow(f)
           \/ OpenHit \/ Clear \/ Close
           \/ Input([bar EXCEPT !.value = Nothing])
    PROVE  BarOK'
<1>1. ASSUME NEW f \in Folders, ApplyFolder(f) PROVE BarOK'
    <2>1. f \notin Texts
        BY CommandBarAssumption
    <2> QED BY <1>1, <2>1 DEF BarOK, ApplyFolder, Input
<1>2. ASSUME NEW f \in Folders, Follow(f) PROVE BarOK'
    <2>1. f \notin Texts
        BY CommandBarAssumption
    <2> QED BY <1>2, <2>1 DEF BarOK, Follow, Input
<1>3. CASE OpenHit
    BY <1>3 DEF BarOK, OpenHit, Input
<1>4. CASE Clear \/ Input([bar EXCEPT !.value = Nothing])
    BY <1>4, CommandBarAssumption DEF BarOK, Clear, Input
<1>5. CASE Close
    BY <1>5 DEF BarOK, Close, Input
<1> QED BY <1>1, <1>2, <1>3, <1>4, <1>5

LEMMA BarSteady == ASSUME BarOK, UNCHANGED barVars PROVE BarOK'
BY DEF BarOK, barVars

LEMMA TreeSteady == ASSUME Tree, UNCHANGED tree PROVE Tree' /\ GoesOn
BY DEF tree, Tree, Shape, Ongoing, DragIsTrue, DropsOK, CreatesOK, RenamesOK, TypedIsKept, GoesOn

-----------------------------------------------------------------------------
(* Every step. *)

Inv == Tree /\ BarOK

LEMMA InitInv == Init => Inv
<1> SUFFICES ASSUME Init PROVE Inv
    OBVIOUS
<1>1. BarOK
    BY DEF Init, BarInit, BarOK
<1>2. Shape
    BY DEF Init, Shape, NoDrag
<1>3. Ongoing /\ DragIsTrue /\ DropsOK /\ CreatesOK /\ RenamesOK /\ TypedIsKept
    BY DEF Init, Ongoing, DragIsTrue, DropsOK, CreatesOK, RenamesOK, TypedIsKept, NoDrag
<1> QED BY <1>1, <1>2, <1>3 DEF Inv, Tree

LEMMA BarActsStep == ASSUME Inv, BarActs PROVE Inv' /\ GoesOn
<1>1. UNCHANGED tree
    BY DEF BarActs
<1>2. BarOK'
    <2>1. CASE \E v : Type(v)
        BY <2>1, TypeStep DEF Inv
    <2>2. CASE Fire
        BY <2>2, FireStep DEF Inv
    <2>3. CASE \E s \in searches, ok \in BOOLEAN : SearchAnswer(s, ok)
        BY <2>3, SearchAnswerStep DEF Inv
    <2>4. CASE (\E f \in Folders : ApplyFolder(f)) \/ OpenHit \/ Clear \/ Close
        BY <2>4, OtherInputStep DEF Inv
    <2> QED BY <2>1, <2>2, <2>3, <2>4 DEF BarActs
<1> QED BY <1>1, <1>2, TreeSteady DEF Inv

LEMMA NextStep == Inv /\ [Next]_vars => Inv' /\ Reveals
<1> SUFFICES ASSUME Inv, [Next]_vars PROVE Inv' /\ Reveals
    OBVIOUS
<1>1. CASE UNCHANGED vars
    BY <1>1, BarSteady, TreeSteady, GoesOnReveals DEF Inv, vars, barVars, tree
<1>2. ASSUME NEW f \in Folders, Toggle(f) PROVE Inv' /\ Reveals
    BY <1>2, ToggleStep, BarSteady, GoesOnReveals DEF Inv, Toggle
<1>3. ASSUME NEW f \in Folders, Select(f) PROVE Inv' /\ Reveals
    BY <1>3, OtherInputStep, TreeSteady, GoesOnReveals DEF Inv, Select
<1>4. ASSUME NEW f \in Folders, RequestRename(f) PROVE Inv' /\ Reveals
    BY <1>4, RequestRenameStep, BarSteady, GoesOnReveals DEF Inv, RequestRename
<1>5. ASSUME NEW f \in Folders, RequestDelete(f) PROVE Inv' /\ Reveals
    BY <1>5, RequestDeleteStep, BarSteady, GoesOnReveals DEF Inv, RequestDelete
<1>6. ASSUME NEW f \in Folders, DragFolder(f) PROVE Inv' /\ Reveals
    BY <1>6, DragFolderStep, BarSteady, GoesOnReveals DEF Inv, DragFolder
<1>7. ASSUME NEW enter \in BOOLEAN, CommitRename(enter) PROVE Inv' /\ Reveals
    BY <1>7, CommitRenameStep, BarSteady, GoesOnReveals DEF Inv, CommitRename
<1>8. ASSUME NEW enter \in BOOLEAN, SubmitCreate(enter) PROVE Inv' /\ Reveals
    BY <1>8, SubmitCreateStep, BarSteady, GoesOnReveals DEF Inv, SubmitCreate
<1>9. CASE TypeName
    BY <1>9, TypeNameStep, BarSteady, GoesOnReveals DEF Inv, TypeName
<1>10. CASE CancelRename
    BY <1>10, CancelRenameStep, BarSteady, GoesOnReveals DEF Inv, CancelRename
<1>11. CASE StartCreate
    BY <1>11, StartCreateStep, BarSteady, GoesOnReveals DEF Inv, StartCreate
<1>12. CASE CancelCreate
    BY <1>12, CancelCreateStep, BarSteady, GoesOnReveals DEF Inv, CancelCreate
<1>13. CASE DragNote
    BY <1>13, DragNoteStep, BarSteady, GoesOnReveals DEF Inv, DragNote
<1>14. CASE DragEnd
    BY <1>14, DragEndStep, BarSteady, GoesOnReveals DEF Inv, DragEnd
<1>15. CASE RootDrop
    BY <1>15, RootDropStep, BarSteady, GoesOnReveals DEF Inv, RootDrop
<1>16. ASSUME NEW f, NoteDrop(f) PROVE Inv' /\ Reveals
    BY <1>16, NoteDropStep, BarSteady, GoesOnReveals DEF Inv, NoteDrop
<1>17. ASSUME NEW f \in Folders, NEW inside \in BOOLEAN, ZoneDrop(f, inside) PROVE Inv' /\ Reveals
    BY <1>17, ZoneDropStep, BarSteady, GoesOnReveals DEF Inv, ZoneDrop
<1>18. ASSUME NEW c \in calls, Change(c) PROVE Inv' /\ Reveals
    BY <1>18, ChangeStep, BarSteady, GoesOnReveals DEF Inv, Change
<1>19. ASSUME NEW c \in calls, Fetch(c) PROVE Inv' /\ Reveals
    BY <1>19, FetchStep, BarSteady, GoesOnReveals DEF Inv, Fetch
<1>20. ASSUME NEW c \in calls, Answer(c) PROVE Inv' /\ Reveals
    BY <1>20, AnswerStep, OtherInputStep, BarSteady DEF Inv, Answer
<1>21. ASSUME NEW c \in calls, Fail(c) PROVE Inv' /\ Reveals
    BY <1>21, FailStep, BarSteady, GoesOnReveals DEF Inv, Fail
<1>22. ASSUME NEW f, NEW p, Elsewhere(f, p) PROVE Inv' /\ Reveals
    <2>1. UNCHANGED <<ui, pointer, calls, past>> /\ UNCHANGED barVars
        BY <1>22 DEF Elsewhere
    <2>2. Tree' /\ GoesOn
        BY <2>1 DEF Inv, Tree, Shape, Ongoing, DragIsTrue, DropsOK, CreatesOK, RenamesOK, TypedIsKept, GoesOn
    <2> QED BY <2>1, <2>2, BarSteady, GoesOnReveals DEF Inv
<1>23. CASE BarActs
    BY <1>23, BarActsStep, GoesOnReveals
<1>24. CASE Next
    BY <1>24, <1>2, <1>3, <1>4, <1>5, <1>6, <1>7, <1>8, <1>9, <1>10, <1>11, <1>12, <1>13, <1>14,
       <1>15, <1>16, <1>17, <1>18, <1>19, <1>20, <1>21, <1>22, <1>23 DEF Next
<1> QED BY <1>1, <1>24

LEMMA Invariant == Spec => []Inv
<1>1. Inv /\ [Next]_vars => Inv'
    BY NextStep
<1> QED BY InitInv, <1>1, PTL DEF Spec

\* A drop moves what the mouse holds, unless a dragged row has left the page
\* (FolderTree.tsx:265-353).
THEOREM DropsMoveTheDragged == Spec => []DragIsTrue
<1>1. Inv => DragIsTrue
    BY DEF Inv, Tree
<1> QED BY <1>1, Invariant, PTL

\* A typed name is stored before its input closes (FolderTree.tsx:128-142).
THEOREM NamesAreKept == Spec => []TypedIsKept
<1>1. Inv => TypedIsKept
    BY DEF Inv, Tree
<1> QED BY <1>1, Invariant, PTL

\* One input makes one folder (Sidebar/index.tsx:85-101).
THEOREM OneFolderEach == Spec => []CreatedOnce
<1>1. Inv => CreatedOnce
    BY DEF Inv, Tree, Shape, CreatesOK, CreatedOnce
<1> QED BY <1>1, Invariant, PTL

\* Hits at rest are those of the text in the input (CommandBar.tsx:67-119).
THEOREM HitsMatchText == Spec => []SettledBarIsAccurate
<1>1. Inv => SettledBarIsAccurate
    BY DEF Inv, BarOK, SettledBarIsAccurate, ShowsHits
<1> QED BY <1>1, Invariant, PTL

\* A folder dropped into another one is in sight with it (FolderTree.tsx:180-184).
THEOREM DropsAreRevealed == Spec => DroppedIsRevealed
<1>1. Inv /\ [Next]_vars => [Reveals]_vars
    BY NextStep
<1>2. [Reveals]_vars <=>
        [\A c \in calls :
           (/\ c.op = "reorder" /\ c.ok /\ c.got /\ c.inside /\ c.list[c.id] = c.target
            /\ \A d \in calls' : d.n # c.n)
             => (Visible(ui', c.target) => Visible(ui', c.id))]_vars
    BY DEF Reveals
<1> QED BY <1>1, <1>2, Invariant, PTL DEF Spec, DroppedIsRevealed
=============================================================================
