-------------------------- MODULE NotesShellProofs --------------------------
(***************************************************************************)
(* NotesShell implements Latest, twice: proofs for any notes and folders   *)
(* and any number of handlers, failures and overtaking answers.            *)
(*                                                                         *)
(* The argument: of each of the two kinds of request the live ones carry   *)
(* different numbers, none above the counter of their kind.  So the answer *)
(* to the newest request comes once, "loading" is on until it does, and no *)
(* other answer passes the comparison of numbers.  Nothing is needed of    *)
(* the rows, nor of what the requests carry.                               *)
(*                                                                         *)
(* That a list at rest is the server's needs both.  What the newest fetch  *)
(* of a list brings, under way or shown, is what the rows have, unless the *)
(* list was changed since by somebody else (foreign) or by a request whose *)
(* answer is still to come; and that answer starts a fetch with a newer    *)
(* number.  A number under way is never the number shown, so "shown is     *)
(* newest" means that the newest fetch has been answered.                  *)
(***************************************************************************)
EXTENDS NotesShell, TLAPS

\* What the argument needs to know of the shape of a shell and of a request.
IsUI(u) ==
    /\ {"path", "folders", "notes", "pending", "req", "listOf", "listFor", "shared", "sharedReq",
        "sharedOf", "foldersReq", "foldersOf", "acts", "going"} \subseteq DOMAIN u
    /\ u.req \in Nat /\ u.sharedReq \in Nat /\ u.acts \in Nat /\ u.foldersReq \in Nat
    /\ u.pending \in BOOLEAN

IsCall(c) ==
    /\ {"op", "n", "live", "stage"} \subseteq DOMAIN c
    /\ c.n \in Nat /\ c.live \in BOOLEAN
    /\ c.stage = "done" => c.live

Within(u, c) ==
    /\ c.op = "list" => c.n <= u.req
    /\ c.op = "shared" => c.n <= u.sharedReq

Numbered(u, cs) ==
    /\ IsUI(u)
    /\ \A c \in cs : IsCall(c) /\ (c.live => Within(u, c))
    /\ \A c, d \in cs :
         c.live /\ d.live /\ c.op = d.op /\ c.n = d.n /\ c.op \in {"list", "shared"} => c = d

ListWaits(u, cs) == \E c \in cs : c.live /\ c.op = "list" /\ c.n = u.req
SharedOut(u, cs) == \E c \in cs : c.live /\ c.op = "shared" /\ c.n = u.sharedReq

Sound(u, cs) == Numbered(u, cs) /\ (u.pending <=> ListWaits(u, cs))

Inv == Sound(ui, calls)

\* A step of the abstract list, or none.
OwnStep == OwnList!LatestNext \/ UNCHANGED OwnList!view
SharedStep == SharedList!LatestNext \/ UNCHANGED SharedList!view

-----------------------------------------------------------------------------
(* States of the shell and sets of requests. *)

LEMMA CallShape ==
    ASSUME NEW op, NEW n \in Nat, NEW filter, NEW note, NEW folder
    PROVE  /\ IsCall(Call(op, n, filter, note, folder))
           /\ Call(op, n, filter, note, folder).op = op
           /\ Call(op, n, filter, note, folder).n = n
           /\ Call(op, n, filter, note, folder).live
BY DEF Call, IsCall

LEMMA AskedShape ==
    ASSUME NEW u, IsUI(u)
    PROVE  /\ IsUI(Asked(u))
           /\ Asked(u).req = u.req + 1 /\ Asked(u).pending = TRUE /\ Asked(u).listOf = u.listOf
           /\ Asked(u).sharedReq = u.sharedReq /\ Asked(u).sharedOf = u.sharedOf
           /\ FolderId(Asked(u)) = FolderId(u)
BY DEF Asked, IsUI, FolderId

\* Requests other than of the two lists come and go; so do answered ones.
LEMMA AddOther ==
    ASSUME NEW u, NEW cs, Sound(u, cs), NEW c, IsCall(c), c.op \notin {"list", "shared"}
    PROVE  /\ Sound(u, cs \cup {c})
           /\ SharedOut(u, cs \cup {c}) <=> SharedOut(u, cs)
BY DEF Sound, Numbered, Within, ListWaits, SharedOut

LEMMA RemoveOther ==
    ASSUME NEW u, NEW cs, Sound(u, cs), NEW c \in cs, ~c.live \/ c.op \notin {"list", "shared"}
    PROVE  /\ Sound(u, cs \ {c})
           /\ SharedOut(u, cs \ {c}) <=> SharedOut(u, cs)
BY DEF Sound, Numbered, ListWaits, SharedOut

LEMMA Swap ==
    ASSUME NEW u, NEW cs, Sound(u, cs), NEW c \in cs, NEW d, IsCall(d),
           d.op = c.op, d.n = c.n, d.live = c.live
    PROVE  /\ Sound(u, (cs \ {c}) \cup {d})
           /\ SharedOut(u, (cs \ {c}) \cup {d}) <=> SharedOut(u, cs)
<1> DEFINE S == (cs \ {c}) \cup {d}
<1>1. Numbered(u, S)
    BY DEF Sound, Numbered, Within
<1>2. ListWaits(u, S) <=> ListWaits(u, cs)
    BY DEF ListWaits
<1>3. SharedOut(u, S) <=> SharedOut(u, cs)
    BY DEF SharedOut
<1> QED BY <1>1, <1>2, <1>3 DEF Sound

\* A request under the next number keeps the numbers apart.
LEMMA AddList ==
    ASSUME NEW u, NEW cs, Numbered(u, cs), NEW f
    PROVE  /\ Sound(Asked(u), cs \cup {ListCall(u, f)})
           /\ SharedOut(Asked(u), cs \cup {ListCall(u, f)}) <=> SharedOut(u, cs)
<1> DEFINE c == ListCall(u, f)
           a == Asked(u)
<1>1. IsUI(u) /\ u.req \in Nat
    BY DEF Numbered, IsUI
<1>2. IsCall(c) /\ c.op = "list" /\ c.n = u.req + 1 /\ c.live
    BY <1>1, CallShape DEF ListCall
<1>3. IsUI(a) /\ a.req = u.req + 1 /\ a.pending = TRUE /\ a.sharedReq = u.sharedReq
    BY <1>1, AskedShape
<1> HIDE DEF c, a
<1>4. \A d \in cs \cup {c} : IsCall(d) /\ (d.live => Within(a, d))
    <2>1. ASSUME NEW d \in cs PROVE IsCall(d) /\ (d.live => Within(a, d))
        <3>1. IsCall(d) /\ d.n \in Nat /\ (d.live => Within(u, d))
            BY <2>1 DEF Numbered, IsCall
        <3> QED BY <1>1, <1>3, <3>1 DEF Within
    <2>2. Within(a, c)
        BY <1>1, <1>2, <1>3 DEF Within
    <2> QED BY <1>2, <2>1, <2>2
<1>5. \A d \in cs : d.live /\ d.op = "list" => d.n # c.n
    BY <1>1, <1>2 DEF Numbered, Within, IsCall
<1>6. Numbered(a, cs \cup {c})
    BY <1>2, <1>3, <1>4, <1>5 DEF Numbered
<1>7. ListWaits(a, cs \cup {c})
    BY <1>2, <1>3 DEF ListWaits
<1>8. SharedOut(a, cs \cup {c}) <=> SharedOut(u, cs)
    BY <1>2, <1>3 DEF SharedOut
<1> QED BY <1>3, <1>6, <1>7, <1>8 DEF Sound, a, c

\* What the shell keeps besides the numbers does not matter.
LEMMA OtherFields ==
    ASSUME NEW u, NEW v, NEW cs, Sound(u, cs), IsUI(v),
           v.req = u.req, v.sharedReq = u.sharedReq, v.pending = u.pending
    PROVE  Sound(v, cs) /\ (SharedOut(v, cs) <=> SharedOut(u, cs))
BY DEF Sound, Numbered, Within, ListWaits, SharedOut

\* A step that leaves both lists to React's effect: they stay, or the own
\* list is asked for.
LEMMA RenderStep ==
    ASSUME NEW u, NEW cs, Sound(u, cs), Render(u, cs),
           u.req = ui.req, u.listOf = ui.listOf, u.pending = ui.pending,
           u.sharedReq = ui.sharedReq, u.sharedOf = ui.sharedOf,
           SharedOut(u, cs) <=> SharedOut(ui, calls)
    PROVE  Inv' /\ OwnStep /\ SharedStep
<1>1. CASE ui' = u /\ calls' = cs
    BY <1>1 DEF Inv, OwnStep, SharedStep, OwnList!view, SharedList!view, SharedWaits, SharedOut
<1>2. CASE ui' = Asked(u) /\ calls' = cs \cup {ListCall(u, FolderId(u))}
    <2>1. Sound(ui', calls') /\ (SharedOut(ui', calls') <=> SharedOut(u, cs))
        BY <1>2, AddList DEF Sound
    <2>2. /\ ui'.req = u.req + 1 /\ ui'.pending = TRUE /\ ui'.listOf = u.listOf
          /\ ui'.sharedReq = u.sharedReq /\ ui'.sharedOf = u.sharedOf
        BY <1>2, AskedShape DEF Sound, Numbered
    <2>3. OwnStep
        BY <2>2 DEF OwnStep, OwnList!LatestNext, OwnList!Ask
    <2>4. SharedStep
        BY <2>1, <2>2 DEF SharedStep, SharedList!view, SharedWaits, SharedOut
    <2> QED BY <2>1, <2>3, <2>4 DEF Inv
<1> QED BY <1>1, <1>2 DEF Render

-----------------------------------------------------------------------------
(* What the user does. *)

LEMMA QueryStep == ASSUME Inv, NEW p, SetQuery(p) PROVE Inv' /\ OwnStep /\ SharedStep
<1> DEFINE u == [ui EXCEPT !.path = p]
<1>1. Render(u, calls)
    BY DEF SetQuery
<1>2. /\ IsUI(u) /\ u.req = ui.req /\ u.listOf = ui.listOf /\ u.pending = ui.pending
      /\ u.sharedReq = ui.sharedReq /\ u.sharedOf = ui.sharedOf
    BY DEF Inv, Sound, Numbered, IsUI
<1> HIDE DEF u
<1>3. Sound(u, calls) /\ (SharedOut(u, calls) <=> SharedOut(ui, calls))
    BY <1>2, OtherFields DEF Inv
<1> QED BY <1>1, <1>2, <1>3, RenderStep

\* A state with the same lists and a request more that is of neither.
LEMMA QuietStep ==
    ASSUME Inv, NEW c, IsCall(c), c.op \notin {"list", "shared"}, IsUI(ui'),
           calls' = calls \/ calls' = calls \cup {c},
           ui'.req = ui.req, ui'.listOf = ui.listOf, ui'.pending = ui.pending,
           ui'.sharedReq = ui.sharedReq, ui'.sharedOf = ui.sharedOf
    PROVE  Inv' /\ OwnStep /\ SharedStep
<1>1. Sound(ui, calls') /\ (SharedOut(ui, calls') <=> SharedOut(ui, calls))
    BY AddOther DEF Inv
<1>2. Sound(ui', calls') /\ (SharedOut(ui', calls') <=> SharedOut(ui, calls'))
    BY <1>1, OtherFields
<1> QED BY <1>1, <1>2 DEF Inv, OwnStep, SharedStep, OwnList!view, SharedList!view, SharedWaits, SharedOut

LEMMA StartStep ==
    ASSUME Inv, NEW op, op \notin {"list", "shared"}, NEW note, NEW folder,
           Start(op, note, folder)
    PROVE  Inv' /\ OwnStep /\ SharedStep
<1> DEFINE c == Call(op, ui.acts + 1, FolderId(ui), note, folder)
<1>1. IsCall(c) /\ c.op = op
    BY CallShape DEF Inv, Sound, Numbered, IsUI
<1>2. calls' = calls \cup {c}
    BY DEF Start
<1>3. /\ IsUI(ui') /\ ui'.req = ui.req /\ ui'.listOf = ui.listOf /\ ui'.pending = ui.pending
      /\ ui'.sharedReq = ui.sharedReq /\ ui'.sharedOf = ui.sharedOf
    BY DEF Start, Inv, Sound, Numbered, IsUI
<1> QED BY <1>1, <1>2, <1>3, QuietStep

LEMMA AddShared ==
    ASSUME NEW u, NEW v, NEW cs, Sound(u, cs), IsUI(v),
           v.req = u.req, v.sharedReq = u.sharedReq + 1, v.pending = u.pending,
           NEW c, IsCall(c), c.op = "shared", c.n = u.sharedReq + 1, c.live
    PROVE  Sound(v, cs \cup {c}) /\ SharedOut(v, cs \cup {c})
<1>1. u.sharedReq \in Nat /\ u.req \in Nat
    BY DEF Sound, Numbered, IsUI
<1>2. ASSUME NEW d \in cs PROVE IsCall(d) /\ d.n \in Nat /\ (d.live => Within(u, d))
    BY <1>2 DEF Sound, Numbered, IsCall
<1>3. \A d \in cs \cup {c} : IsCall(d) /\ (d.live => Within(v, d))
    BY <1>1, <1>2 DEF Within
<1>4. \A d \in cs : d.live /\ d.op = "shared" => d.n # c.n
    BY <1>1, <1>2 DEF Within
<1>5. Numbered(v, cs \cup {c})
    BY <1>3, <1>4 DEF Sound, Numbered
<1>6. v.pending <=> ListWaits(v, cs \cup {c})
    BY DEF Sound, ListWaits
<1> QED BY <1>5, <1>6 DEF Sound, SharedOut

LEMMA SharesStep == ASSUME Inv, HandleSharesChanged PROVE Inv' /\ OwnStep /\ SharedStep
<1> DEFINE a == Asked(ui)
           cs == calls \cup {ListCall(ui, FolderId(ui))}
           s == SharedCall(ui)
           f == FoldersCall(ui, Top, Top)
<1>1. Sound(a, cs)
    BY AddList DEF Inv, Sound
<1>2. IsUI(a) /\ a.req = ui.req + 1 /\ a.pending = TRUE /\ a.listOf = ui.listOf
      /\ a.sharedReq = ui.sharedReq /\ a.sharedOf = ui.sharedOf
    BY AskedShape DEF Inv, Sound, Numbered
<1>3. ui.sharedReq \in Nat /\ ui.foldersReq \in Nat
    BY DEF Inv, Sound, Numbered, IsUI
<1>4. IsCall(s) /\ s.op = "shared" /\ s.n = ui.sharedReq + 1 /\ s.live
    BY <1>3, CallShape DEF SharedCall
<1>5. IsCall(f) /\ f.op = "folders"
    BY <1>3, CallShape DEF FoldersCall
<1>6. ui' = [a EXCEPT !.foldersReq = @ + 1, !.sharedReq = @ + 1]
      /\ calls' = (cs \cup {s}) \cup {f}
    BY DEF HandleSharesChanged
<1> HIDE DEF a, cs, s, f
<1>7. /\ IsUI(ui') /\ ui'.req = a.req /\ ui'.sharedReq = a.sharedReq + 1 /\ ui'.pending = a.pending
      /\ ui'.listOf = a.listOf /\ ui'.sharedOf = a.sharedOf
    BY <1>2, <1>6 DEF IsUI
<1>8. Sound(ui', cs \cup {s}) /\ SharedOut(ui', cs \cup {s})
    BY <1>1, <1>2, <1>4, <1>7, AddShared
<1>9. Sound(ui', calls') /\ SharedOut(ui', calls')
    BY <1>5, <1>6, <1>8, AddOther
<1>10. OwnStep
    BY <1>2, <1>7 DEF OwnStep, OwnList!LatestNext, OwnList!Ask
<1>11. SharedStep
    BY <1>2, <1>7, <1>9 DEF SharedStep, SharedList!LatestNext, SharedList!Ask, SharedWaits, SharedOut
<1> QED BY <1>9, <1>10, <1>11 DEF Inv

LEMMA OpenSharedStep == ASSUME Inv, OpenShared PROVE Inv' /\ OwnStep /\ SharedStep
<1> DEFINE c == Call("seen", ui.acts + 1, Top, AnyNote, Top)
<1>1. IsCall(c) /\ c.op = "seen"
    BY CallShape DEF Inv, Sound, Numbered, IsUI
<1>2. calls' = calls \/ calls' = calls \cup {c}
    BY DEF OpenShared
<1> HIDE DEF c
<1>3. /\ IsUI(ui') /\ ui'.req = ui.req /\ ui'.listOf = ui.listOf /\ ui'.pending = ui.pending
      /\ ui'.sharedReq = ui.sharedReq /\ ui'.sharedOf = ui.sharedOf
    BY DEF OpenShared, Inv, Sound, Numbered, IsUI
<1> QED BY <1>1, <1>2, <1>3, QuietStep

LEMMA OpenNoteStep == ASSUME Inv, OpenNote PROVE Inv' /\ OwnStep /\ SharedStep
<1>1. /\ IsUI(ui') /\ ui'.req = ui.req /\ ui'.listOf = ui.listOf /\ ui'.pending = ui.pending
      /\ ui'.sharedReq = ui.sharedReq /\ ui'.sharedOf = ui.sharedOf
    BY DEF OpenNote, Inv, Sound, Numbered, IsUI
<1>2. calls' = calls
    BY DEF OpenNote
<1>3. IsCall(Call("seen", 0, Top, AnyNote, Top)) /\ Call("seen", 0, Top, AnyNote, Top).op = "seen"
    BY CallShape
<1> QED BY <1>1, <1>2, <1>3, QuietStep

-----------------------------------------------------------------------------
(* A new shell: what a page load or an arrival asks is numbered 1. *)

LEMMA Mounted ==
    ASSUME NEW p, NEW r, NEW old, \A c \in old : IsCall(c) /\ ~c.live
    PROVE  LET u == Mount(p, r)
               cs == old \cup MountCalls(u)
           IN  /\ Sound(u, cs) /\ SharedOut(u, cs)
               /\ u.req \in {0, 1} /\ u.listOf = 0 /\ u.pending = (u.req = 1)
               /\ u.sharedReq = 1 /\ u.sharedOf = 0
<1> DEFINE u == Mount(p, r)
           s == Call("shared", 1, Top, AnyNote, Top)
           l == Call("list", 1, FolderId(u), AnyNote, Top)
           cs == old \cup MountCalls(u)
<1>1. /\ IsUI(u) /\ u.req \in {0, 1} /\ u.listOf = 0 /\ u.pending = (u.req = 1)
      /\ u.sharedReq = 1 /\ u.sharedOf = 0
    BY DEF Mount, IsUI
<1>2. IsCall(s) /\ s.op = "shared" /\ s.n = 1 /\ s.live
    BY CallShape
<1>3. IsCall(l) /\ l.op = "list" /\ l.n = 1 /\ l.live
    BY CallShape
<1>4. MountCalls(u) = {s} \cup (IF u.pending THEN {l} ELSE {})
    BY DEF MountCalls
<1> HIDE DEF u, s, l
<1>5. Numbered(u, cs)
    <2>1. Within(u, s)
        BY <1>1, <1>2 DEF Within
    <2>2. ASSUME u.pending PROVE Within(u, l)
        <3>1. u.req = 1
            BY <1>1, <2>2 DEF IsUI
        <3> QED BY <1>3, <3>1 DEF Within
    <2>3. \A c \in cs : IsCall(c) /\ (c.live => Within(u, c))
        BY <1>2, <1>3, <1>4, <2>1, <2>2
    <2>4. \A c \in cs : c.live => c = s \/ c = l
        BY <1>4
    <2> HIDE DEF cs
    <2> QED BY <1>1, <1>2, <1>3, <2>3, <2>4 DEF Numbered
<1>6. u.pending <=> ListWaits(u, cs)
    BY <1>1, <1>2, <1>3, <1>4 DEF ListWaits
<1>7. SharedOut(u, cs)
    BY <1>1, <1>2, <1>4 DEF SharedOut
<1> QED BY <1>1, <1>5, <1>6, <1>7 DEF Sound, u

LEMMA NavigateStep == ASSUME Inv, Navigate PROVE Inv' /\ OwnStep /\ SharedStep
<1> DEFINE old == {[c EXCEPT !.live = FALSE] :
                     c \in {c \in calls : c.stage = "sent" /\ c.op \notin {"list", "folders", "shared"}}}
<1>1. \A d \in old : IsCall(d) /\ ~d.live
    BY DEF Inv, Sound, Numbered, IsCall
<1>2. ui' = Mount(ui.path, rows) /\ calls' = old \cup MountCalls(ui')
    BY DEF Navigate
<1> HIDE DEF old
<1>3. /\ Sound(ui', calls') /\ SharedOut(ui', calls')
      /\ ui'.req \in {0, 1} /\ ui'.listOf = 0 /\ ui'.pending = (ui'.req = 1)
      /\ ui'.sharedReq = 1 /\ ui'.sharedOf = 0
    BY <1>1, <1>2, Mounted
<1>4. OwnStep
    BY <1>3 DEF OwnStep, OwnList!LatestNext, OwnList!Begin
<1>5. SharedStep
    BY <1>3 DEF SharedStep, SharedList!LatestNext, SharedList!Begin, SharedWaits, SharedOut
<1> QED BY <1>3, <1>4, <1>5 DEF Inv

-----------------------------------------------------------------------------
(* The routes: a request is answered, or forgotten by a shell that is gone. *)

LEMMA AnsweredStep ==
    ASSUME Inv, NEW c \in calls, c.stage = "sent", NEW d, d.op = c.op, d.n = c.n, d.live = c.live,
           {"op", "n", "live", "stage"} \subseteq DOMAIN d, Answered(c, d), ui' = ui
    PROVE  Inv' /\ OwnStep /\ SharedStep
<1>1. IsCall(c)
    BY DEF Inv, Sound, Numbered
<1>2. CASE c.live
    <2> DEFINE e == [d EXCEPT !.stage = "done"]
    <2>1. IsCall(e) /\ e.op = c.op /\ e.n = c.n /\ e.live = c.live
        BY <1>1, <1>2 DEF IsCall
    <2>2. calls' = (calls \ {c}) \cup {e}
        BY <1>2 DEF Answered
    <2> HIDE DEF e
    <2>3. Sound(ui, calls') /\ (SharedOut(ui, calls') <=> SharedOut(ui, calls))
        BY <2>1, <2>2, Swap DEF Inv
    <2> QED BY <2>3 DEF Inv, OwnStep, SharedStep, OwnList!view, SharedList!view, SharedWaits, SharedOut
<1>3. CASE ~c.live
    <2>1. calls' = calls \ {c}
        BY <1>3 DEF Answered
    <2>2. Sound(ui, calls') /\ (SharedOut(ui, calls') <=> SharedOut(ui, calls))
        BY <1>3, <2>1, RemoveOther DEF Inv
    <2> QED BY <2>2 DEF Inv, OwnStep, SharedStep, OwnList!view, SharedList!view, SharedWaits, SharedOut
<1> QED BY <1>2, <1>3

LEMMA ServeStep == ASSUME Inv, NEW c \in calls, Serve(c) PROVE Inv' /\ OwnStep /\ SharedStep
<1>1. IsCall(c) /\ c.stage = "sent" /\ ui' = ui
    BY DEF Inv, Sound, Numbered, Serve
<1>2. CASE ServeFetch(c)
    <2> DEFINE d == [c EXCEPT !.notes = IF c.op = "list" THEN Listing(rows.place, c.filter) ELSE {},
                              !.folders = IF c.op = "folders" THEN rows.folders ELSE {},
                              !.seen = IF c.op = "shared" THEN rows.seen ELSE FALSE]
    <2>1. d.op = c.op /\ d.n = c.n /\ d.live = c.live /\ DOMAIN d = DOMAIN c
        BY <1>1 DEF IsCall
    <2>2. Answered(c, d)
        BY <1>2 DEF ServeFetch
    <2> HIDE DEF d
    <2> QED BY <1>1, <2>1, <2>2, AnsweredStep DEF IsCall
<1>3. CASE ServeChange(c)
    <2> DEFINE d == [c EXCEPT !.ok = Possible(c)]
    <2>1. d.op = c.op /\ d.n = c.n /\ d.live = c.live /\ DOMAIN d = DOMAIN c
        BY <1>1 DEF IsCall
    <2>2. Answered(c, d)
        BY <1>3 DEF ServeChange
    <2> HIDE DEF d
    <2> QED BY <1>1, <2>1, <2>2, AnsweredStep DEF IsCall
<1> QED BY <1>2, <1>3 DEF Serve

-----------------------------------------------------------------------------
(* Answers. *)

\* An answer that leaves both lists as they are.
LEMMA QuietAnswer ==
    ASSUME Inv, NEW c \in calls, c.op \notin {"list", "shared"}, NEW u, IsUI(u),
           u.req = ui.req, u.listOf = ui.listOf, u.pending = ui.pending,
           u.sharedReq = ui.sharedReq, u.sharedOf = ui.sharedOf,
           NEW cs, cs = calls \ {c} \/ \E d : IsCall(d) /\ d.op = "folders" /\ cs = (calls \ {c}) \cup {d},
           Render(u, cs)
    PROVE  Inv' /\ OwnStep /\ SharedStep
<1>1. Sound(ui, calls \ {c}) /\ (SharedOut(ui, calls \ {c}) <=> SharedOut(ui, calls))
    BY RemoveOther DEF Inv
<1>2. Sound(ui, cs) /\ (SharedOut(ui, cs) <=> SharedOut(ui, calls))
    BY <1>1, AddOther
<1>3. Sound(u, cs) /\ (SharedOut(u, cs) <=> SharedOut(ui, calls))
    BY <1>2, OtherFields
<1> QED BY <1>3, RenderStep

LEMMA ChangeStep ==
    ASSUME Inv, NEW c \in calls, c.op \notin {"list", "shared"}, NEW ok, ChangeAnswer(c, ok)
    PROVE  Inv' /\ OwnStep /\ SharedStep
<1>1. IsUI(ui) /\ ui.foldersReq \in Nat
    BY DEF Inv, Sound, Numbered, IsUI
<1>2. CASE Render(ui, calls \ {c})
    BY <1>1, <1>2, QuietAnswer
<1>3. CASE Render(Asked(ui), (calls \ {c}) \cup {ListCall(ui, c.filter)})
    <2>1. ui' = Asked(ui) /\ calls' = (calls \ {c}) \cup {ListCall(ui, c.filter)}
        BY <1>1, <1>3, AskedShape DEF Render
    <2>2. Sound(ui, calls \ {c}) /\ (SharedOut(ui, calls \ {c}) <=> SharedOut(ui, calls))
        BY RemoveOther DEF Inv
    <2>3. Sound(ui', calls') /\ (SharedOut(ui', calls') <=> SharedOut(ui, calls))
        BY <2>1, <2>2, AddList DEF Sound
    <2>4. /\ ui'.req = ui.req + 1 /\ ui'.pending = TRUE /\ ui'.listOf = ui.listOf
          /\ ui'.sharedReq = ui.sharedReq /\ ui'.sharedOf = ui.sharedOf
        BY <1>1, <2>1, AskedShape
    <2>5. OwnStep
        BY <2>4 DEF OwnStep, OwnList!LatestNext, OwnList!Ask
    <2>6. SharedStep
        BY <2>3, <2>4 DEF SharedStep, SharedList!view, SharedWaits, SharedOut
    <2> QED BY <2>3, <2>5, <2>6 DEF Inv
<1>4. CASE \E f, g : Render([ui EXCEPT !.foldersReq = @ + 1], (calls \ {c}) \cup {FoldersCall(ui, f, g)})
    <2> DEFINE u == [ui EXCEPT !.foldersReq = @ + 1]
    <2>1. PICK f, g : Render(u, (calls \ {c}) \cup {FoldersCall(ui, f, g)})
        BY <1>4
    <2>2. IsCall(FoldersCall(ui, f, g)) /\ FoldersCall(ui, f, g).op = "folders"
        BY <1>1, CallShape DEF FoldersCall
    <2>3. /\ IsUI(u) /\ u.req = ui.req /\ u.listOf = ui.listOf /\ u.pending = ui.pending
          /\ u.sharedReq = ui.sharedReq /\ u.sharedOf = ui.sharedOf
        BY <1>1 DEF IsUI
    <2> HIDE DEF u
    <2> QED BY <2>1, <2>2, <2>3, QuietAnswer
<1> QED BY <1>2, <1>3, <1>4 DEF ChangeAnswer

LEMMA FoldersStep ==
    ASSUME Inv, NEW c \in calls, c.op = "folders", NEW ok, FoldersAnswer(c, ok)
    PROVE  Inv' /\ OwnStep /\ SharedStep
<1> DEFINE got == IF ok THEN [ui EXCEPT !.folders = c.folders, !.foldersOf = c.n] ELSE ui
           cleared == c.folder # Top /\ c.folder = c.filter
           u == [got EXCEPT !.path = IF cleared THEN Top ELSE @]
<1>1. IsUI(ui)
    BY DEF Inv, Sound, Numbered
<1>2. /\ IsUI(got) /\ got.req = ui.req /\ got.listOf = ui.listOf /\ got.pending = ui.pending
      /\ got.sharedReq = ui.sharedReq /\ got.sharedOf = ui.sharedOf
    BY <1>1 DEF IsUI
<1>3. Render(u, calls \ {c})
    BY DEF FoldersAnswer
<1> HIDE DEF got, cleared
<1>4. /\ IsUI(u) /\ u.req = ui.req /\ u.listOf = ui.listOf /\ u.pending = ui.pending
      /\ u.sharedReq = ui.sharedReq /\ u.sharedOf = ui.sharedOf
    BY <1>2 DEF IsUI
<1> HIDE DEF u
<1> QED BY <1>3, <1>4, QuietAnswer

\* The newest request of the own list is answered: it was on, and goes off.
LEMMA ListStep ==
    ASSUME Inv, NEW c \in calls, c.live, c.op = "list", NEW ok, ListAnswer(c, ok)
    PROVE  Inv' /\ OwnStep /\ SharedStep
<1> DEFINE cs == calls \ {c}
           v == [ui EXCEPT !.notes = IF ok THEN c.notes ELSE @, !.pending = FALSE,
                           !.listOf = IF ok THEN c.n ELSE @, !.listFor = IF ok THEN c.filter ELSE @]
<1>1. IsUI(ui) /\ IsCall(c)
    BY DEF Inv, Sound, Numbered
<1>2. Numbered(ui, cs) /\ (SharedOut(ui, cs) <=> SharedOut(ui, calls))
    BY DEF Inv, Sound, Numbered, SharedOut
<1>3. CASE c.n # ui.req
    <2>1. ListWaits(ui, cs) <=> ListWaits(ui, calls)
        BY <1>3 DEF ListWaits
    <2>2. Sound(ui, cs)
        BY <1>2, <2>1 DEF Inv, Sound
    <2>3. Render(ui, cs)
        BY <1>3 DEF ListAnswer
    <2> QED BY <1>2, <2>2, <2>3, RenderStep
<1>4. CASE c.n = ui.req
    <2>1. /\ IsUI(v) /\ v.req = ui.req /\ v.pending = FALSE /\ v.listOf \in {ui.req, ui.listOf}
          /\ v.sharedReq = ui.sharedReq /\ v.sharedOf = ui.sharedOf
          /\ FolderId(v) = FolderId(ui)
        BY <1>1, <1>4 DEF IsUI, FolderId
    <2>2. Render(v, cs)
        BY <1>4 DEF ListAnswer
    <2> HIDE DEF v
    <2>3. ui' = v /\ calls' = cs
        BY <2>1, <2>2 DEF Render
    <2>4. ui.pending = TRUE
        BY <1>4 DEF Inv, Sound, ListWaits, Numbered, IsUI
    <2>5. ~ListWaits(v, cs)
        BY <1>4, <2>1 DEF Inv, Sound, Numbered, ListWaits
    <2>6. Numbered(v, cs) /\ (SharedOut(v, cs) <=> SharedOut(ui, calls))
        BY <1>2, <2>1 DEF Numbered, Within, SharedOut
    <2>7. OwnStep
        BY <2>1, <2>3, <2>4 DEF OwnStep, OwnList!LatestNext, OwnList!Show, OwnList!Keep
    <2>8. SharedStep
        BY <2>1, <2>3, <2>6 DEF SharedStep, SharedList!view, SharedWaits, SharedOut
    <2> QED BY <2>1, <2>3, <2>5, <2>6, <2>7, <2>8 DEF Inv, Sound
<1> QED BY <1>3, <1>4

\* The same for the list of shared notes, whose request simply ends.
LEMMA SharedAnswerStep ==
    ASSUME Inv, NEW c \in calls, c.live, c.op = "shared", NEW ok, SharedAnswer(c, ok)
    PROVE  Inv' /\ OwnStep /\ SharedStep
<1> DEFINE cs == calls \ {c}
           w == IF c.n # ui.sharedReq \/ ~ok THEN ui
                ELSE [ui EXCEPT !.sharedOf = c.n, !.shared = IF c.seen THEN "seen" ELSE "unseen"]
<1>1. IsUI(ui) /\ IsCall(c)
    BY DEF Inv, Sound, Numbered
<1>2. /\ IsUI(w) /\ w.req = ui.req /\ w.pending = ui.pending /\ w.listOf = ui.listOf
      /\ w.sharedReq = ui.sharedReq /\ FolderId(w) = FolderId(ui)
      /\ w.sharedOf = ui.sharedOf \/ (c.n = ui.sharedReq /\ w.sharedOf = ui.sharedReq)
    BY <1>1 DEF IsUI, FolderId
<1>3. Render(w, cs)
    BY DEF SharedAnswer
<1> HIDE DEF w
<1>4. ui' = w /\ calls' = cs
    BY <1>2, <1>3 DEF Render
<1>5. Sound(w, cs)
    <2>1. Numbered(w, cs)
        BY <1>2 DEF Inv, Sound, Numbered, Within
    <2>2. w.pending <=> ListWaits(w, cs)
        BY <1>2 DEF Inv, Sound, ListWaits
    <2> QED BY <2>1, <2>2 DEF Sound
<1>6. OwnStep
    BY <1>2, <1>4 DEF OwnStep, OwnList!view
<1>7. CASE c.n # ui.sharedReq
    <2>1. SharedOut(w, cs) <=> SharedOut(ui, calls)
        BY <1>2, <1>7 DEF SharedOut
    <2> QED BY <1>2, <1>4, <1>5, <1>6, <1>7, <2>1
            DEF Inv, SharedStep, SharedList!view, SharedWaits, SharedOut
<1>8. CASE c.n = ui.sharedReq
    <2>1. SharedOut(ui, calls)
        BY <1>8 DEF SharedOut
    <2>2. ~SharedOut(w, cs)
        BY <1>2, <1>8 DEF Inv, Sound, Numbered, SharedOut
    <2>3. SharedStep
        BY <1>2, <1>4, <2>1, <2>2
           DEF SharedStep, SharedList!LatestNext, SharedList!Show, SharedList!Keep, SharedWaits, SharedOut
    <2> QED BY <1>4, <1>5, <1>6, <2>3 DEF Inv
<1> QED BY <1>7, <1>8

LEMMA ApplyStep ==
    ASSUME Inv, NEW c \in calls, c.live, NEW ok, Apply(c, ok)
    PROVE  Inv' /\ OwnStep /\ SharedStep
<1>1. CASE c.op = "list"
    BY <1>1, ListStep DEF Apply
<1>2. CASE c.op = "shared"
    BY <1>2, SharedAnswerStep DEF Apply
<1>3. CASE c.op = "folders"
    BY <1>3, FoldersStep DEF Apply
<1>4. CASE c.op \notin {"list", "shared", "folders"}
    BY <1>4, ChangeStep DEF Apply
<1> QED BY <1>1, <1>2, <1>3, <1>4

-----------------------------------------------------------------------------
(* The specification. *)

LEMMA InitSound == Init => Inv /\ OwnList!LatestInit /\ SharedList!LatestInit
<1> SUFFICES ASSUME Init PROVE Inv /\ OwnList!LatestInit /\ SharedList!LatestInit
    OBVIOUS
<1>1. PICK p \in Filters : ui = Mount(p, rows) /\ calls = MountCalls(ui)
    BY DEF Init
<1>2. PICK none : none = {}
    OBVIOUS
<1> DEFINE u == Mount(p, rows)
           cs == none \cup MountCalls(u)
<1>3. /\ Sound(u, cs) /\ SharedOut(u, cs)
      /\ u.req \in {0, 1} /\ u.listOf = 0 /\ u.pending = (u.req = 1)
      /\ u.sharedReq = 1 /\ u.sharedOf = 0
    <2>1. \A c \in none : IsCall(c) /\ ~c.live
        BY <1>2
    <2> QED BY <2>1, Mounted
<1>4. ui = u /\ calls = cs
    BY <1>1, <1>2
<1> HIDE DEF u, cs
<1> QED BY <1>3, <1>4 DEF Inv, OwnList!LatestInit, SharedList!LatestInit, SharedWaits, SharedOut

LEMMA NextStep == Inv /\ [Next]_vars => Inv' /\ OwnStep /\ SharedStep
<1> SUFFICES ASSUME Inv, [Next]_vars PROVE Inv' /\ OwnStep /\ SharedStep
    OBVIOUS
<1>1. ASSUME NEW p \in Filters, SetQuery(p) PROVE Inv' /\ OwnStep /\ SharedStep
    BY <1>1, QueryStep
<1>2. ASSUME NEW i \in ui.notes, HandleDeleteNote(i) PROVE Inv' /\ OwnStep /\ SharedStep
    BY <1>2, StartStep DEF HandleDeleteNote
<1>3. ASSUME NEW i \in ui.notes, NEW f, HandleMoveNote(i, f) PROVE Inv' /\ OwnStep /\ SharedStep
    BY <1>3, StartStep DEF HandleMoveNote
<1>4. ASSUME NEW f, HandleCreateFolder(f) \/ HandleDeleteFolder(f) \/ HandlePatchFolder(f)
      PROVE  Inv' /\ OwnStep /\ SharedStep
    BY <1>4, StartStep DEF HandleCreateFolder, HandleDeleteFolder, HandlePatchFolder
<1>5. CASE HandleSharesChanged \/ OpenShared \/ OpenNote \/ Navigate
    BY <1>5, SharesStep, OpenSharedStep, OpenNoteStep, NavigateStep
<1>6. ASSUME NEW c \in calls, Serve(c) PROVE Inv' /\ OwnStep /\ SharedStep
    BY <1>6, ServeStep
<1>7. ASSUME NEW c \in calls, Answer(c) PROVE Inv' /\ OwnStep /\ SharedStep
    <2>1. c.live
        BY <1>7 DEF Answer, Inv, Sound, Numbered, IsCall
    <2> QED BY <1>7, <2>1, ApplyStep DEF Answer
<1>8. ASSUME NEW c \in calls, Fail(c) PROVE Inv' /\ OwnStep /\ SharedStep
    BY <1>8, ApplyStep DEF Fail
<1>9. ASSUME UNCHANGED <<ui, calls>> PROVE Inv' /\ OwnStep /\ SharedStep
    BY <1>9 DEF Inv, OwnStep, SharedStep, OwnList!view, SharedList!view, SharedWaits
<1>10. ASSUME NEW n, NEW f, Elsewhere(n, f) PROVE Inv' /\ OwnStep /\ SharedStep
    BY <1>9, <1>10 DEF Elsewhere
<1>11. CASE UNCHANGED vars
    BY <1>9, <1>11 DEF vars
<1> QED BY <1>1, <1>2, <1>3, <1>4, <1>5, <1>6, <1>7, <1>8, <1>10, <1>11 DEF Next

PendingMeansWaiting ==
  ui.pending <=> \E c \in calls : c.live /\ c.op = "list" /\ c.n = ui.req

\* The list of notes says "loading" exactly while its newest request is under
\* way (NotesShell.tsx:140-150).
THEOREM LoadingEnds == Spec => []PendingMeansWaiting
<1>1. Init => Inv
    BY InitSound
<1>2. Inv /\ [Next]_vars => Inv'
    BY NextStep
<1>3. Inv => PendingMeansWaiting
    BY DEF Inv, Sound, ListWaits, PendingMeansWaiting
<1> QED BY <1>1, <1>2, <1>3, PTL DEF Spec

\* Both note lists implement Latest: only the answer to the newest request is
\* shown, and it ends the waiting (NotesShell.tsx:137-152, :178-188).
THEOREM ListsImplementLatest == Spec => ListsAreLatest
<1>1. Init => Inv /\ OwnList!LatestInit /\ SharedList!LatestInit
    BY InitSound
<1>2. Inv /\ [Next]_vars => Inv' /\ [OwnList!LatestNext]_(OwnList!view) /\ [SharedList!LatestNext]_(SharedList!view)
    BY NextStep DEF OwnStep, SharedStep
<1> QED BY <1>1, <1>2, PTL DEF Spec, ListsAreLatest, OwnList!LatestSpec, SharedList!LatestSpec

-----------------------------------------------------------------------------
(***************************************************************************)
(* What the lists say.                                                     *)
(***************************************************************************)
Full(c) == {"op", "n", "filter", "note", "folder", "stage", "live", "ok", "notes", "folders", "seen"} \subseteq DOMAIN c

\* A change of a list that went well and whose answer is under way.
Moved(cs) == \E d \in cs : d.live /\ d.op \in {"move", "destroy"} /\ d.stage = "done" /\ d.ok
Made(cs) == \E d \in cs : d.live /\ d.op \in {"mkdir", "rmdir"} /\ d.stage = "done" /\ d.ok

\* Every fetch has a number of its own, and what was shown last was not the newest
\* while the newest is under way.
Apart(u, cs) ==
  /\ IsUI(u) /\ u.listOf \in 0..u.req /\ u.foldersOf \in 0..u.foldersReq
  /\ \A c \in cs :
       /\ Full(c) /\ (c.op \in {"list", "folders"} \/ c.stage = "done" => c.live)
       /\ c.op = "list" => c.n \in 0..u.req /\ (c.n = u.req => u.listOf # u.req)
       /\ c.op = "folders" => c.n \in 0..u.foldersReq /\ (c.n = u.foldersReq => u.foldersOf # u.foldersReq)
  /\ \A c, d \in cs : c.op = d.op /\ c.n = d.n /\ c.op \in {"list", "folders"} => c = d

\* What the newest fetch says, under way or shown, is what the rows r have,
\* unless the list was changed since: by others (fo) or as an answer will tell.
FreshList(u, cs, r, fo) ==
  /\ \A c \in cs : c.op = "list" /\ c.n = u.req /\ c.stage = "done" /\ c.ok /\ ~fo.list
                     => c.notes = Listing(r.place, c.filter) \/ Moved(cs)
  /\ u.listOf = u.req /\ ~fo.list => u.notes = Listing(r.place, u.listFor) \/ Moved(cs)

FreshFolders(u, cs, r, fo) ==
  /\ \A c \in cs : c.op = "folders" /\ c.n = u.foldersReq /\ c.stage = "done" /\ c.ok /\ ~fo.folders
                     => c.folders = r.folders \/ Made(cs)
  /\ u.foldersOf = u.foldersReq /\ ~fo.folders => u.folders = r.folders \/ Made(cs)

Current(u, cs, r, fo) == Apart(u, cs) /\ FreshList(u, cs, r, fo) /\ FreshFolders(u, cs, r, fo)

CurrentInv ==
  /\ {"place", "folders", "seen"} \subseteq DOMAIN rows /\ {"list", "folders"} \subseteq DOMAIN foreign
  /\ Current(ui, calls, rows, foreign)

-----------------------------------------------------------------------------
(* Requests come and go. *)

LEMMA FullCall ==
    ASSUME NEW op, NEW n, NEW filter, NEW note, NEW folder, NEW c, c = Call(op, n, filter, note, folder)
    PROVE  Full(c) /\ c.op = op /\ c.n = n /\ c.stage = "sent" /\ c.live
BY DEF Call, Full

LEMMA FetchNotes ==
    ASSUME NEW u, NEW cs, NEW r, NEW fo, NEW f, Apart(u, cs)
    PROVE  LET a == Asked(u)
               all == cs \cup {ListCall(u, f)}
           IN  /\ Apart(a, all) /\ FreshList(a, all, r, fo)
               /\ FreshFolders(u, cs, r, fo) => FreshFolders(a, all, r, fo)
<1> DEFINE a == Asked(u)
           c == ListCall(u, f)
           all == cs \cup {c}
<1>1. IsUI(u) /\ u.req \in Nat
    BY DEF Apart, IsUI
<1>2. Full(c) /\ c.op = "list" /\ c.n = u.req + 1 /\ c.stage = "sent" /\ c.live
    BY <1>1, FullCall DEF ListCall
<1>3. /\ IsUI(a) /\ a.req = u.req + 1 /\ a.listOf = u.listOf
      /\ a.notes = u.notes /\ a.listFor = u.listFor
      /\ a.foldersReq = u.foldersReq /\ a.foldersOf = u.foldersOf /\ a.folders = u.folders
    BY <1>1 DEF Asked, IsUI
<1> HIDE DEF a, c
<1>4. \A x \in 0..u.req : x # u.req + 1 /\ x \in 0..(u.req + 1)
    BY <1>1
<1>5. \A d \in cs : d.op = "list" => d.n \in 0..u.req /\ d.n # u.req + 1
    BY <1>4 DEF Apart
<1>6. u.listOf # u.req + 1 /\ u.listOf \in 0..(u.req + 1) /\ u.req + 1 \in 0..(u.req + 1)
    BY <1>1, <1>4 DEF Apart
<1>7. Apart(a, all)
    BY <1>2, <1>3, <1>4, <1>5, <1>6 DEF Apart
<1>8. FreshList(a, all, r, fo)
    BY <1>2, <1>3, <1>5, <1>6 DEF FreshList
<1>9. FreshFolders(u, cs, r, fo) => FreshFolders(a, all, r, fo)
    BY <1>2, <1>3 DEF FreshFolders, Made
<1> QED BY <1>7, <1>8, <1>9 DEF a, c

LEMMA FetchFolders ==
    ASSUME NEW u, NEW cs, NEW r, NEW fo, NEW f, NEW g, Apart(u, cs)
    PROVE  LET a == [u EXCEPT !.foldersReq = @ + 1]
               all == cs \cup {FoldersCall(u, f, g)}
           IN  /\ Apart(a, all) /\ FreshFolders(a, all, r, fo)
               /\ FreshList(u, cs, r, fo) => FreshList(a, all, r, fo)
<1> DEFINE a == [u EXCEPT !.foldersReq = @ + 1]
           c == FoldersCall(u, f, g)
           all == cs \cup {c}
<1>1. IsUI(u) /\ u.foldersReq \in Nat
    BY DEF Apart, IsUI
<1>2. Full(c) /\ c.op = "folders" /\ c.n = u.foldersReq + 1 /\ c.stage = "sent" /\ c.live
    BY <1>1, FullCall DEF FoldersCall
<1>3. /\ IsUI(a) /\ a.req = u.req /\ a.listOf = u.listOf
      /\ a.notes = u.notes /\ a.listFor = u.listFor
      /\ a.foldersReq = u.foldersReq + 1 /\ a.foldersOf = u.foldersOf /\ a.folders = u.folders
    BY <1>1 DEF IsUI
<1> HIDE DEF a, c
<1>4. \A x \in 0..u.foldersReq : x # u.foldersReq + 1 /\ x \in 0..(u.foldersReq + 1)
    BY <1>1
<1>5. \A d \in cs : d.op = "folders" => d.n \in 0..u.foldersReq /\ d.n # u.foldersReq + 1
    BY <1>4 DEF Apart
<1>6. u.foldersOf # u.foldersReq + 1 /\ u.foldersOf \in 0..(u.foldersReq + 1)
      /\ u.foldersReq + 1 \in 0..(u.foldersReq + 1)
    BY <1>1, <1>4 DEF Apart
<1>7. Apart(a, all)
    BY <1>2, <1>3, <1>4, <1>5, <1>6 DEF Apart
<1>8. FreshFolders(a, all, r, fo)
    BY <1>2, <1>3, <1>5, <1>6 DEF FreshFolders
<1>9. FreshList(u, cs, r, fo) => FreshList(a, all, r, fo)
    BY <1>2, <1>3 DEF FreshList, Moved
<1> QED BY <1>7, <1>8, <1>9 DEF a, c

LEMMA SendPlain ==
    ASSUME NEW u, NEW cs, NEW r, NEW fo, Current(u, cs, r, fo),
           NEW c, Full(c), c.op \notin {"list", "folders"}, c.stage = "sent", c.live
    PROVE  Current(u, cs \cup {c}, r, fo)
BY DEF Current, Apart, FreshList, FreshFolders, Moved, Made

LEMMA Removed ==
    ASSUME NEW u, NEW cs, NEW r, NEW fo, Current(u, cs, r, fo), NEW c \in cs
    PROVE  /\ Apart(u, cs \ {c})
           /\ (c.op \in {"move", "destroy"} /\ c.stage = "done" /\ c.ok) \/ FreshList(u, cs \ {c}, r, fo)
           /\ (c.op \in {"mkdir", "rmdir"} /\ c.stage = "done" /\ c.ok) \/ FreshFolders(u, cs \ {c}, r, fo)
<1>1. Apart(u, cs \ {c})
    BY DEF Current, Apart
<1>2. ASSUME ~(c.op \in {"move", "destroy"} /\ c.stage = "done" /\ c.ok) PROVE FreshList(u, cs \ {c}, r, fo)
    <2>1. Moved(cs) => Moved(cs \ {c})
        BY <1>2 DEF Moved
    <2> QED BY <2>1 DEF Current, FreshList
<1>3. ASSUME ~(c.op \in {"mkdir", "rmdir"} /\ c.stage = "done" /\ c.ok) PROVE FreshFolders(u, cs \ {c}, r, fo)
    <2>1. Made(cs) => Made(cs \ {c})
        BY <1>3 DEF Made
    <2> QED BY <2>1 DEF Current, FreshFolders
<1> QED BY <1>1, <1>2, <1>3

LEMMA SameLists ==
    ASSUME NEW u, NEW v, NEW cs, NEW r, NEW fo, Current(u, cs, r, fo), IsUI(v),
           v.req = u.req, v.listOf = u.listOf, v.notes = u.notes, v.listFor = u.listFor,
           v.foldersReq = u.foldersReq, v.foldersOf = u.foldersOf, v.folders = u.folders
    PROVE  Current(v, cs, r, fo)
BY DEF Current, Apart, FreshList, FreshFolders

LEMMA Rendered ==
    ASSUME NEW u, NEW cs, NEW r, NEW fo, Current(u, cs, r, fo), Render(u, cs)
    PROVE  Current(ui', calls', r, fo)
BY FetchNotes DEF Render, Current

\* A step that leaves the rows alone.
LEMMA StaysCurrent ==
    ASSUME CurrentInv, UNCHANGED <<rows, foreign>>, Current(ui', calls', rows, foreign)
    PROVE  CurrentInv'
BY DEF CurrentInv

-----------------------------------------------------------------------------
(* The user. *)

LEMMA QueryCurrent == ASSUME CurrentInv, NEW p, SetQuery(p) PROVE CurrentInv'
<1> DEFINE u == [ui EXCEPT !.path = p]
<1>1. Render(u, calls) /\ UNCHANGED <<rows, foreign>>
    BY DEF SetQuery
<1>2. /\ IsUI(u) /\ u.req = ui.req /\ u.listOf = ui.listOf /\ u.notes = ui.notes /\ u.listFor = ui.listFor
      /\ u.foldersReq = ui.foldersReq /\ u.foldersOf = ui.foldersOf /\ u.folders = ui.folders
    BY DEF CurrentInv, Current, Apart, IsUI
<1> HIDE DEF u
<1>3. Current(u, calls, rows, foreign)
    BY <1>2, SameLists DEF CurrentInv
<1> QED BY <1>1, <1>3, Rendered, StaysCurrent

\* The same lists, and a request more that does not fetch them.
LEMMA QuietCurrent ==
    ASSUME CurrentInv, UNCHANGED <<rows, foreign>>, IsUI(ui'),
           NEW c, Full(c), c.op \notin {"list", "folders"}, c.stage = "sent", c.live,
           calls' = calls \/ calls' = calls \cup {c},
           ui'.req = ui.req, ui'.listOf = ui.listOf, ui'.notes = ui.notes, ui'.listFor = ui.listFor,
           ui'.foldersReq = ui.foldersReq, ui'.foldersOf = ui.foldersOf, ui'.folders = ui.folders
    PROVE  CurrentInv'
<1>1. Current(ui, calls', rows, foreign)
    BY SendPlain DEF CurrentInv
<1>2. Current(ui', calls', rows, foreign)
    BY <1>1, SameLists
<1> QED BY <1>2, StaysCurrent

LEMMA StartCurrent ==
    ASSUME CurrentInv, NEW op, op \notin {"list", "folders"}, NEW note, NEW folder, Start(op, note, folder)
    PROVE  CurrentInv'
<1> DEFINE c == Call(op, ui.acts + 1, FolderId(ui), note, folder)
<1>1. Full(c) /\ c.op = op /\ c.stage = "sent" /\ c.live
    BY FullCall
<1>2. calls' = calls \cup {c} /\ UNCHANGED <<rows, foreign>>
    BY DEF Start
<1> HIDE DEF c
<1>3. /\ IsUI(ui') /\ ui'.req = ui.req /\ ui'.listOf = ui.listOf /\ ui'.notes = ui.notes
      /\ ui'.listFor = ui.listFor
      /\ ui'.foldersReq = ui.foldersReq /\ ui'.foldersOf = ui.foldersOf /\ ui'.folders = ui.folders
    BY DEF Start, CurrentInv, Current, Apart, IsUI
<1> QED BY <1>1, <1>2, <1>3, QuietCurrent

LEMMA OpenCurrent == ASSUME CurrentInv, OpenShared \/ OpenNote PROVE CurrentInv'
<1> DEFINE c == Call("seen", ui.acts + 1, Top, AnyNote, Top)
<1>1. Full(c) /\ c.op = "seen" /\ c.stage = "sent" /\ c.live
    BY FullCall
<1>2. (calls' = calls \/ calls' = calls \cup {c}) /\ UNCHANGED <<rows, foreign>>
    BY DEF OpenShared, OpenNote
<1> HIDE DEF c
<1>3. /\ IsUI(ui') /\ ui'.req = ui.req /\ ui'.listOf = ui.listOf /\ ui'.notes = ui.notes
      /\ ui'.listFor = ui.listFor
      /\ ui'.foldersReq = ui.foldersReq /\ ui'.foldersOf = ui.foldersOf /\ ui'.folders = ui.folders
    <2>1. IsUI(ui)
        BY DEF CurrentInv, Current, Apart
    <2>2. CASE OpenShared
        <3>1. ui' = [ui EXCEPT !.shared = "seen", !.going = TRUE, !.acts = @ + 1]
            BY <2>2 DEF OpenShared
        <3> QED BY <2>1, <3>1 DEF IsUI
    <2>3. CASE OpenNote
        <3>1. ui' = [ui EXCEPT !.going = TRUE]
            BY <2>3 DEF OpenNote
        <3> QED BY <2>1, <3>1 DEF IsUI
    <2> QED BY <2>2, <2>3
<1> QED BY <1>1, <1>2, <1>3, QuietCurrent

LEMMA SharesCurrent == ASSUME CurrentInv, HandleSharesChanged PROVE CurrentInv'
<1> DEFINE a == Asked(ui)
           cs == calls \cup {ListCall(ui, FolderId(ui))}
           b == [a EXCEPT !.foldersReq = @ + 1]
           f == FoldersCall(ui, Top, Top)
           s == SharedCall(ui)
<1>1. Apart(a, cs) /\ FreshList(a, cs, rows, foreign) /\ FreshFolders(a, cs, rows, foreign)
    BY FetchNotes DEF CurrentInv, Current
<1>2. IsUI(ui)
    BY DEF CurrentInv, Current, Apart
<1>3. IsUI(a) /\ a.foldersReq = ui.foldersReq
    BY <1>2 DEF Asked, IsUI
<1>4. f = FoldersCall(a, Top, Top)
    BY <1>3 DEF FoldersCall
<1>5. /\ ui' = [a EXCEPT !.foldersReq = @ + 1, !.sharedReq = @ + 1]
      /\ calls' = (cs \cup {f}) \cup {s} /\ UNCHANGED <<rows, foreign>>
    BY DEF HandleSharesChanged
<1>6. Full(s) /\ s.op = "shared" /\ s.stage = "sent" /\ s.live
    BY FullCall DEF SharedCall
<1> HIDE DEF a, cs, f, s
<1>7. Current(b, cs \cup {f}, rows, foreign)
    BY <1>1, <1>4, FetchFolders DEF Current
<1>8. Current(b, calls', rows, foreign)
    BY <1>5, <1>6, <1>7, SendPlain
<1>9. /\ IsUI(ui') /\ ui'.req = b.req /\ ui'.listOf = b.listOf /\ ui'.notes = b.notes
      /\ ui'.listFor = b.listFor
      /\ ui'.foldersReq = b.foldersReq /\ ui'.foldersOf = b.foldersOf /\ ui'.folders = b.folders
    BY <1>3, <1>5 DEF IsUI
<1> HIDE DEF b
<1>10. Current(ui', calls', rows, foreign)
    BY <1>8, <1>9, SameLists
<1> QED BY <1>5, <1>10, StaysCurrent

\* A new shell.
LEMMA MountCurrent ==
    ASSUME NEW p, NEW r, NEW fo, NEW u, u = Mount(p, r), NEW old,
           \A c \in old : Full(c) /\ c.op \notin {"list", "folders", "shared"} /\ c.stage = "sent"
    PROVE  Current(u, old \cup MountCalls(u), r, fo)
<1>1. PICK s, l : /\ s = Call("shared", 1, Top, AnyNote, Top)
                  /\ l = Call("list", 1, FolderId(u), AnyNote, Top)
    OBVIOUS
<1>2. Full(s) /\ s.op = "shared" /\ s.stage = "sent"
    BY <1>1, FullCall
<1>3. Full(l) /\ l.op = "list" /\ l.n = 1 /\ l.stage = "sent" /\ l.live
    BY <1>1, FullCall
<1>4. /\ IsUI(u) /\ u.listOf = 0 /\ u.listFor = Top /\ u.foldersReq = 0 /\ u.foldersOf = 0
      /\ u.folders = r.folders
      /\ IF u.pending THEN u.req = 1 ELSE u.req = 0 /\ u.notes = Listing(r.place, Top)
    BY DEF Mount, IsUI
<1>5. MountCalls(u) = {s} \cup (IF u.pending THEN {l} ELSE {})
    BY <1>1 DEF MountCalls
<1>6. PICK all : all = old \cup MountCalls(u)
    OBVIOUS
<1>7. \A c \in all : /\ Full(c) /\ c.op # "folders" /\ c.stage = "sent"
                     /\ c.op = "list" => c = l /\ u.req = 1
    BY <1>2, <1>3, <1>4, <1>5, <1>6
<1>8. Apart(u, all)
    BY <1>3, <1>4, <1>7 DEF Apart
<1>9. FreshList(u, all, r, fo)
    BY <1>4, <1>7 DEF FreshList
<1>10. FreshFolders(u, all, r, fo)
    BY <1>4, <1>7 DEF FreshFolders
<1> QED BY <1>6, <1>8, <1>9, <1>10 DEF Current

LEMMA NavigateCurrent == ASSUME CurrentInv, Navigate PROVE CurrentInv'
<1> DEFINE old == {[c EXCEPT !.live = FALSE] :
                     c \in {c \in calls : c.stage = "sent" /\ c.op \notin {"list", "folders", "shared"}}}
<1>1. \A c \in old : Full(c) /\ c.op \notin {"list", "folders", "shared"} /\ c.stage = "sent"
    BY DEF CurrentInv, Current, Apart, Full
<1>2. ui' = Mount(ui.path, rows) /\ calls' = old \cup MountCalls(ui') /\ rows' = rows
    BY DEF Navigate
<1> HIDE DEF old
<1>3. Current(ui', calls', rows, foreign')
    BY <1>1, <1>2, MountCurrent
<1>4. {"list", "folders"} \subseteq DOMAIN foreign'
    BY DEF Navigate
<1> QED BY <1>2, <1>3, <1>4 DEF CurrentInv

-----------------------------------------------------------------------------
(* The routes. *)

LEMMA FetchCurrent ==
    ASSUME NEW u, NEW cs, NEW r, NEW fo, Current(u, cs, r, fo), NEW c \in cs, c.stage = "sent",
           c.op \in {"list", "folders", "shared"},
           NEW e, Full(e), e.op = c.op, e.n = c.n, e.live, e.stage = "done",
           c.op = "list" => e.filter = c.filter /\ e.notes = Listing(r.place, c.filter),
           c.op = "folders" => e.folders = r.folders,
           NEW go, fo.list /\ ~(c.op = "list" /\ c.n = u.req) => go.list,
           fo.folders /\ ~(c.op = "folders" /\ c.n = u.foldersReq) => go.folders
    PROVE  Current(u, (cs \ {c}) \cup {e}, r, go)
<1> DEFINE all == (cs \ {c}) \cup {e}
<1>1. Apart(u, all)
    BY DEF Current, Apart
<1>2. (Moved(cs) => Moved(all)) /\ (Made(cs) => Made(all))
    BY DEF Moved, Made
<1>3. FreshList(u, all, r, go)
    BY <1>2 DEF Current, Apart, FreshList
<1>4. FreshFolders(u, all, r, go)
    BY <1>2 DEF Current, Apart, FreshFolders
<1> QED BY <1>1, <1>3, <1>4 DEF Current

\* From the rows r to s: what changed is told by the answer e, or was noted in go.
Told(r, s, fo, go, e) ==
  /\ s.place = r.place \/ (e.ok /\ e.op \in {"move", "destroy"}) \/ go.list
  /\ s.folders = r.folders \/ (e.ok /\ e.op \in {"mkdir", "rmdir"}) \/ go.folders
  /\ fo.list => go.list
  /\ fo.folders => go.folders

LEMMA ChangeCurrent ==
    ASSUME NEW u, NEW cs, NEW r, NEW fo, Current(u, cs, r, fo), NEW c \in cs, c.stage = "sent",
           NEW e, Full(e), e.op = c.op, e.n = c.n, e.live, e.stage = "done", e.op \notin {"list", "folders"},
           NEW s, NEW go, Told(r, s, fo, go, e),
           NEW all, all = (cs \ {c}) \cup {e}
    PROVE  Current(u, all, s, go)
<1>1. Apart(u, all)
    BY DEF Current, Apart
<1>2. (Moved(cs) => Moved(all)) /\ (e.ok /\ e.op \in {"move", "destroy"} => Moved(all))
    BY DEF Moved
<1>3. (Made(cs) => Made(all)) /\ (e.ok /\ e.op \in {"mkdir", "rmdir"} => Made(all))
    BY DEF Made
<1>4. \A d \in all : d \in cs \/ d.op \notin {"list", "folders"}
    OBVIOUS
<1>5. FreshList(u, all, s, go)
    BY <1>2, <1>4 DEF Current, FreshList, Told
<1>6. FreshFolders(u, all, s, go)
    BY <1>3, <1>4 DEF Current, FreshFolders, Told
<1> QED BY <1>1, <1>5, <1>6 DEF Current

LEMMA ServeCurrent == ASSUME CurrentInv, NEW c \in calls, Serve(c) PROVE CurrentInv'
<1>1. /\ Full(c) /\ c.stage = "sent" /\ ui' = ui /\ Current(ui, calls, rows, foreign)
      /\ c.op \in {"list", "folders"} => c.live
    BY DEF Serve, CurrentInv, Current, Apart
<1>2. CASE c.op \in {"list", "folders", "shared"}
    <2>1. PICK d : d = [c EXCEPT !.notes = IF c.op = "list" THEN Listing(rows.place, c.filter) ELSE {},
                                 !.folders = IF c.op = "folders" THEN rows.folders ELSE {},
                                 !.seen = IF c.op = "shared" THEN rows.seen ELSE FALSE]
        OBVIOUS
    <2>2. PICK e : e = [d EXCEPT !.stage = "done"]
        OBVIOUS
    <2>3. /\ rows' = rows
          /\ calls' = (calls \ {c}) \cup (IF c.live THEN {e} ELSE {})
          /\ foreign' = [list |-> foreign.list /\ ~(c.op = "list" /\ c.n = ui.req),
                         folders |-> foreign.folders /\ ~(c.op = "folders" /\ c.n = ui.foldersReq)]
        BY <1>2, <2>1, <2>2 DEF Serve, ServeFetch, Answered
    <2>4. /\ DOMAIN d = DOMAIN c /\ d.op = c.op /\ d.n = c.n /\ d.live = c.live /\ d.filter = c.filter
          /\ d.notes = IF c.op = "list" THEN Listing(rows.place, c.filter) ELSE {}
          /\ d.folders = IF c.op = "folders" THEN rows.folders ELSE {}
        BY <1>1, <2>1 DEF Full
    <2>5. /\ Full(e) /\ e.op = c.op /\ e.n = c.n /\ e.live = c.live /\ e.filter = c.filter
          /\ e.notes = d.notes /\ e.folders = d.folders /\ e.stage = "done"
        BY <1>1, <2>2, <2>4 DEF Full
    <2>6. /\ DOMAIN foreign' = {"list", "folders"}
          /\ foreign.list /\ ~(c.op = "list" /\ c.n = ui.req) => foreign'.list
          /\ foreign.folders /\ ~(c.op = "folders" /\ c.n = ui.foldersReq) => foreign'.folders
        BY <2>3
    <2>7. Current(ui, calls', rows, foreign')
        <3>1. CASE c.live
            <4>1. calls' = (calls \ {c}) \cup {e}
                BY <2>3, <3>1
            <4>2. c.op = "list" => e.filter = c.filter /\ e.notes = Listing(rows.place, c.filter)
                BY <2>4, <2>5
            <4>3. c.op = "folders" => e.folders = rows.folders
                BY <2>4, <2>5
            <4> QED BY <1>1, <1>2, <2>5, <2>6, <3>1, <4>1, <4>2, <4>3, FetchCurrent
        <3>2. CASE ~c.live
            <4>1. calls' = calls \ {c} /\ c.op = "shared"
                BY <1>1, <1>2, <2>3, <3>2
            <4>2. Current(ui, calls \ {c}, rows, foreign)
                BY <1>1, <4>1, Removed DEF Current
            <4> QED BY <2>6, <4>1, <4>2 DEF Current, FreshList, FreshFolders
        <3> QED BY <3>1, <3>2
    <2> QED BY <1>1, <2>3, <2>6, <2>7 DEF CurrentInv
<1>3. CASE c.op \notin {"list", "folders", "shared"}
    <2>1. PICK d : d = [c EXCEPT !.ok = Possible(c)]
        OBVIOUS
    <2>2. PICK e : e = [d EXCEPT !.stage = "done"]
        OBVIOUS
    <2>3. /\ calls' = (calls \ {c}) \cup (IF c.live THEN {e} ELSE {})
          /\ rows' = IF Possible(c) THEN After(c) ELSE rows
          /\ foreign' = IF c.live THEN foreign
                        ELSE [list |-> foreign.list \/ rows'.place # rows.place,
                              folders |-> foreign.folders \/ rows'.folders # rows.folders]
        BY <1>3, <2>1, <2>2 DEF Serve, ServeChange, Answered
    <2>4. /\ DOMAIN d = DOMAIN c /\ d.op = c.op /\ d.n = c.n /\ d.live = c.live /\ d.ok = Possible(c)
        BY <1>1, <2>1 DEF Full
    <2>5. /\ Full(e) /\ e.op = c.op /\ e.n = c.n /\ e.live = c.live /\ e.ok = Possible(c) /\ e.stage = "done"
        BY <1>1, <2>2, <2>4 DEF Full
    <2>6. /\ DOMAIN rows' = DOMAIN rows
          /\ rows'.place = rows.place \/ (Possible(c) /\ c.op \in {"move", "destroy"})
          /\ rows'.folders = rows.folders \/ (Possible(c) /\ c.op \in {"mkdir", "rmdir"})
        BY <2>3 DEF CurrentInv, After
    <2>7. /\ {"list", "folders"} \subseteq DOMAIN foreign'
          /\ foreign.list => foreign'.list
          /\ foreign.folders => foreign'.folders
          /\ ~c.live => (rows'.place = rows.place \/ foreign'.list) /\ (rows'.folders = rows.folders \/ foreign'.folders)
        BY <2>3 DEF CurrentInv
    <2>8. Current(ui, calls', rows', foreign')
        <3>1. CASE c.live
            <4>1. e.op \notin {"list", "folders"} /\ e.live
                BY <1>3, <2>5, <3>1
            <4>2. rows'.place = rows.place \/ (e.ok /\ e.op \in {"move", "destroy"}) \/ foreign'.list
                BY <2>5, <2>6
            <4>3. rows'.folders = rows.folders \/ (e.ok /\ e.op \in {"mkdir", "rmdir"}) \/ foreign'.folders
                BY <2>5, <2>6
            <4>4. PICK all, s, go : all = calls' /\ s = rows' /\ go = foreign'
                OBVIOUS
            <4>5. Told(rows, s, foreign, go, e)
                BY <2>7, <4>2, <4>3, <4>4 DEF Told
            <4>6. all = (calls \ {c}) \cup {e}
                BY <2>3, <3>1, <4>4
            <4>7. Current(ui, all, s, go)
                BY <1>1, <2>5, <4>1, <4>5, <4>6, ChangeCurrent
            <4> QED BY <4>4, <4>7
        <3>2. CASE ~c.live
            <4>1. calls' = calls \ {c}
                BY <2>3, <3>2
            <4>2. Current(ui, calls \ {c}, rows, foreign)
                BY <1>1, <3>2, Removed DEF Current, Apart
            <4> QED BY <2>7, <3>2, <4>1, <4>2 DEF Current, FreshList, FreshFolders
        <3> QED BY <3>1, <3>2
    <2> QED BY <1>1, <2>6, <2>7, <2>8 DEF CurrentInv
<1> QED BY <1>2, <1>3

-----------------------------------------------------------------------------
(* Answers. *)

LEMMA FoldersAnswerCurrent ==
    ASSUME NEW r, NEW go, Current(ui, calls, r, go), NEW c \in calls, c.op = "folders",
           NEW ok, ok => c.stage = "done" /\ c.ok, FoldersAnswer(c, ok)
    PROVE  Current(ui', calls', r, go)
<1>1. PICK got : got = IF ok THEN [ui EXCEPT !.folders = c.folders, !.foldersOf = c.n] ELSE ui
    OBVIOUS
<1>2. PICK u : u = [got EXCEPT !.path = IF c.folder # Top /\ c.folder = c.filter THEN Top ELSE @]
    OBVIOUS
<1>3. Render(u, calls \ {c})
    BY <1>1, <1>2 DEF FoldersAnswer
<1>4. IsUI(ui)
    BY DEF Current, Apart
<1>5. /\ IsUI(got) /\ got.req = ui.req /\ got.listOf = ui.listOf /\ got.notes = ui.notes
      /\ got.listFor = ui.listFor /\ got.foldersReq = ui.foldersReq
      /\ got.foldersOf = (IF ok THEN c.n ELSE ui.foldersOf) /\ got.folders = (IF ok THEN c.folders ELSE ui.folders)
    BY <1>1, <1>4 DEF IsUI
<1>6. /\ IsUI(u) /\ u.req = ui.req /\ u.listOf = ui.listOf /\ u.notes = ui.notes
      /\ u.listFor = ui.listFor /\ u.foldersReq = ui.foldersReq
      /\ u.foldersOf = (IF ok THEN c.n ELSE ui.foldersOf) /\ u.folders = (IF ok THEN c.folders ELSE ui.folders)
    BY <1>2, <1>5 DEF IsUI
<1>7. Current(ui, calls \ {c}, r, go)
    BY Removed DEF Current
<1>8. \A d \in calls \ {c} : d.op = "folders" => d.n # c.n
    BY DEF Current, Apart
<1>9. c.n \in 0..ui.foldersReq
    BY DEF Current, Apart
<1>10. Apart(u, calls \ {c})
    BY <1>6, <1>7, <1>8, <1>9 DEF Current, Apart
<1>11. FreshList(u, calls \ {c}, r, go)
    BY <1>6, <1>7 DEF Current, FreshList
<1>12. FreshFolders(u, calls \ {c}, r, go)
    <2>1. Made(calls) => Made(calls \ {c})
        BY DEF Made
    <2> QED BY <1>6, <1>7, <2>1 DEF Current, FreshFolders
<1> QED BY <1>3, <1>10, <1>11, <1>12, Rendered DEF Current

LEMMA ListAnswerCurrent ==
    ASSUME NEW r, NEW go, Current(ui, calls, r, go), NEW c \in calls, c.op = "list",
           NEW ok, ok => c.stage = "done" /\ c.ok, ListAnswer(c, ok)
    PROVE  Current(ui', calls', r, go)
<1>1. Current(ui, calls \ {c}, r, go)
    BY Removed DEF Current
<1>2. CASE c.n # ui.req
    <2>1. Render(ui, calls \ {c})
        BY <1>2 DEF ListAnswer
    <2> QED BY <1>1, <2>1, Rendered
<1>3. CASE c.n = ui.req
    <2>1. PICK u : u = [ui EXCEPT !.notes = IF ok THEN c.notes ELSE @, !.pending = FALSE,
                         !.listOf = IF ok THEN c.n ELSE @, !.listFor = IF ok THEN c.filter ELSE @]
        OBVIOUS
    <2>2. Render(u, calls \ {c})
        BY <1>3, <2>1 DEF ListAnswer
    <2>3. IsUI(ui)
        BY DEF Current, Apart
    <2>4. /\ IsUI(u) /\ u.req = ui.req /\ u.foldersReq = ui.foldersReq
          /\ u.foldersOf = ui.foldersOf /\ u.folders = ui.folders
        BY <2>1, <2>3 DEF IsUI
    <2>5. /\ u.listOf = (IF ok THEN c.n ELSE ui.listOf) /\ u.notes = (IF ok THEN c.notes ELSE ui.notes)
          /\ u.listFor = IF ok THEN c.filter ELSE ui.listFor
        BY <2>1, <2>3 DEF IsUI
    <2>6. \A d \in calls \ {c} : d.op = "list" => d.n # c.n
        BY DEF Current, Apart
    <2>7. c.n \in 0..ui.req
        BY DEF Current, Apart
    <2>8. Apart(u, calls \ {c})
        BY <1>1, <2>4, <2>5, <2>6, <2>7 DEF Current, Apart
    <2>9. FreshFolders(u, calls \ {c}, r, go)
        BY <1>1, <2>4 DEF Current, FreshFolders
    <2>10. FreshList(u, calls \ {c}, r, go)
        <3>1. Moved(calls) => Moved(calls \ {c})
            BY DEF Moved
        <3> QED BY <1>1, <1>3, <2>4, <2>5, <2>6, <3>1 DEF Current, FreshList
    <2> QED BY <2>2, <2>8, <2>9, <2>10, Rendered DEF Current
<1> QED BY <1>2, <1>3

LEMMA SharedAnswerCurrent ==
    ASSUME NEW r, NEW go, Current(ui, calls, r, go), NEW c \in calls, c.op = "shared",
           NEW ok, SharedAnswer(c, ok)
    PROVE  Current(ui', calls', r, go)
<1>1. PICK u : u = IF c.n # ui.sharedReq \/ ~ok THEN ui
                   ELSE [ui EXCEPT !.sharedOf = c.n, !.shared = IF c.seen THEN "seen" ELSE "unseen"]
    OBVIOUS
<1>2. Render(u, calls \ {c})
    BY <1>1 DEF SharedAnswer
<1>3. IsUI(ui)
    BY DEF Current, Apart
<1>4. /\ IsUI(u) /\ u.req = ui.req /\ u.listOf = ui.listOf /\ u.notes = ui.notes /\ u.listFor = ui.listFor
      /\ u.foldersReq = ui.foldersReq /\ u.foldersOf = ui.foldersOf /\ u.folders = ui.folders
    BY <1>1, <1>3 DEF IsUI
<1>5. Current(ui, calls \ {c}, r, go)
    BY Removed DEF Current
<1>6. Current(u, calls \ {c}, r, go)
    BY <1>4, <1>5, SameLists
<1> QED BY <1>2, <1>6, Rendered

\* A change that went well is followed by a fetch; one that is told as failed and
\* went well is noted in go.
LEMMA ChangeAnswerCurrent ==
    ASSUME NEW r, NEW go, Current(ui, calls, r, go), NEW c \in calls,
           NEW ok, ChangeAnswer(c, ok),
           \/ ok \/ ~c.ok \/ c.stage # "done" \/ (go.list /\ go.folders)
           \/ c.op \notin {"move", "destroy", "mkdir", "rmdir"}
    PROVE  Current(ui', calls', r, go)
<1> DEFINE cs == calls \ {c}
<1>1. Apart(ui, cs)
    BY Removed DEF Current
<1>2. (c.op \in {"move", "destroy"} /\ c.stage = "done" /\ c.ok) \/ FreshList(ui, cs, r, go)
    BY Removed
<1>3. (c.op \in {"mkdir", "rmdir"} /\ c.stage = "done" /\ c.ok) \/ FreshFolders(ui, cs, r, go)
    BY Removed
<1>4. go.list /\ go.folders => FreshList(ui, cs, r, go) /\ FreshFolders(ui, cs, r, go)
    BY DEF FreshList, FreshFolders
<1> HIDE DEF cs
<1>5. CASE ~ok \/ c.op = "seen"
    <2>1. Render(ui, cs)
        BY <1>5 DEF ChangeAnswer, cs
    <2>2. FreshList(ui, cs, r, go) /\ FreshFolders(ui, cs, r, go)
        BY <1>2, <1>3, <1>4, <1>5
    <2> QED BY <1>1, <2>1, <2>2, Rendered DEF Current
<1>6. CASE ok /\ c.op \in {"move", "destroy"}
    <2>1. Render(Asked(ui), cs \cup {ListCall(ui, c.filter)})
        BY <1>6 DEF ChangeAnswer, cs
    <2>2. FreshFolders(ui, cs, r, go)
        BY <1>3, <1>6
    <2>3. Current(Asked(ui), cs \cup {ListCall(ui, c.filter)}, r, go)
        BY <1>1, <2>2, FetchNotes DEF Current
    <2> QED BY <2>1, <2>3, Rendered
<1>7. CASE ok /\ c.op \notin {"seen", "move", "destroy"}
    <2> DEFINE a == [ui EXCEPT !.foldersReq = @ + 1]
    <2>1. \E f, g : Render(a, cs \cup {FoldersCall(ui, f, g)})
        BY <1>7 DEF ChangeAnswer, cs
    <2>2. PICK f, g : Render(a, cs \cup {FoldersCall(ui, f, g)})
        BY <2>1
    <2>3. FreshList(ui, cs, r, go)
        BY <1>2, <1>7
    <2>4. Current(a, cs \cup {FoldersCall(ui, f, g)}, r, go)
        BY <1>1, <2>3, FetchFolders DEF Current
    <2> HIDE DEF a
    <2> QED BY <2>2, <2>4, Rendered
<1> QED BY <1>5, <1>6, <1>7

LEMMA ApplyCurrent ==
    ASSUME NEW r, NEW go, Current(ui, calls, r, go), NEW c \in calls,
           NEW ok, ok => c.stage = "done" /\ c.ok, Apply(c, ok),
           \/ ok \/ ~c.ok \/ c.stage # "done" \/ (go.list /\ go.folders)
           \/ c.op \notin {"move", "destroy", "mkdir", "rmdir"}
    PROVE  Current(ui', calls', r, go)
<1>1. CASE c.op = "list"
    BY <1>1, ListAnswerCurrent DEF Apply
<1>2. CASE c.op = "shared"
    BY <1>2, SharedAnswerCurrent DEF Apply
<1>3. CASE c.op = "folders"
    BY <1>3, FoldersAnswerCurrent DEF Apply
<1>4. CASE c.op \notin {"list", "shared", "folders"}
    <2>1. ChangeAnswer(c, ok)
        BY <1>4 DEF Apply
    <2> QED BY <2>1, ChangeAnswerCurrent
<1> QED BY <1>1, <1>2, <1>3, <1>4

LEMMA AnswerCurrent == ASSUME CurrentInv, NEW c \in calls, Answer(c) \/ Fail(c) PROVE CurrentInv'
<1>1. Current(ui, calls, rows, foreign) /\ rows' = rows
    BY DEF CurrentInv, Answer, Fail
<1>2. CASE Answer(c)
    <2>1. Apply(c, c.ok) /\ c.stage = "done" /\ foreign' = foreign
        BY <1>2 DEF Answer
    <2>2. Current(ui', calls', rows, foreign)
        BY <1>1, <2>1, ApplyCurrent
    <2> QED BY <1>1, <2>1, <2>2 DEF CurrentInv
<1>3. CASE Fail(c)
    <2>1. Apply(c, FALSE)
        BY <1>3 DEF Fail
    <2>2. \/ foreign' = foreign /\ (c.stage # "done" \/ c.op \notin {"move", "destroy", "mkdir", "rmdir"})
          \/ DOMAIN foreign' = {"list", "folders"} /\ foreign'.list /\ foreign'.folders
        BY <1>3 DEF Fail
    <2>3. Current(ui, calls, rows, foreign')
        BY <1>1, <2>2 DEF Current, FreshList, FreshFolders
    <2>4. Current(ui', calls', rows, foreign')
        BY <2>1, <2>2, <2>3, ApplyCurrent
    <2> QED BY <1>1, <2>2, <2>4 DEF CurrentInv
<1> QED BY <1>2, <1>3

LEMMA ElsewhereCurrent == ASSUME CurrentInv, NEW n, NEW f, Elsewhere(n, f) PROVE CurrentInv'
<1>1. /\ UNCHANGED <<ui, calls>> /\ DOMAIN rows' = DOMAIN rows /\ rows'.folders = rows.folders
      /\ DOMAIN foreign' = DOMAIN foreign /\ foreign'.list /\ foreign'.folders = foreign.folders
    BY DEF Elsewhere, CurrentInv
<1> QED BY <1>1 DEF CurrentInv, Current, FreshList, FreshFolders

LEMMA InitCurrent == Init => CurrentInv
<1> SUFFICES ASSUME Init PROVE CurrentInv
    OBVIOUS
<1>1. PICK p \in Filters : ui = Mount(p, rows) /\ calls = MountCalls(ui)
    BY DEF Init
<1>2. PICK none : none = {}
    OBVIOUS
<1>3. Current(ui, none \cup MountCalls(ui), rows, foreign)
    BY <1>1, <1>2, MountCurrent
<1>4. none \cup MountCalls(ui) = calls
    BY <1>1, <1>2
<1> QED BY <1>3, <1>4 DEF Init, CurrentInv

LEMMA NextCurrent == CurrentInv /\ [Next]_vars => CurrentInv'
<1> SUFFICES ASSUME CurrentInv, [Next]_vars PROVE CurrentInv'
    OBVIOUS
<1>1. ASSUME NEW p \in Filters, SetQuery(p) PROVE CurrentInv'
    BY <1>1, QueryCurrent
<1>2. ASSUME NEW i \in ui.notes, HandleDeleteNote(i) PROVE CurrentInv'
    BY <1>2, StartCurrent DEF HandleDeleteNote
<1>3. ASSUME NEW i \in ui.notes, NEW f, HandleMoveNote(i, f) PROVE CurrentInv'
    BY <1>3, StartCurrent DEF HandleMoveNote
<1>4. ASSUME NEW f, HandleCreateFolder(f) \/ HandleDeleteFolder(f) \/ HandlePatchFolder(f) PROVE CurrentInv'
    BY <1>4, StartCurrent DEF HandleCreateFolder, HandleDeleteFolder, HandlePatchFolder
<1>5. CASE HandleSharesChanged \/ OpenShared \/ OpenNote \/ Navigate
    BY <1>5, SharesCurrent, OpenCurrent, NavigateCurrent
<1>6. ASSUME NEW c \in calls, Serve(c) \/ Answer(c) \/ Fail(c) PROVE CurrentInv'
    BY <1>6, ServeCurrent, AnswerCurrent
<1>7. ASSUME NEW n, NEW f, Elsewhere(n, f) PROVE CurrentInv'
    BY <1>7, ElsewhereCurrent
<1>8. CASE UNCHANGED vars
    BY <1>8, StaysCurrent DEF vars, CurrentInv
<1> QED BY <1>1, <1>2, <1>3, <1>4, <1>5, <1>6, <1>7, <1>8 DEF Next

\* With nothing under way both lists are the server's, and none is loading
\* (NotesShell.tsx:140-150, :154-173, :256-263, :298-305, :339-359).
THEOREM RestingShellsAreCurrent == Spec => []RestingShellIsCurrent
<1>1. ASSUME CurrentInv, PendingMeansWaiting PROVE RestingShellIsCurrent
    <2>1. ~Awaiting({"list", "move", "destroy", "folders", "rmdir"}) => ~Moved(calls)
        BY DEF Awaiting, Moved
    <2>2. ~Awaiting({"folders", "mkdir", "rmdir", "patch"}) => ~Made(calls)
        BY DEF Awaiting, Made
    <2>3. FolderId(ui) \in ui.folders \cup {Top}
        BY DEF FolderId
    <2>4. FreshList(ui, calls, rows, foreign) /\ FreshFolders(ui, calls, rows, foreign)
        BY <1>1 DEF CurrentInv, Current
    <2>5. ~Awaiting({"list"}) => ~ui.pending
        BY <1>1 DEF PendingMeansWaiting, Awaiting
    <2> QED BY <2>1, <2>2, <2>3, <2>4, <2>5 DEF RestingShellIsCurrent, FreshList, FreshFolders
<1> QED BY <1>1, InitCurrent, NextCurrent, LoadingEnds, PTL DEF Spec
=============================================================================
