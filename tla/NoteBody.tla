------------------------------ MODULE NoteBody ------------------------------
(***************************************************************************)
(* The plain-text mirror of a note and the assets embedded in it: the save *)
(* loop of the editor (NoteEditor.tsx, lib/notes/save-state.ts), the body  *)
(* route (app/api/notes/[id]/body/route.ts), asset upload and the hourly   *)
(* sweep of the worker (processors/assets-sweep.ts), for one note.         *)
(*                                                                         *)
(* The document itself travels through the relay (CollabRelay); here an    *)
(* update may reach an open tab at any time after it was made.             *)
(***************************************************************************)
EXTENDS Naturals

CONSTANTS
    Tab,         \* browser tabs that may have the note open
    Update,      \* document updates
    Asset,       \* images and PDFs
    Inserts,     \* the asset an update embeds, or NoAsset
    Deletes,     \* the update whose content an update removes, or NoUpdate
    NoAsset, NoUpdate,
    Grace,       \* days an asset stays unreferenced before it is swept
    MaxVersion,  \* bound: nobody opens the note after that many saves
    Events       \* which of AllEvents may happen

ASSUME EffectAssumption == /\ NoAsset \notin Asset /\ NoUpdate \notin Update
                           /\ Inserts \in [Update -> Asset \cup {NoAsset}]
                           /\ Deletes \in [Update -> Update \cup {NoUpdate}]
ASSUME GraceAssumption == Grace \in Nat \ {0} /\ MaxVersion \in Nat

\* A save slower than the 5 s interval; a request that fails on the server; a
\* response that does not arrive; a tab that is closed.
AllEvents == {"slow", "fail", "lose", "close"}
ASSUME EventsAssumption == Events \subseteq AllEvents

VARIABLES
    \* The tabs
    doc,         \* updates in each tab's Y.Doc
    state,       \* saveState of each tab, "closed" without an editor
    base,        \* baseBodyVersion of each tab
    made,        \* updates made so far
    \* The requests to PUT /api/notes/[id]/body
    puts,
    \* The database
    body,        \* the updates mirrored in Note.body
    version,     \* Note.bodyVersion
    stored,      \* assets that have a row
    mark,        \* 0: unreferencedSince is null, n: stamped n - 1 days ago
    \* History variables, read by properties only
    reported,    \* days since an accepted save listed the asset
    overlapped   \* tabs that have had two saves under way at a time

tabVars == <<doc, state, base, made, overlapped>>
noteVars == <<body, version>>
assetVars == <<stored, mark, reported>>
vars == <<tabVars, puts, noteVars, assetVars>>

-----------------------------------------------------------------------------
SaveState == {"idle", "dirty", "saving", "saved", "conflict", "offline"}

\* The states of a request: before the version check, after it, after the
\* update of the note, and the three kinds of response.
Stage == {"sent", "checked", "written", "ok", "refused", "failed"}

\* waiting: does the tab still wait for the response?
Put == [tab: Tab, text: SUBSET Update, base: Nat, ver: Nat, stage: Stage,
        waiting: BOOLEAN]

\* referencedAssetIds of a document.
Refs(us) == {a \in Asset : \E u \in us : Inserts[u] = a /\ \A d \in us : Deletes[d] # u}

TypeOK ==
    /\ doc \in [Tab -> SUBSET Update]
    /\ state \in [Tab -> SaveState \cup {"closed"}]
    /\ base \in [Tab -> 0 .. version]
    /\ made \subseteq Update
    /\ puts \subseteq Put
    /\ body \subseteq Update /\ version \in Nat
    /\ stored \subseteq Asset
    /\ mark \in [Asset -> 0 .. Grace + 1]
    /\ reported \in [Asset -> 0 .. Grace]
    /\ overlapped \subseteq Tab

Init ==
    /\ doc = [t \in Tab |-> {}]
    /\ state = [t \in Tab |-> "closed"]
    /\ base = [t \in Tab |-> 0]
    /\ made = {}
    /\ puts = {}
    /\ body = {} /\ version = 0
    /\ stored = {} /\ mark = [a \in Asset |-> 0]
    /\ reported = [a \in Asset |-> 0]
    /\ overlapped = {}

-----------------------------------------------------------------------------
(* reduceSaveState. *)

\* Mutant: a response acknowledges whatever has been edited meanwhile.
ReduceAnyOk(s, event) ==
    CASE event = "edit" -> IF s = "conflict" THEN s ELSE "dirty"
      [] event = "save-start" -> IF s \in {"idle", "saved"} THEN s ELSE "saving"
      [] event = "save-ok" -> "saved"
      [] event = "save-conflict" -> "conflict"
      [] event = "save-network-error" -> "offline"

Reduce(s, event) ==
    CASE event = "edit" -> IF s = "conflict" THEN s ELSE "dirty"
      [] event = "save-start" -> IF s \in {"idle", "saved"} THEN s ELSE "saving"
      [] event = "save-ok" -> IF s = "saving" THEN "saved" ELSE s
      [] event = "save-conflict" -> "conflict"
      [] event = "save-network-error" -> "offline"

Dispatch(t, event) == state' = [state EXCEPT ![t] = Reduce(state[t], event)]

-----------------------------------------------------------------------------
(* The tabs. *)

IsOpen(t) == state[t] # "closed"

\* The note is fetched and its editor mounted, with an empty Y.Doc.  A tab
\* whose earlier requests are still on their way is another element of Tab.
Open(t) ==
    /\ ~IsOpen(t) /\ version <= MaxVersion
    /\ ~\E p \in puts : p.tab = t
    /\ state' = [state EXCEPT ![t] = "idle"]
    /\ base' = [base EXCEPT ![t] = version]
    /\ doc' = [doc EXCEPT ![t] = {}]
    /\ overlapped' = overlapped \ {t}
    /\ UNCHANGED <<made, puts, noteVars, assetVars>>

\* The editor unmounts; its requests go on without it.
Close(t) ==
    /\ "close" \in Events
    /\ IsOpen(t)
    /\ state' = [state EXCEPT ![t] = "closed"]
    /\ puts' = {[p EXCEPT !.waiting = p.waiting /\ p.tab # t] : p \in puts}
    /\ UNCHANGED <<doc, base, made, overlapped, noteVars, assetVars>>

\* Uploading gives the asset a row; only then is it embedded.
Upload(t, a) ==
    /\ IsOpen(t) /\ a \notin stored
    /\ stored' = stored \cup {a}
    /\ mark' = [mark EXCEPT ![a] = 0]
    /\ UNCHANGED <<tabVars, puts, noteVars, reported>>

\* A local edit.
Edit(t, u) ==
    /\ IsOpen(t) /\ u \notin made
    /\ Inserts[u] \in stored \cup {NoAsset}
    /\ Deletes[u] \in doc[t] \cup {NoUpdate}
    /\ made' = made \cup {u}
    /\ doc' = [doc EXCEPT ![t] = @ \cup {u}]
    /\ Dispatch(t, "edit")
    /\ UNCHANGED <<base, overlapped, puts, noteVars, assetVars>>

\* Mutant: only local edits make the editor dirty.
DeliverSilently(t, u) ==
    /\ IsOpen(t) /\ u \in made \ doc[t]
    /\ doc' = [doc EXCEPT ![t] = @ \cup {u}]
    /\ UNCHANGED <<state, base, made, overlapped, puts, noteVars, assetVars>>

\* The provider merges an update that was made elsewhere, or before the note
\* was opened here: Tiptap calls onUpdate for it like for a local edit.
Deliver(t, u) ==
    /\ IsOpen(t) /\ u \in made \ doc[t]
    /\ doc' = [doc EXCEPT ![t] = @ \cup {u}]
    /\ Dispatch(t, "edit")
    /\ UNCHANGED <<base, made, overlapped, puts, noteVars, assetVars>>

Waiting(t) == \E p \in puts : p.tab = t /\ p.waiting

\* The interval fires: save-start, then the request with what is in the editor.
\* Every change of saveState restarts the interval, so that an edit during a
\* save leads to a second one 5 s later, whether or not the first is back.
StartSave(t) ==
    /\ state[t] = "dirty"
    /\ "slow" \in Events \/ ~Waiting(t)
    /\ Dispatch(t, "save-start")
    /\ overlapped' = IF Waiting(t) THEN overlapped \cup {t} ELSE overlapped
    /\ puts' = puts \cup {[tab |-> t, text |-> doc[t], base |-> base[t], ver |-> 0,
                           stage |-> "sent", waiting |-> TRUE]}
    /\ UNCHANGED <<doc, base, made, noteVars, assetVars>>

\* The response arrives at a tab that still waits for it.
Response(p) ==
    /\ p \in puts /\ p.stage \in {"ok", "refused", "failed"}
    /\ puts' = puts \ {p}
    /\ IF ~p.waiting THEN UNCHANGED <<state, base>>
       ELSE /\ Dispatch(p.tab, CASE p.stage = "ok" -> "save-ok"
                                 [] p.stage = "refused" -> "save-conflict"
                                 [] p.stage = "failed" -> "save-network-error")
            /\ base' = IF p.stage = "ok" THEN [base EXCEPT ![p.tab] = p.ver] ELSE base
    /\ UNCHANGED <<doc, made, overlapped, noteVars, assetVars>>

\* fetch rejects while the server may still be working on the request.
LoseResponse(p) ==
    /\ "lose" \in Events
    /\ p \in puts /\ p.waiting
    /\ Dispatch(p.tab, "save-network-error")
    /\ puts' = (puts \ {p}) \cup {[p EXCEPT !.waiting = FALSE]}
    /\ UNCHANGED <<doc, base, made, overlapped, noteVars, assetVars>>

-----------------------------------------------------------------------------
(* The body route; each await ends a step. *)

Advance(p, stage) == puts' = (puts \ {p}) \cup {[p EXCEPT !.stage = stage]}

\* The note's version is read and compared with the request's.
CheckVersion(p) ==
    /\ p \in puts /\ p.stage = "sent"
    /\ Advance(p, IF version = p.base THEN "checked" ELSE "refused")
    /\ UNCHANGED <<tabVars, noteVars, assetVars>>

\* Mutant: the new version is computed from the one that was read.
WriteBodyFromRead(p) ==
    /\ p \in puts /\ p.stage = "checked"
    /\ body' = p.text
    /\ version' = p.base + 1
    /\ puts' = (puts \ {p}) \cup {[p EXCEPT !.stage = "written", !.ver = p.base + 1]}
    /\ UNCHANGED <<tabVars, assetVars>>

\* The update of the note: by id alone, with an atomic increment.
WriteBody(p) ==
    /\ p \in puts /\ p.stage = "checked"
    /\ body' = p.text
    /\ version' = version + 1
    /\ puts' = (puts \ {p}) \cup {[p EXCEPT !.stage = "written", !.ver = version + 1]}
    /\ UNCHANGED <<tabVars, assetVars>>

\* Mutant: a listed asset keeps its stamp.
ReconcileStampsOnly(p) ==
    /\ p \in puts /\ p.stage = "written"
    /\ mark' = [a \in Asset |-> IF a \in stored \ Refs(p.text) /\ mark[a] = 0
                                THEN 1 ELSE mark[a]]
    /\ reported' = [a \in Asset |-> IF a \in Refs(p.text) THEN 0 ELSE reported[a]]
    /\ Advance(p, "ok")
    /\ UNCHANGED <<tabVars, noteVars, stored>>

\* The second transaction: listed assets lose their stamp, the others get one
\* unless they have it.
Reconcile(p) ==
    /\ p \in puts /\ p.stage = "written"
    /\ mark' = [a \in Asset |-> CASE a \in stored \cap Refs(p.text) -> 0
                                  [] a \in stored \ Refs(p.text) /\ mark[a] = 0 -> 1
                                  [] OTHER -> mark[a]]
    /\ reported' = [a \in Asset |-> IF a \in Refs(p.text) THEN 0 ELSE reported[a]]
    /\ Advance(p, "ok")
    /\ UNCHANGED <<tabVars, noteVars, stored>>

\* The note is gone, access was taken away or a query throws.
FailPut(p) ==
    /\ "fail" \in Events
    /\ p \in puts /\ p.stage \in {"sent", "checked", "written"}
    /\ Advance(p, "failed")
    /\ UNCHANGED <<tabVars, noteVars, assetVars>>

-----------------------------------------------------------------------------
(* Days and the sweep. *)

\* Saves take seconds: a day goes by when nothing is on its way.
Settled == puts = {} /\ \A t \in Tab : /\ state[t] \notin {"dirty", "saving"}
                                       /\ IsOpen(t) => doc[t] = made

DayPasses ==
    /\ Settled
    /\ \E a \in stored : mark[a] \in 1 .. Grace
    /\ mark' = [a \in Asset |-> IF mark[a] \in 1 .. Grace THEN mark[a] + 1 ELSE mark[a]]
    /\ reported' = [a \in Asset |-> IF reported[a] < Grace THEN reported[a] + 1 ELSE Grace]
    /\ UNCHANGED <<tabVars, puts, noteVars, stored>>

\* processAssetsSweep.
Sweep ==
    /\ \E a \in stored : mark[a] > Grace
    /\ stored' = {a \in stored : mark[a] <= Grace}
    /\ UNCHANGED <<tabVars, puts, noteVars, mark, reported>>

-----------------------------------------------------------------------------
ServerStep(p) == CheckVersion(p) \/ WriteBody(p) \/ Reconcile(p) \/ FailPut(p)

Next ==
    \/ \E t \in Tab : \/ Open(t) \/ Close(t) \/ StartSave(t)
                      \/ \E a \in Asset : Upload(t, a)
                      \/ \E u \in Update : Edit(t, u) \/ Deliver(t, u)
    \/ \E p \in puts : ServerStep(p) \/ Response(p) \/ LoseResponse(p)
    \/ DayPasses
    \/ Sweep

Spec == Init /\ [][Next]_vars

\* The interval of an open tab keeps firing, requests are answered, updates
\* travel.  Nothing is assumed of users and failures.
Fairness ==
    \A t \in Tab :
        /\ WF_vars(StartSave(t))
        /\ WF_vars(\E u \in Update : Deliver(t, u))
        /\ WF_vars(\E p \in puts : p.tab = t /\ (ServerStep(p) \/ Response(p)))

FairSpec == Spec /\ Fairness

-----------------------------------------------------------------------------
(* Properties *)

\* While the indicator says saved and nobody has saved since, Note.body is
\* what the editor shows, edits made during the save included.  When a save
\* outlasts the interval a second one starts, and the response to the first is
\* taken for it: such an editor is exempt until it is opened again.
\* (save-state.ts:41-45, NoteEditor.tsx:246-266)
SavedMeansStored ==
    \A t \in Tab \ overlapped : state[t] = "saved" /\ base[t] = version => body = doc[t]

\* A version names one text: two editors that have saved and hold the same
\* version show the same document, whichever of them raced on the server.
\* (body/route.ts:67-71)
VersionNamesBody ==
    \A t1, t2 \in Tab \ overlapped :
        state[t1] = "saved" /\ state[t2] = "saved" /\ base[t1] = base[t2]
            => doc[t1] = doc[t2]

\* The sweep spares an asset for the whole grace period after a save listed
\* it, however uploads, stale lists, undo and failures interleave.
\* (body/route.ts:76-88, assets-sweep.ts:11-24)
ListedSurvivesGrace ==
    [][\A a \in stored \ stored' : reported[a] >= Grace]_vars

\* What an open editor holds while it is dirty reaches Note.body, or its user
\* is shown that it did not.
DirtyIsSaved ==
    \A t \in Tab, u \in Update :
        (state[t] = "dirty" /\ u \in doc[t])
            ~> (u \in body \/ state[t] \in {"conflict", "offline", "closed"} \/ t \in overlapped)

\* As long as no editor ever loses a response, and with every editor left open,
\* the mirror ends up with everything that was edited: of the editors that
\* race, one is never refused, and it saves what it receives from the others.
\* (NoteEditor.tsx:237-268, body/route.ts:47-71)
Mirrored == body = made \/ \A t \in Tab : ~IsOpen(t)
NeverOffline == [](\A t \in Tab : state[t] # "offline")
NeverOverlapped == [](overlapped = {})
MirrorConverges == NeverOffline /\ NeverOverlapped => <>[]Mirrored

=============================================================================
