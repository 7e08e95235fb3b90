------------------------------- MODULE Latest -------------------------------
(***************************************************************************)
(* What a list that is fetched again and again promises to its reader:     *)
(* requests are numbered, an answer is shown only if it belongs to the     *)
(* newest request, and the list is marked as loading exactly while the     *)
(* newest request is not answered.  NotesShell's two note lists implement  *)
(* it (NotesShell.tsx:137 "a stale request never overwrites a newer one"). *)
(***************************************************************************)
EXTENDS Naturals

VARIABLES newest,   \* number of the newest request
          shown,    \* number of the request whose answer is shown
          loading   \* the newest request has no answer yet

view == <<newest, shown, loading>>

LatestInit == newest \in {0, 1} /\ shown = 0 /\ loading = (newest = 1)

Ask == newest' = newest + 1 /\ loading' = TRUE /\ shown' = shown

Show == loading /\ shown' = newest /\ loading' = FALSE /\ newest' = newest

\* The newest request fails: what was shown stays.
Keep == loading /\ loading' = FALSE /\ UNCHANGED <<newest, shown>>

\* A reader that starts anew has asked once, or was handed a list to begin with.
Begin == newest' \in {0, 1} /\ shown' = 0 /\ loading' = (newest' = 1)

LatestNext == Ask \/ Show \/ Keep \/ Begin

LatestSpec == LatestInit /\ [][LatestNext]_view
=============================================================================
