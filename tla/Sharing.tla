------------------------------ MODULE Sharing ------------------------------
(***************************************************************************)
(* The share dialog of one note, the routes behind it and the account-less *)
(* readers of its public link (apps/web: components/notes/Share/*.ts(x),   *)
(* app/api/notes/[id]/public-link, app/api/notes/[id]/shares, app/p/       *)
(* [token], lib/notes/public-link.ts).                                     *)
(*                                                                         *)
(* A note has at most one link row, found by its noteId or by its token.   *)
(* The routes that change it look the row up, leave the database and then  *)
(* write it, so another request can come in between.  In the browser two   *)
(* hooks keep a link and a list of shares; each sets its state from        *)
(* whatever answer arrives.  Requests travel, are served and are answered  *)
(* in any order, are refused, fail, or lose their answer, and outlive a    *)
(* dialog that is closed.  A second manager works on the same note.        *)
(* Rights to manage are Access's subject: a refusal is a choice here.      *)
(***************************************************************************)
EXTENDS Integers, FiniteSets

CONSTANTS Users,      \* people the note can be shared with
          Nobody,     \* the addressee of a request that is about nobody
          Ttls,       \* lifetimes the expiry picker offers; 0 is "no expiry"
          CacheAge,   \* max-age of a public asset, in ticks
          MaxTokens,  \* bound: links made for the note
          Budgets     \* bounds, of which a run has one: clicks that send a request,
                      \* openings of the dialog, trouble (a request that is refused
                      \* or lost, a change by the second manager), ticks of the
                      \* clock, requests for a public asset

ASSUME SharingAssumption ==
  /\ Ttls \subseteq Nat /\ Nobody \notin Users /\ {CacheAge, MaxTokens} \subseteq Nat
  /\ Budgets \subseteq [ops : Nat, opens : Nat, trouble : Nat, time : Nat, reads : Nat]
  /\ \A b \in Budgets : b.ops + b.trouble <= MaxTokens

VARIABLES db,       \* the rows: link, archived, shares, and the tokens minted
          ui,       \* the dialog: both hooks and the two sections
          calls,    \* requests under way
          now,
          readers,  \* requests for an asset under way and the copies kept of the answers
          hist,     \* what happened, for the properties and the next request number
          left      \* what is left of the budget

vars == <<db, ui, calls, now, readers, hist, left>>

Never == -1                               \* expiresAt null
NoLink == [token |-> 0, until |-> Never]  \* no row, or a dialog that shows none
Tokens == 1..MaxTokens
Links == [token : {0} \cup Tokens, until : {Never} \cup Int]
Shares == [id : Nat, to : Users]

LinkOps == {"load", "generate", "expiry", "revoke"}
ListOps == {"list", "grant", "ungrant"}

(***************************************************************************)
(* A request: what it asks, how far it is, whether the dialog that sent it *)
(* still waits, and its answer, a link or a list.                          *)
(***************************************************************************)
Call(n, op, ttl, to, id) ==
  [n |-> n, op |-> op, ttl |-> ttl, to |-> to, id |-> id, stage |-> "sent",
   live |-> TRUE, ok |-> TRUE, link |-> NoLink, list |-> {}]

Live(link) == link.token # 0 /\ (link.until = Never \/ link.until > now)

\* What a public URL promises: the token is that of the note's link, which has
\* not expired, and the note is not archived.
Resolves(t) == db.link.token = t /\ Live(db.link) /\ ~db.archived

ttlToExpiresAt(ttl) == IF ttl = 0 THEN Never ELSE now + ttl

\* The state of the hooks and of the form before the dialog is mounted.
Closed ==
  [open |-> FALSE, link |-> NoLink, err |-> FALSE, busy |-> FALSE, linkSent |-> 0, linkOf |-> 0,
   list |-> {}, listing |-> FALSE, listErr |-> FALSE, adding |-> FALSE, listSent |-> 0, listOf |-> 0]

Init ==
  /\ db = [link |-> NoLink, archived |-> FALSE, shares |-> {}, minted |-> 0]
  /\ ui = Closed
  /\ calls = {} /\ now = 1
  /\ readers = {}
  /\ hist = [n |-> 0, dead |-> {}, lastLive |-> [t \in Tokens |-> 0],
             foreignLink |-> FALSE, foreignShares |-> FALSE]
  /\ left \in Budgets

Spend(b) == left[b] > 0 /\ left' = [left EXCEPT ![b] = @ - 1]

\* When each token last resolved, given the rows after a step.
Seen(link, archived) ==
  [t \in Tokens |-> IF link.token = t /\ Live(link) /\ ~archived THEN now ELSE hist.lastLive[t]]

-----------------------------------------------------------------------------
(***************************************************************************)
(* The dialog.                                                             *)
(***************************************************************************)
\* Both hooks fetch when they are mounted.
Open ==
  /\ ~ui.open /\ Spend("opens")
  /\ ui' = [Closed EXCEPT !.open = TRUE, !.listing = TRUE, !.linkSent = hist.n + 1, !.listSent = hist.n + 2]
  /\ calls' = calls \cup {Call(hist.n + 1, "load", 0, Nobody, 0), Call(hist.n + 2, "list", 0, Nobody, 0)}
  /\ hist' = [hist EXCEPT !.n = @ + 2]
  /\ UNCHANGED <<db, now, readers>>

\* The state of the hooks goes with the dialog; what it sent is served all the same.
Close ==
  /\ ui.open
  /\ ui' = Closed
  /\ calls' = {[c EXCEPT !.live = FALSE] : c \in {c \in calls : c.stage # "done"}}
  /\ UNCHANGED <<db, now, readers, hist, left>>

Send(op, ttl, to, id) ==
  /\ Spend("ops")
  /\ calls' = calls \cup {Call(hist.n + 1, op, ttl, to, id)}
  /\ hist' = [hist EXCEPT !.n = @ + 1]
  /\ UNCHANGED <<db, now, readers>>

\* The section offers "generate" while it shows no link, loading or not.
\* Mutant: the button is not disabled while an operation runs.
GenerateTwice(ttl) ==
  /\ ui.open /\ ui.link = NoLink
  /\ ui' = [ui EXCEPT !.busy = TRUE, !.err = FALSE, !.linkSent = hist.n + 1]
  /\ Send("generate", ttl, Nobody, 0)
Generate(ttl) ==
  /\ ui.open /\ ui.link = NoLink /\ ~ui.busy
  /\ ui' = [ui EXCEPT !.busy = TRUE, !.err = FALSE, !.linkSent = hist.n + 1]
  /\ Send("generate", ttl, Nobody, 0)

UpdateExpiry(ttl) ==
  /\ ui.open /\ ui.link # NoLink /\ ~ui.busy
  /\ ui' = [ui EXCEPT !.busy = TRUE, !.err = FALSE, !.linkSent = hist.n + 1]
  /\ Send("expiry", ttl, Nobody, 0)

Revoke ==
  /\ ui.open /\ ui.link # NoLink /\ ~ui.busy
  /\ ui' = [ui EXCEPT !.busy = TRUE, !.err = FALSE, !.linkSent = hist.n + 1]
  /\ Send("revoke", 0, Nobody, 0)

\* The person picked in the search field is added; one at a time.
HandleAdd(u) ==
  /\ ui.open /\ ~ui.adding
  /\ ui' = [ui EXCEPT !.adding = TRUE]
  /\ Send("grant", 0, u, 0)

\* The list is hidden while it is fetched, but not while a revoke is under way.
RevokeShare(s) ==
  /\ ui.open /\ ~ui.listing
  /\ Send("ungrant", 0, s.to, s.id)
  /\ UNCHANGED ui

-----------------------------------------------------------------------------
(***************************************************************************)
(* The routes.  hist.foreign* says that the rows were changed by something *)
(* no open dialog waits for since its newest request was served.           *)
(***************************************************************************)
\* An answer nobody waits for is dropped.
Replace(c, d) == calls' = (calls \ {c}) \cup (IF d.stage = "done" /\ ~d.live THEN {} ELSE {d})

Foreign(was, c, newest, changed) ==
  c.n # newest /\ (was \/ (changed /\ ~c.live))

Served(c, rows, link, list) ==
  /\ db' = rows
  /\ Replace(c, [c EXCEPT !.stage = "done", !.link = link, !.list = list])
  /\ hist' = [hist EXCEPT
       !.dead = IF db.link.token \in {0, rows.link.token} THEN @ ELSE @ \cup {db.link.token},
       !.lastLive = Seen(rows.link, rows.archived),
       !.foreignLink = Foreign(@, c, ui.linkSent, rows.link # db.link),
       !.foreignShares = Foreign(@, c, ui.listSent, rows.shares # db.shares)]

ServeLoad(c) == c.op = "load" /\ c.stage = "sent" /\ Served(c, db, db.link, {})

\* One upsert on the noteId: a new token, whether there was a row or not.
ServeGenerate(c) ==
  /\ c.op = "generate" /\ c.stage = "sent"
  /\ LET l == [token |-> db.minted + 1, until |-> ttlToExpiresAt(c.ttl)]
     IN  Served(c, [db EXCEPT !.link = l, !.minted = @ + 1], l, {})

\* The row is looked up; PATCH answers 404 without one, DELETE has nothing to do.
Find(c) ==
  /\ c.op \in {"expiry", "revoke"} /\ c.stage = "sent"
  /\ IF db.link = NoLink
       THEN Replace(c, [c EXCEPT !.stage = "done", !.ok = c.op = "revoke"])
       ELSE Replace(c, [c EXCEPT !.stage = "found", !.link = db.link])
  /\ UNCHANGED db
  /\ hist' = [hist EXCEPT !.foreignLink = Foreign(@, c, ui.linkSent, FALSE)]

Gone(c) == Replace(c, [c EXCEPT !.stage = "done", !.ok = FALSE]) /\ UNCHANGED <<db, hist>>

\* The update names the noteId: it sets the expiry of the row that is there by then.
\* Mutant: it writes the row that was found.
WriteExpiryRow(c) ==
  /\ c.op = "expiry" /\ c.stage = "found"
  /\ LET l == [token |-> c.link.token, until |-> ttlToExpiresAt(c.ttl)]
     IN  Served(c, [db EXCEPT !.link = l], l, {})
WriteExpiry(c) ==
  /\ c.op = "expiry" /\ c.stage = "found"
  /\ LET l == [db.link EXCEPT !.until = ttlToExpiresAt(c.ttl)]
     IN  IF db.link = NoLink THEN Gone(c) ELSE Served(c, [db EXCEPT !.link = l], l, {})

WriteRevoke(c) ==
  /\ c.op = "revoke" /\ c.stage = "found"
  /\ IF db.link = NoLink THEN Gone(c) ELSE Served(c, [db EXCEPT !.link = NoLink], NoLink, {})

ServeList(c) == c.op = "list" /\ c.stage = "sent" /\ Served(c, db, NoLink, db.shares)

\* An upsert on (note, grantee): a second grant keeps the row and its id.
ServeGrant(c) ==
  /\ c.op = "grant" /\ c.stage = "sent"
  /\ LET had == {s \in db.shares : s.to = c.to}
         row == IF had = {} THEN {[id |-> c.n, to |-> c.to]} ELSE had
     IN  Served(c, [db EXCEPT !.shares = @ \cup row], NoLink, {})

\* The lookup by id, which a second revoke of the same share does not survive...
FindShare(c) ==
  /\ c.op = "ungrant" /\ c.stage = "sent"
  /\ IF \E s \in db.shares : s.id = c.id
       THEN Replace(c, [c EXCEPT !.stage = "found"]) /\ UNCHANGED <<db, hist>>
       ELSE Gone(c)

\* ... and the delete, which throws when the row went in between.
DeleteShare(c) ==
  /\ c.op = "ungrant" /\ c.stage = "found"
  /\ IF \E s \in db.shares : s.id = c.id
       THEN Served(c, [db EXCEPT !.shares = {s \in @ : s.id # c.id}], NoLink, {})
       ELSE Gone(c)

\* No session, no right, an invalid body, or an error before anything is written.
Refuse(c) ==
  /\ c.stage \in {"sent", "found"} /\ Spend("trouble")
  /\ Gone(c)

Serve(c) ==
  \/ ServeLoad(c) \/ ServeGenerate(c) \/ Find(c) \/ WriteExpiry(c) \/ WriteRevoke(c)
  \/ ServeList(c) \/ ServeGrant(c) \/ FindShare(c) \/ DeleteShare(c)

-----------------------------------------------------------------------------
(***************************************************************************)
(* Answers.  Nothing in them says which request they belong to.            *)
(***************************************************************************)
LinkAnswer(c, ok) ==
  /\ ui' = [ui EXCEPT !.link = IF ok THEN c.link ELSE @, !.err = ~ok, !.linkOf = c.n,
                      !.busy = IF c.op = "load" THEN @ ELSE FALSE]
  /\ UNCHANGED hist

\* A list that cannot be fetched is shown as an empty one.  The form is free
\* again after the fetch that follows an addition, which is marked by its id.
ListAnswer(c, ok) ==
  /\ ui' = [ui EXCEPT !.list = IF ok THEN c.list ELSE {}, !.listErr = ~ok, !.listing = FALSE,
                      !.adding = IF c.id = 1 THEN FALSE ELSE @, !.listOf = c.n]
  /\ UNCHANGED hist

\* A change that went well is followed by a fetch.
FollowUp(c, ok) ==
  IF ok /\ c.op \in {"grant", "ungrant"}
    THEN {Call(hist.n + 1, "list", 0, Nobody, IF c.op = "grant" THEN 1 ELSE 0)}
    ELSE {}

\* Of one that failed nothing is shown.
ShareAnswer(c, ok) ==
  IF FollowUp(c, ok) # {}
    THEN /\ hist' = [hist EXCEPT !.n = @ + 1]
         /\ ui' = [ui EXCEPT !.listing = TRUE, !.listErr = FALSE, !.listSent = hist.n + 1]
    ELSE /\ ui' = [ui EXCEPT !.adding = IF c.op = "grant" THEN FALSE ELSE @]
         /\ hist' = [hist EXCEPT !.foreignShares = @ \/ (c.ok /\ ~ok)]

Apply(c, ok, rest) ==
  /\ calls' = rest \cup FollowUp(c, ok)
  /\ CASE c.op \in LinkOps -> LinkAnswer(c, ok)
       [] c.op = "list"    -> ListAnswer(c, ok)
       [] OTHER            -> ShareAnswer(c, ok)

Answer(c) ==
  /\ c.stage = "done"
  /\ Apply(c, c.ok, calls \ {c})
  /\ UNCHANGED <<db, now, readers, left>>

\* The connection breaks: the dialog is told of an error; the server may go on.
Lose(c) ==
  /\ c.live /\ Spend("trouble")
  /\ Apply(c, FALSE, (calls \ {c}) \cup
                     {[d EXCEPT !.live = FALSE] : d \in {d \in {c} : d.stage # "done"}})
  /\ UNCHANGED <<db, now, readers>>

-----------------------------------------------------------------------------
(***************************************************************************)
(* The rest of the world.                                                  *)
(***************************************************************************)
\* The second manager replaces, revokes or extends the link, archives or restores the note.
Elsewhere ==
  /\ Spend("trouble")
  /\ \/ \E ttl \in Ttls :
          db' = [db EXCEPT !.link = [token |-> db.minted + 1, until |-> ttlToExpiresAt(ttl)], !.minted = @ + 1]
     \/ db.link # NoLink /\ db' = [db EXCEPT !.link = NoLink]
     \/ \E ttl \in Ttls : db.link # NoLink /\ db' = [db EXCEPT !.link = [@ EXCEPT !.until = ttlToExpiresAt(ttl)]]
     \/ db' = [db EXCEPT !.archived = ~@]
  /\ hist' = [hist EXCEPT !.dead = IF db.link.token \in {0, db'.link.token} THEN @ ELSE @ \cup {db.link.token},
                          !.lastLive = Seen(db'.link, db'.archived),
                          !.foreignLink = @ \/ db'.link # db.link]
  /\ UNCHANGED <<ui, calls, now, readers>>

\* A request for an asset of a page that was open once, however long ago.
Reader(t) == [token |-> t, since |-> now, stage |-> "asked", row |-> NoLink, at |-> 0]

AskAsset(t) ==
  /\ t <= db.minted /\ Spend("reads")
  /\ readers' = readers \cup {Reader(t)}
  /\ UNCHANGED <<db, ui, calls, now, hist>>

\* A request moves on, or ends in a 404.
Advance(r, found, s) == readers' = (readers \ {r}) \cup (IF found THEN {s} ELSE {})

\* resolvePublicNoteId: one query for the link and whether its note is archived...
FindLink(r) ==
  /\ r.stage = "asked"
  /\ Advance(r, db.link.token = r.token /\ ~db.archived, [r EXCEPT !.stage = "found", !.row = db.link])

\* ... and then the expiry of the row it read against the clock.
\* Mutant: a link that is there is a link that resolves.
JudgeFound(r) == r.stage = "found" /\ Advance(r, TRUE, [r EXCEPT !.stage = "granted"])
Judge(r) == r.stage = "found" /\ Advance(r, Live(r.row), [r EXCEPT !.stage = "granted"])

\* The asset is there or not; a browser or a proxy may keep the answer for a while.
Answered(r) ==
  /\ r.stage = "granted"
  /\ \E there \in BOOLEAN : Advance(r, there, [r EXCEPT !.stage = "kept", !.at = now])

Tick ==
  /\ Spend("time") /\ now' = now + 1
  /\ hist' = [hist EXCEPT !.lastLive =
       [t \in Tokens |-> IF db.link.token = t /\ ~db.archived
                            /\ (db.link.until = Never \/ db.link.until > now + 1)
                           THEN now + 1 ELSE @[t]]]
  /\ UNCHANGED <<db, ui, calls, readers>>

Next ==
  \/ Open \/ Close
  \/ \E ttl \in Ttls : Generate(ttl) \/ UpdateExpiry(ttl)
  \/ Revoke
  \/ \E u \in Users : HandleAdd(u)
  \/ \E s \in ui.list : RevokeShare(s)
  \/ \E c \in calls : Serve(c) /\ UNCHANGED <<ui, now, readers, left>>
  \/ \E c \in calls : Refuse(c) /\ UNCHANGED <<ui, now, readers>>
  \/ \E c \in calls : Answer(c) \/ Lose(c)
  \/ Elsewhere
  \/ \E t \in Tokens : AskAsset(t)
  \/ \E r \in readers : (FindLink(r) \/ Judge(r) \/ Answered(r)) /\ UNCHANGED <<db, ui, calls, now, hist, left>>
  \/ Tick

Spec == Init /\ [][Next]_vars

-----------------------------------------------------------------------------
(***************************************************************************)
(* Properties                                                              *)
(***************************************************************************)
\* A URL that was revoked or replaced never works again, whatever request was
\* between its lookup and its write at that time
\* (public-link/route.ts:77 "any previously distributed URL stops working").
KilledTokensStayDead == db.link.token \notin hist.dead

\* Images of a link that no longer resolves disappear within the max-age the
\* asset route allows caches (assets/[assetId]/route.ts:47), counted from the
\* last moment it resolved: a request that was under way then delays that by
\* no more than the time it took, and one that came later is given nothing,
\* whatever happens to the link between its queries.
AssetsGoDark ==
  \A r \in readers : (r.stage = "kept" /\ now < r.at + CacheAge)
                        => now < hist.lastLive[r.token] + (r.at - r.since) + CacheAge

Awaited(ops) == {c \in calls : c.live /\ c.op \in ops}

\* A dialog at rest that shows no error shows the link the note has and the
\* people it is shared with, unless an answer overtook that of the last request,
\* or they were changed since by somebody the dialog does not wait for
\* (usePublicLink.ts:53, :67, :80, :93; useShares.ts:84, :105, :113).
RestingDialogIsAccurate ==
  /\ (/\ ui.open /\ Awaited(LinkOps) = {} /\ ~ui.err
      /\ ui.linkOf = ui.linkSent /\ ~hist.foreignLink) => ui.link = db.link
  /\ (/\ ui.open /\ Awaited(ListOps) = {} /\ ~ui.listErr
      /\ ui.listOf = ui.listSent /\ ~hist.foreignShares) => ui.list = db.shares
=============================================================================
