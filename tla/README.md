# Effi Notes: specifications

TLA+ specifications of the collaborative note server in this repository, the
TLC runs that check them and the TLAPS proofs of their main invariants. Paths
below are relative to `src/`; `PROJECT.json` names the source lines behind
every definition.

## The system

A Next.js application (`apps/web`) serves the notes UI and its REST API over
PostgreSQL (Prisma). A Bun worker (`apps/worker`) runs a websocket relay for
Yjs documents and the BullMQ jobs. Redis holds the queues and the rate limits.
Browser tabs hold the documents themselves.

| Component | State | Operations | What makes it correct |
|---|---|---|---|
| Relay: `apps/worker/src/yjs/server.ts`, `index.ts` | rooms, cached documents, connections and their close functions | open, sync step 1, step 2 and update, awareness, close | connected clients have everything the relay has; view-only clients change nothing; one document per note; closed connections are in no room |
| Snapshots: `packages/jobs/src/queues.ts`, `processors/notes-snapshot.ts`, `yjs/persistence.ts` | one job per note id, `Note.yjsState`, `lastEditorId`, history | enqueue, process, retry, stall, expire; load | the stored state only grows; what was accepted is stored in the end |
| Editor save loop: `NoteEditor.tsx`, `save-state.ts` | save state, base version, interval | edit, save, response, network error | the indicator tells the truth, every edit is saved or reported |
| Body route, assets: `notes/[id]/body`, `notes/[id]/assets`, `assets-sweep.ts` | `Note.body`, `bodyVersion`, asset rows and stamps | save, reconcile, upload, sweep | versions order the saves; an asset that a save has listed survives its grace period |
| Folder routes: `api/folders` | `Folder.parentId`, `position`, `Note.folderId` | create, move, reorder, delete, file a note | a forest without dangling references; only empty folders are deleted |
| Folder sidebar: `folder-tree.ts`, `Sidebar/FolderTree.tsx` | the list fetched last | drop plans, order, paths, tree | a drop does what it shows; every folder fetched is displayed, but for a race of two reorders; paths lead back |
| Access engine: `access.ts`; collab tokens: `yjs/token.ts`, `api/collab` | owners, shares with expiry; tokens of 60 s, connections | resolve (query by query), list scope, grant, revoke, issue, connect | what is listed can be opened and the reverse; rights are those of some moment of the request; stale rights live on old connections only |
| Share dialog, public links: `Share/*`, `notes/[id]/public-link`, `app/p/[token]` | one link row per note, shares, the dialog's two hooks | generate, change expiry, revoke, fetch an asset | a dead link stays dead; copies of its images come from requests it was live for; a dialog at rest is right |
| Notes shell: `NotesShell.tsx` | lists, filter, request numbers | fetch, change and refetch, navigate | the newest answer wins and nothing stays "loading" |
| Sidebar: `Sidebar/FolderTree.tsx`, `index.tsx`, `CommandBar.tsx` | rows, inputs, drag, hits | rename, create, delete, drop, search | what is typed is stored, what is dragged is moved, hits are those of the text |
| Sessions: `packages/auth`, `middleware.ts`; `rate-limit.ts`; theme | cookies, refresh tokens, the window of an address, `User.theme` | sign in, refresh, sign out, count an attempt, choose a theme | a session survives refreshes and ends with sign-out; limits hold; redirects end |
| Tags, PDF extraction, rendering, operations | rows | | see `PROJECT.json` |

How they interact: a tab talks to the relay (updates), to the REST API (text
mirror, assets, folders) and shares the note row with the snapshot job, which
reads the relay's document cache in the same process. Every route asks the
access engine first, which reads the folder tree and the shares row by row;
collab tokens carry its answer to the worker. The shell and the sidebar hold
lists that the routes' answers replace, and the middleware adds the session
cookie to each of those answers. The sweep deletes what
the reconcile of a save has stamped. The folder sidebar sends plans computed
from a list that may be old to routes that re-check them on the rows of now.

What is hard here:

- nothing on the web side uses a transaction around read, check and write, so
  requests interleave between queries;
- the relay's handlers await the database and do not wait for each other, not
  even for one connection;
- the snapshot job id collapses enqueues while its record lives;
- processes die between an accept and its snapshot, requests fail or lose
  their response, the indicator and the base version live on in the tab;
- clients act on lists and documents of any age, and their handlers use after
  an await what they read before it;
- cookies travel on answers, so that the last answer to arrive decides.

The hazards are listed with their lines in `PROJECT.json`; each run below is
aimed at some of them.

## Modules

| Module | Models | Proofs |
|---|---|---|
| `CollabRelay` | one note: clients, connections, relay handlers, document cache, snapshot job, note row | `CollabRelayProofs` |
| `NoteBody` | one note: tabs with their save loop, the body route, upload, sweep | `NoteBodyProofs` |
| `Folders` | what the next two say alike: parents, descendants, cycles | |
| `FolderTree` | the folder table and note filing under concurrent requests | `FolderTreeProofs` |
| `FolderPlan` | the sidebar's pure functions and the fate of its drop plans | `FolderTreeProofs` |
| `Access` | rights: resolution against listing, the requests that decide with them, shares, collab tokens | `AccessProofs` |
| `Sharing` | the share dialog, the routes behind it, the public link and its readers | `SharingProofs` |
| `NotesShell` | the lists, the filter and the handlers of the client shell | `NotesShellProofs` |
| `Latest` | abstract: what a list that is fetched repeatedly promises; implemented by `NotesShell` | |
| `Session` | cookies, token refresh, sign-in and sign-out, the theme; extends `RateLimit` | `SessionProofs` |
| `RateLimit` | the sliding window, as operators on one window | `SessionProofs` |
| `Sidebar` | rows, inputs and drags of the folder tree; extends `CommandBar` | `SidebarProofs` |
| `CommandBar` | the search and command input | `SidebarProofs` |

`MC*` modules give the constants for TLC. Definitions named after a bug and
introduced by "Mutant" are not part of a specification: each replaces one
definition of the model by a plausible mistake that a property must detect.

### CollabRelay

A Yjs document is the set of updates merged into it: applying is union, a diff
against a state vector is set difference. This keeps what the relay relies on
(merging is commutative, associative and idempotent) and leaves out content.
Each await of `server.ts`, `persistence.ts` and `notes-snapshot.ts` ends an
action. `Handle*` are the parts of the handlers after `getOrLoadDoc`;
`Dispatch` decides between running them at once and waiting for the row
(`ReadRow`, `FinishLoad`), which is where handlers overlap; a load that throws
ends its handler (`FailLoad`). A message of a
client is in `up` until some handler has taken it: messages of one connection
may be handled out of order, since handlers do not wait for each other.
Messages of the relay to a client are delivered in the step that sends them.
`index.ts` builds a new connection object per message, so that the sender of
an update is sent it as well; with sets this changes nothing and is kept.

The job of a note is one record (`job`) because its id is the note's. It is
delayed, active, completed, failed or absent; an add changes something only
if there is none. A failed attempt is retried once, a stalled run (the worker
died) goes back to the queue once. `clobbered` is a history variable: it says
that `docs.set` has replaced a document by one that lacks some of its updates.
Properties that such a loss would falsify make an exception for it;
the loss itself is listed below under "Known behaviour".

### NoteBody

`Note.body` is the set of updates whose text it shows. A request goes through
the version check, the write, the reconcile and the response, each a step;
responses may be lost and tabs closed at any of them. Saves that overlap
within a tab need a save longer than the interval of 5 s and are behind the
event "slow", which no run allows and every proof does: a tab with overlapping
saves is in `overlapped`, and the properties exempt it until it is opened
again. Assets are embedded by updates and removed by other updates.
Time is counted in days: a day passes only when no request is under way,
because saves take seconds. `Upload` is one step: the tab embeds the asset
after the response, and the row has no stamp before some later save.

### FolderTree

The parent of every folder, plus the markers of folders not yet created and
of deleted ones. Each request is split into reading, checking and writing as
in its route; the bulk move keeps the tree it has read. `isDescendant` is
stated, in `Folders`, as membership in the least upward closed set, which is
what the proofs use; `FolderPlan` has the loop of the code (`WalkMeets`), and
both agree (`DescendantAgrees`, checked and proved). The write of a move marks
requests under way as stale, so that `raced` says whether a move was written
on top of another one its check had not seen. All clients may edit all folders.

### FolderPlan

Every client is a tab of a user and has the list it fetched last: what the user
owns or has a share on, with all that is in it (`Listing`, in one step although
the server reads the tree of scopes and then the rows). A list is shown in two
sections, as `partitionSharedFolders` splits it (`OwnSection`,
`SharedSection`), and `Drop` computes a plan from the own one by
`ComputeReorder` or `ComputeRootReorder` and sends it. The route takes three
steps: `ReadReorder` reads the tree, on which the guard against cycles is
evaluated, `AllowReorder` asks for the rights, `WriteReorder` is the
transaction. `overtaken` says that a reorder was written on top of another one
that was written after it had read the tree. The moves of single folders, which
race in the same way, are in `FolderTree`; the depth limit of rights is in
`Access`. Names are model values, already folded and trimmed as
`resolveFolderPath` does, and ordered by `Order`. `WalkMeets` is a recursive function of where the
walk is and what it has seen, as the loop of `isDescendant` is; `Cursor` is the
cursor of the loop in `folderPath`, which ends above the root or where it has
been, and `ResolveFolderPath` goes down one name at a time. Siblings are sorted
by rank (how many come before each), and the siblings of a plan are sorted
without the dragged folder, which is then inserted. The start is a `Forest`:
parents are rows, and no folders are one another's only ancestors.

### Access

`FolderAccess` and `NoteAccess` say what `resolveFolderAccess` and
`resolveNoteAccess` give in one go; a request gets there with one query per
step (`ReadNote`, `ReadChain`, `ReadGrants`, `ReadTree`) and writes in a last
one, and other requests, and the clock, come in between. The constructors
(`GetNote`, `PatchNote`, `ShareFolder`, ...) name the routes and the rights
each asks for, in its order; `Requests(u)` is what a user can send in a state.
`AccessibleFolders`, `ListedNotes`, `SharedSection` and `OwnFolders` are the
listing side, which walks down from shares where resolution walks up from an
item. `held`, `overlap` and `lost` are history: what the user could do since
the request began, how many changes fell into it, and when a user could last
edit a note. Tokens carry the right that was resolved, `Connect` checks their
expiry only, and connections keep what they were opened with. `Consistent` is
what the schema guarantees of every database: references point to rows, and
there is one share for an item and a user. Seeds are consistent databases.

### Sharing

The row of a link is `db.link`; tokens are numbered as they are minted. Each
route that looks the row up before it writes has a step for either. In the
dialog both hooks replace their state with whatever arrives. A dialog that
closes takes its state along, its requests are served all the same. `readers`
are the requests for an asset of the public page and the copies that browsers
and proxies keep of the answers: the query for the link (`FindLink`), the look
at the clock after it (`Judge`) and the query for the asset with the answer
(`Answered`) are steps of their own. `hist.lastLive` is the last moment each
token resolved. Rights are `Access`'s subject: a refusal is a choice.

### NotesShell and Latest

A request is a record with the filter its handler saw when it was called: the
closure of a `useCallback`. Requests are served (`Serve`) and answered
(`Answer`) in any order and may fail on either way (`Fail`); those of a shell
that was left (`live` is false) still change the rows. `Latest` is the promise
of a numbered list: an answer is shown only if it belongs to the newest
request, and loading lasts until that one is answered. Its state is mapped to
`ui.req`, `ui.listOf` and `ui.pending` for the user's own list, and to
`ui.sharedReq`, `ui.sharedOf` and "the newest request is under way" for the
shared one, which has no mark of its own. The folder list is not guarded by a
number, and does not implement `Latest`.

### Session and RateLimit

The session is a cookie. A request asks for it twice, in the middleware and
in its handler, both times with the cookie it came with, and only what the
middleware returns gets into the answer. A provider takes a refresh token any
number of times or once (`rotates`, chosen in `Init`). `Guard` reads the clock
and `Callback` runs the transaction of `RateLimit`, so that stamps may reach
Redis out of order. The sorted set is a set of entries with their stamps. The
theme is a second cookie, set by the answer of the
theme route after the row was written; the GET of that route, which sets the
cookie too, is called by nothing in the application and is left out.

### Sidebar and CommandBar

Inputs and drags are user-interface state that handlers change when their
request is answered, whatever has become of it by then. `pointer` is what the
mouse holds, apart from `ui.dragging`, which is what the component remembers:
a row that leaves the page while it is dragged gets no `dragend`. A rename
input commits on Enter and on blur alike. `CommandBar` has the debounce timer
and the searches under way, whose answers carry no number.

## Runs

Every run passes, within three minutes on two workers.

| Run | Shows |
|---|---|
| `relay_sync` | clients whose step 1 was answered have all of the cached document, through losses of connection, failing sends and a reconnect that overtakes the close event; accepted updates stay in the document; at rest the connected clients and the document hold the same, but for what a reader typed; nothing a view-only client makes spreads |
| `relay_durable` | `Note.yjsState` never shrinks through crashes, retries and deletion; a pending snapshot job stores what was in the document, or fails visibly |
| `relay_converge` | clients that stay connected converge, also after the process has died and forgotten every document |
| `body_save` | saved means stored; a version is one text; an asset that a save has listed survives its grace period |
| `body_live` | edits are saved or reported; while no response is lost, the mirror catches up |
| `tree_all` | types and references; no cycle without a race; deleted stays deleted |
| `plan_drops` | the descendant walk and paths are right; every folder a client has fetched is displayed until two reorders overlap; a drop on a fresh list lands as shown |
| `access` | types; a decision rests on rights that were held; a write that nothing overlapped has the rights of that moment; resolution and listing agree up to the depth limit; the own section holds what is owned; a writer's connection is opened less than a token's life after its right was last held |
| `sharing` | a dead link stays dead; a dialog at rest is right; a copy of an image comes from a request that was under way when its link last resolved, and is fresh no longer than the max-age after it |
| `shell` | both note lists implement `Latest`; a shell at rest shows what the server has, and is not "loading" |
| `session` | redirects end; a session survives refreshes; a quiet sign-out is final; the limit holds; the theme at rest is the stored one |
| `sidebar` | drops move what was dragged; typed names are stored; one input, one folder; a dropped folder is revealed; hits at rest are those of the text |

### Known behaviour

The properties are statements the code keeps. Where it does not keep the
obvious stronger one, the property names the exception, and the exception is a
behaviour of the code that a reader should know:

- Two handlers may load one document at the same time; the second
  `docs.set` drops what the first has applied (`server.ts:131`; ADR 0022:26
  speaks of an "in-memory Y.Doc per noteId"). `AcceptedInDoc` excepts `clobbered`.
- Enqueues are ignored while a finished job's record is kept
  (`queues.ts:171`, an hour), and nothing schedules the edits made in that
  time until the next edit after it.
- A handler whose load throws is not run again: a client whose sync-step-1 it was
  stays connected without the document, and a push is lost to the others, until
  the client reconnects (`server.ts:130`, `index.ts:150`). `RestingPeersAgree` is
  about runs without such failures.
- Two saves with one base version may both pass the check
  (`notes/[id]/body/route.ts:71`, against the comment at `:21`); the second
  text wins. `VersionNamesBody` holds all the same.
- The response of an old save is taken for that of a newer one when a save
  outlasts the interval (`save-state.ts:44`): `overlapped`.
- Two folder moves may make a cycle (`folders/[id]/route.ts:111`): `raced`. So
  may two drops, each of which passes the guard on the tree it has read
  (`folders/reorder/route.ts:51`), and their folders are then in no sidebar:
  `overtaken`.
- A save lists the assets of its own text: it may stamp one that another editor
  shows, and the sweep may delete an asset while a save that lists it again is
  on its way. `ListedSurvivesGrace` counts from the last save that did list it.
- A user who may only view a note may duplicate it, and the copy, which is
  theirs, is filed into the folder of the original, which they may not be able
  to edit (`notes/[id]/duplicate/route.ts:57`). `WritesAreRightful` asks for the
  right to the note that is copied, and for none to that folder.
- A request for a public asset that was under way when its link was revoked may
  still be answered, and the answer kept for the max-age
  (`p/[token]/assets/[assetId]/route.ts:29`); `AssetsGoDark` counts that time in.
- The rate limiter lets an attempt through when the pipeline's result is missing
  (`rate-limit.ts:55`); `LimitHolds` is about a Redis that answers.
- A folder that got a child after the emptiness check is still deleted; the
  child becomes a root.
- An editor that is offline or in conflict saves nothing until somebody edits.
- A connection that closes while its open handler awaits stays in its room, and
  the last one to leave becomes `lastEditorId` even with view-only access.
- A plan computed from an old list brings back siblings that were moved
  elsewhere, and a folder shared out of a tree has an empty path.
- A folder deeper than 64 is listed but cannot be opened; the properties speak
  of `ShallowFolders`.
- A connection keeps its right after the share is gone, for as long as it lasts.
- A request that two changes fall into may decide on rights its user never had:
  `DecisionHadBasis` speaks of one.
- A handler refetches with the filter of the moment it was called
  (`NotesShell.tsx:344`, against the comment at `:137`), so the newest answer
  may be that of a filter no longer in force; the list is then wrong until the
  next fetch. `RestingShellIsCurrent` excepts it by `listFor`.
- An answer of the dialog overtakes a later one and is shown.
- With a provider that rotates refresh tokens, a refresh in the handler is
  dropped, and concurrent refreshes lose the session: `past.raced`.
- Roles are those of the sign-in; a token refresh does not renew them,
  although `packages/auth/src/types.ts:22` says so. API routes do not look at `session.error`.
- An answer that arrives after a sign-out sets the session cookie again:
  `past.quiet` asks for a sign-out with no other request under way.
- Refused sign-in attempts count against the window.
- The theme cookie belongs to the browser, not to the user: whoever signs in
  next sees the last one's theme.
- A row that leaves the page while it is dragged keeps the drop zones alive,
  and a note dropped on one of them moves the remembered folder
  (`FolderTree.tsx:309`): `past.lost`.
- A rename's answer closes whatever rename input is open (`:137`), and Enter
  followed by blur may create a folder twice (`index.tsx:174`): `past.crossed`.
- Answers of overlapping searches are shown as they come (`CommandBar.tsx:78`).

### Bounds

- `relay_sync`: a writer with one connection and a view-only client with two,
  of which the second may open before the close of the first is handled; one
  update. A gap needs one sender and one receiver, overlapping loads need two
  handlers, and a reader's push is an update of its own.
- `relay_durable`: one client with one connection, one update, and all that can
  happen to the job: two attempts and one stall are the code's own limits.
- `relay_converge`: two writers with one connection each, one update that
  either may make at any time, before, between or after connections.
- `body_save`: two tabs, one asset, three updates that embed it, remove it and
  embed it again, a grace period of one day; notes are opened at most after
  `MaxVersion` = 1 saves. Races need two writers, undo needs three updates.
- `body_live`: two tabs, two text updates; both tabs open before the first save
  (`MaxVersion` = 0), so that they race for it.
- `tree_all`: a chain of two folders, one yet to be created, one note; one
  client sends bulk moves, the other everything else. A cycle needs two folders
  and two moves.
- `plan_drops`: two tabs of one user and four folders, two of the same name: one
  shared with the user and kept in one of the user's own, another own one in a
  folder the user cannot see. `MaxWrites` = 2 changes: two drops from one tree
  make the cycle that `overtaken` excepts, and an old list takes one write, its
  plan the second.
- `access`: two users; a note two folders deep (`MaxDepth` = 2), with a folder
  one below the limit, and a share on the top, the note or in between, one of
  them expiring; two requests of any kind and a clock of three ticks with
  tokens of one. A mixture of states needs one request that reads and one that
  writes; a stale connection needs issue, revocation and two ticks.
- `sharing` starts with one of two budgets (`MCBudgets`), since readers change
  nothing that a dialog sees. With the first, two people, two lifetimes, two
  clicks, two openings of the dialog, one tick and one trouble (a refusal, a
  loss, or the other manager): one request to be overtaken, one that overtakes
  it, and one more thing gone wrong. With the second, two requests for assets,
  four changes by the manager, three ticks and a max-age of two, so that copies
  outlive their links.
- `shell`: a note and two folders, two acts of the user, one trouble; each act
  has up to four requests, the mount two.
- `session`: tokens of two ticks that are refreshed after one, three requests,
  one trouble, one attempt per window of two ticks; two themes.
- `sidebar`: a folder in another and one yet to be created, two texts, four
  acts (start a drag, move, drop, and one more), one trouble.
- CHECK_DEADLOCK is off everywhere: the updates, folders, acts and requests of
  an instance run out, and then nothing has to happen any more.
- Symmetry is used only in runs without liveness, over sets whose members are
  not told apart.

### Fairness

`CollabRelay`: weak fairness of the relay's steps (the event loop runs pending
handlers) and of the snapshot worker (the queue runs delayed jobs). Users,
networks, failures and crashes have none. `NoteBody`: for each open tab the
interval fires while it is dirty, its requests are handled and answered, and
the updates of others arrive; `MirrorConverges` has as premises that no
response is lost and no saves overlap. `Session`: the server answers
(`WF_vars(ServerStep)`); nothing is assumed of the user, the clock or the
provider. Connections are assumed up in `PeersConverge` as a premise, not by
fairness. The other modules state no liveness.

## Proofs

For every number of users, clients, connections, updates, folders, notes and
requests, under the constant assumptions of the modules only:

`CollabRelayProofs` proves `TypeCorrect`, `ReadersCannotWrite`,
`PeersAreInSync`, `AcceptedStays`, `PeersRestInAgreement` and `StoredStateGrows`. Each invariant is
the conjunction of the property with what makes it inductive. For the
readers it is that whatever waits anywhere (messages, rows that were read,
snapshot bytes) is from a writer or on a reader's own connection; for the
peers, that a synced live connection is in the room and is its client's only
one, so that a broadcast reaches it or closes it; for the stored state, that
the stored set is part of every row read since the process started and of
everything a running snapshot may write, as long as no load has clobbered
the document. For the agreement at rest (`RestInv`) it is that what a client has
and the document lacks is in a push under way, or a sync-step-1 is whose answer
will ask for it: this is the safety part of `PeersConverge`, which adds that
rest is reached. Steps are split by handler; facts about one handler are lemmas.

`FolderTreeProofs` proves `ReferencesExist`, `GuardsPreventCycles` and
`DeletionIsFinal` from one invariant. Beside types it says: a request that has
read a tree without having become stale sees a tree that the current one
extends only by deletions and new leaves (so its answer about descendants is
still right), and a checked move that is not stale would not create a cycle
now. The core is the lemma `MoveKeepsAcyclic`: re-parenting a set of folders
under a folder that descends from none of them keeps a forest a forest, shown
by cutting an upward closed set at the moved folders, without induction.

The same module proves `WalksFindAncestors` and `EveryFolderIsShown` (`PlanInv`)
of `FolderPlan`, whose rows are a tree of `FolderTree` without deleted folders.
The walk of `isDescendant` is the only function with its recursive equation,
because the visited set grows inside a finite set; membership in all closed
sets satisfies that equation; so the two are equal. With that the guards of the
reorder route are those of `FolderTree`: what the guard has found on the tree it
read holds of the rows until another reorder is written, since creating a folder
adds a leaf and deleting one cuts links, so `MoveKeepsAcyclic` applies to
whatever plan an old list led to as long as nothing is `overtaken`. A list is cut
out of the rows and a section out of the list, and in a forest everything is
reached from the roots that each section starts with.

`FreshDropsLand` (`DropInv`) is the theorem about drops. `Before` is a strict
total order, so sorting by rank lists every sibling exactly once and in order,
and a plan is that list with the dragged folder inserted. `DropInv` says that a
request whose list is still current is such a plan of the folders as they are:
every write marks the requests under way, so none outlives the folders it was
computed from. The plan is one of the own section, the guard is evaluated on all
rows: folders between two of the section are in it as well, so no folder but the
dragged one can have the parent of the plan below it, and the guard lets it pass;
the user owns what is in the section or has it in a folder of their own, and may
edit it. Positions are the places in the list, so what it shows is what the order
becomes, for the siblings of the section and, among themselves, for the others.

`PathsAreFaithful` is about `folderPath` and `resolveFolderPath`. The cursor
takes no more steps than there are folders, by the pigeonhole principle, and in
a forest it ends above the root and not in a cycle. The resolver then follows the
cursor backwards, one name at a time: where siblings have different names the
folders of that name below the last one are the one the path came from.

`NoteBodyProofs` proves `TypeCorrect`, `SavedIsStored`, `VersionsNameTexts` and
`SweepWaits`, with slow, failing and lost requests allowed. The invariant says
that a version stands for one text wherever it is noted (row, written request,
editor that shows "saved"), and that an editor that never had two saves under
way gets to "saved" only with the one it waits for, whose text it shows while
it is "saving". For the sweep, a stamp is no older than the last report.

`AccessProofs` proves all the properties of `Access`:

- `WritersHaveTheRight` (`Inv`): as long as a request was not overlapped, what
  it has read is what the database says, so each right it resolved is the one
  `Access` gives in one go. The lemmas follow one query each, and any write or
  tick only has to raise `overlap`.
- `KeysHold`: `Consistent` is kept by every write, among them the deletion of a
  folder, which takes its shares along and makes its children roots.
- `DecisionsHaveBasis` (`BasisInv`): one change takes rows away, changes one
  parent or changes grants. A request that has read some of its rows before and
  some after it gets a right that was held before or is held after: the lemma
  on changes says so for each kind of change at each point of the resolution.
- `ListsAndRightsAgree`, `OwnSectionIsTrue`: the walk up and the walk down are
  iterations of a set operator. Such an iteration grows until it is closed,
  which takes no more steps than there are folders, and then is the least closed
  set; and a folder is in the least set closed downward from a share exactly if
  the share is in the least set closed upward from the folder.
- `LateConnectionsAreBounded` (`LateInv`): the bound is carried from the request
  for a token to the token, and from the token to the connection.

The inductions in these proofs are over sets: a set of naturals that holds 0
and with each number the next is all of them; a non-empty one has a least
element. This is how iterations and walks are reasoned about in all modules.

`SharingProofs` proves `DeadTokensStayDead` and `CopiesExpire`: a row is only
ever given a token newly minted, its own, or none. A row that has not expired
when a reader's request looks at the clock had not expired when it was read
(`Readers`), and the note was not archived then: so the link resolved at that
moment, whatever became of it before the answer; for this, times of expiry have
to be numbers in every row and request (`Timed`). It also
proves `RestingDialogsAreAccurate` (`Dialog`): a request that changes the link
and is still waited for is the newest one, since its button is disabled while
it runs; so the answer to the newest request that was served has the link of
the row, up to changes by others. For the shares the same holds of the newest
fetch, up to changes whose answer will start another.

`NotesShellProofs` proves `LoadingEnds` and `ListsImplementLatest`, the
refinement, from one invariant: live requests of one kind carry different
numbers, none above the counter, and loading is on exactly while the newest
is under way. Every step is shown to be a step of `Latest` or a stutter, for
both mappings. `RestingShellsAreCurrent` (`CurrentInv`) adds what requests
carry: what the newest fetch of a list brings, or has brought, is what the
rows have, unless somebody else changed them or a request that did is still
unanswered; and that answer starts a fetch with a newer number.

`SessionProofs` proves all safety properties of `Session` and `RateLimit`.
`RateIsLimited` (`LimiterInv`): while attempts come in the order of their
stamps, the entries hold every admitted attempt of the window that ends now, so
counting them counts those. `SessionIsKept` (`SurviveInv`): a provider that
takes a token many times takes every token there is anywhere; with one that
takes it once and requests that do not cross, either the cookie is good or a
request under way brings the one that replaces it. `ThemeComesToRest`
(`ThemeInv`): one change of theme at most is under way, no page loads
meanwhile, and what is stored is on its way to cookie and card. `SignOutIsFinal`
(`QuietInv`): after a quiet sign-out no request carries a session, the
middleware makes none out of nothing, and only the answer of a sign-in sets one.

`SidebarProofs` proves all five properties of the sidebar from one invariant.
As long as nothing was crossed, at most one create is under way and its input
is open, and the renames under way are those of the open input: so an answer
closes no input but its own. What the tree remembers as dragged is what the
mouse holds. The target of a drop inside stays expanded until it is closed, and
what lies in an expanded folder is visible with it. A pending timer and the
only search under way are for the text at hand.

The assumptions are the named ASSUMEs of the modules, which TLC evaluates in
the runs: that the special values are not members of the sets they complement
(`RowAssumption`, `NoPlanAssumption` and others), that bounds are natural
numbers, that folders are finitely many, and that the program starts in a
database its schema admits (`SeedAssumption`, `InitialAssumption`,
`StartAssumption`).

Every safety property of the runs is proved. Liveness (`ScheduledReachesDisk`,
`PeersConverge`, `DirtyIsSaved`, `MirrorConverges`, `NavigationSettles`) rests on
fairness and ENABLED, which the prover does not reach, and is only model-checked.

## Not modelled

Content and layout of documents, the websocket wire format (variable-length
integers, Yjs encodings, a stored state that does not decode), logging,
metrics, admin roles, locales; the database's and the queue's own algorithms;
tag rows, PDF extraction and rendering, which are single reads and writes or
pure functions; messages from the relay to clients as separate steps; several
notes at once in the relay and the save loop (nothing in them is shared
between notes); focus that returns to an inline reference in the editor. Two
awaits are part of the step they follow: the log entry of the snapshot job
(`notes-snapshot.ts:27`), after which the document that was fetched before it is
encoded, even if a load has replaced it meanwhile (`clobbered`), and the enqueue
after an update was broadcast (`server.ts:195`).

## Plan

Done: every module above. What would add most next:

1. The auto-title interval and the seen route, next to `NoteBody` and `Access`.
2. The wire format of the relay (`CollabWire`) with 32-bit arithmetic.
3. PDF extraction racing the sweep of its asset.
