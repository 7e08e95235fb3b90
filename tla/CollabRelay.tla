----------------------------- MODULE CollabRelay -----------------------------
(***************************************************************************)
(* The real-time collaboration relay of the worker process, for one note:  *)
(* apps/worker/src/yjs/server.ts with the Bun websocket handlers of        *)
(* apps/worker/src/index.ts that drive it, the debounced snapshot job      *)
(* (packages/jobs/src/queues.ts, processors/notes-snapshot.ts) and the     *)
(* persistence functions (yjs/persistence.ts).  Rooms, cached documents    *)
(* and job ids are all keyed by the note id, so notes do not interact.     *)
(*                                                                         *)
(* A Yjs document is the set of updates merged into it: applyUpdate is     *)
(* union, a diff is set difference.  Each await of the code ends an        *)
(* action; what runs between two awaits is one action.                     *)
(***************************************************************************)
EXTENDS Naturals

CONSTANTS
    Client,      \* browser tabs that hold a Y.Doc of the note
    Sock,        \* websocket connections
    Owner,       \* the client each connection belongs to
    Update,      \* document updates
    Readers,     \* clients whose token says view-only access ('r')
    NoClient,    \* no actor recorded
    Cursors,     \* clients that send awareness messages
    Events       \* which of AllEvents may happen

ASSUME OwnerAssumption == Owner \in [Sock -> Client]
ASSUME ReadersAssumption == Readers \subseteq Client
ASSUME NoClientAssumption == NoClient \notin Client

\* A failing enqueue, database call or send to a peer; the death of the worker
\* process; the loss of a connection; the deletion of the note; the debounce
\* delay of a snapshot job running out.
AllEvents == {"redis", "database", "send", "crash", "disconnect", "delete", "debounce"}
ASSUME EnvironmentAssumption == Events \subseteq AllEvents /\ Cursors \subseteq Client

VARIABLES
    \* The clients and the network
    author,      \* the client that created each update
    have,        \* the updates in each client's Y.Doc
    live,        \* connections whose transport is up
    closing,     \* connections whose close event has not been handled yet
    up,          \* messages on their way from a client to the relay
    synced,      \* connections whose sync-step-1 has been answered
    \* The relay process
    room,        \* rooms.get(noteId)
    closeFn,     \* connections whose ws.data.close is the real close function
    loaded,      \* docs.has(noteId)
    doc,         \* content of docs.get(noteId)
    reading,     \* handlers waiting for the database row
    rows,        \* handlers whose row has been read but not yet returned
    \* The queue and the snapshot worker
    job,         \* the job with id snapshot-<noteId>
    snap,        \* the snapshot processor's run
    \* The database
    exists,      \* does the note row exist?
    db,          \* content of Note.yjsState
    lastEditor,  \* Note.lastEditorId
    \* History variables, read by properties only
    accepted,    \* updates applied since the process started
    clobbered    \* has docs.set dropped updates from the cached document?

clientVars == <<author, have>>
netVars == <<live, closing, up, synced>>
relayVars == <<room, closeFn, loaded, doc, reading, rows>>
jobVars == <<job, snap>>
dbVars == <<exists, db, lastEditor>>
ghostVars == <<accepted, clobbered>>
vars == <<clientVars, netVars, relayVars, jobVars, dbVars, ghostVars>>

-----------------------------------------------------------------------------
Kind == {"open", "step1", "awareness", "push"}

\* What a handler of the relay works on: the open event of a connection or
\* one of its messages.  A push is a sync-step-2 or a sync-update.
Request == [by: Sock, kind: Kind, body: SUBSET Update]

OpenOf(s) == [by |-> s, kind |-> "open", body |-> {}]
Step1Of(s) == [by |-> s, kind |-> "step1", body |-> {}]
AwarenessOf(s) == [by |-> s, kind |-> "awareness", body |-> {}]
PushOf(s, us) == [by |-> s, kind |-> "push", body |-> us]

NoJob == [st |-> "none", actor |-> NoClient, tries |-> 0, stalls |-> 0]
Job == [st: {"none", "delayed", "active", "completed", "failed"},
        actor: Client \cup {NoClient}, tries: 0..2, stalls: 0..1]

Idle == [pc |-> "idle", bytes |-> {}]
Snap == [pc: {"idle", "check", "write", "history"}, bytes: SUBSET Update]

TypeOK ==
    /\ author \in [Update -> Client \cup {NoClient}]
    /\ have \in [Client -> SUBSET Update]
    /\ live \subseteq Sock /\ closing \subseteq Sock /\ synced \subseteq Sock
    /\ up \subseteq Request
    /\ room \subseteq Sock /\ closeFn \subseteq Sock
    /\ loaded \in BOOLEAN /\ doc \subseteq Update
    /\ reading \subseteq Request
    /\ rows \subseteq [req: Request, row: SUBSET Update]
    /\ job \in Job /\ snap \in Snap
    /\ exists \in BOOLEAN /\ db \subseteq Update
    /\ lastEditor \in Client \cup {NoClient}
    /\ accepted \subseteq Update /\ clobbered \in BOOLEAN

Init ==
    /\ author = [u \in Update |-> NoClient]
    /\ have = [c \in Client |-> {}]
    /\ live = {} /\ closing = {} /\ up = {} /\ synced = {}
    /\ room = {} /\ closeFn = {} /\ loaded = FALSE /\ doc = {}
    /\ reading = {} /\ rows = {}
    /\ job = NoJob /\ snap = Idle
    /\ exists = TRUE /\ db = {} /\ lastEditor = NoClient
    /\ accepted = {} /\ clobbered = FALSE

-----------------------------------------------------------------------------
(* The queue as seen through enqueueNotesSnapshot: BullMQ ignores an add   *)
(* whose job id is taken, whatever the state of the job that holds it.     *)

AddJob(c) ==
    job' = IF job.st = "none"
           THEN [st |-> "delayed", actor |-> c, tries |-> 1, stalls |-> 0]
           ELSE job

\* The job goes back to the queue: after a failed attempt or a stalled run.
Requeued(tries, stalls) ==
    [st |-> "delayed", actor |-> job.actor, tries |-> tries, stalls |-> stalls]

\* scheduleSnapshot: a failing enqueue is logged and swallowed.
ScheduleSnapshot(c) == \/ AddJob(c)
                       \/ "redis" \in Events /\ UNCHANGED job

-----------------------------------------------------------------------------
(* The handlers, from the point where getOrLoadDoc has returned a document *)
(* with content d.  pending is what is left of up once the handler's own   *)
(* message is out of it, and conns the connections that are up.            *)

\* Mutant: the relay asks for nothing.
AskNothing(s, d, conns) == {}

\* The relay's sync-step-1 reaches a live client, whose provider answers
\* with everything that the state vector d lacks.
Ask(s, d, conns) == IF s \in conns THEN {PushOf(s, have[Owner[s]] \ d)} ELSE {}

\* onSocketOpen after its await; then open() attaches the close function.
HandleOpen(req, d, pending, conns) ==
    /\ req.kind = "open"
    /\ doc' = d
    /\ up' = pending \cup Ask(req.by, d, conns)
    /\ closeFn' = closeFn \cup {req.by}
    /\ live' = conns
    /\ UNCHANGED <<have, synced, closing, accepted, job>>

\* Mutant: the diff is taken against the relay's own state vector.
HandleStep1OwnVector(req, d, pending, conns) ==
    /\ req.kind = "step1"
    /\ doc' = d
    /\ up' = pending \cup Ask(req.by, d, conns)
    /\ synced' = IF req.by \in conns THEN synced \cup {req.by} ELSE synced
    /\ live' = conns
    /\ UNCHANGED <<have, closeFn, closing, accepted, job>>

\* sync-step-1: the diff goes to the client, then the relay's own step 1.
HandleStep1(req, d, pending, conns) ==
    /\ req.kind = "step1"
    /\ doc' = d
    /\ up' = pending \cup Ask(req.by, d, conns)
    /\ IF req.by \in conns
       THEN /\ have' = [have EXCEPT ![Owner[req.by]] = @ \cup d]
            /\ synced' = synced \cup {req.by}
       ELSE UNCHANGED <<have, synced>>
    /\ live' = conns
    /\ UNCHANGED <<closeFn, closing, accepted, job>>

\* Mutant: the access check is missing.
HandleReaderPushApplied(req, d, pending, conns) ==
    /\ req.kind = "push" /\ Owner[req.by] \in Readers
    /\ doc' = d \cup req.body
    /\ accepted' = accepted \cup req.body
    /\ up' = pending /\ live' = conns
    /\ UNCHANGED <<have, synced, closeFn, closing, job>>

\* sync-step-2 and update from a view-only connection are dropped.
HandleReaderPush(req, d, pending, conns) ==
    /\ req.kind = "push" /\ Owner[req.by] \in Readers
    /\ doc' = d /\ up' = pending /\ live' = conns
    /\ UNCHANGED <<have, synced, closeFn, closing, accepted, job>>

\* broadcastToRoom: every peer whose send works merges the body.  index.ts
\* builds a fresh PerSocket object for each message, so no room member is
\* identical to the sender and the sender is sent its own update too.
Broadcast(body, reached) ==
    have' = [c \in Client |-> IF \E s \in reached : Owner[s] = c
                              THEN have[c] \cup body ELSE have[c]]

\* sync-step-2 and update from a writer: apply, broadcast, schedule.  A peer
\* whose send throws is closed; the others are still served.
HandleWriterPush(req, d, pending, conns) ==
    /\ req.kind = "push" /\ Owner[req.by] \notin Readers
    /\ doc' = d \cup req.body
    /\ accepted' = accepted \cup req.body
    /\ \E failing \in SUBSET (room \cap conns) :
          /\ "send" \in Events \/ failing = {}
          /\ Broadcast(req.body, (room \cap conns) \ failing)
          /\ live' = conns \ failing
          /\ closing' = closing \cup failing
          /\ up' = {m \in pending : m.by \notin failing}
          /\ synced' = synced \ failing
    /\ ScheduleSnapshot(Owner[req.by])
    /\ UNCHANGED closeFn

\* awareness: relayed verbatim; no document changes.
HandleAwareness(req, d, pending, conns) ==
    /\ req.kind = "awareness"
    /\ doc' = d /\ up' = pending /\ live' = conns
    /\ UNCHANGED <<have, synced, closeFn, closing, accepted, job>>

Handle(req, d, pending, conns) ==
    /\ loaded' = TRUE
    /\ \/ HandleOpen(req, d, pending, conns)
       \/ HandleStep1(req, d, pending, conns)
       \/ HandleReaderPush(req, d, pending, conns)
       \/ HandleWriterPush(req, d, pending, conns)
       \/ HandleAwareness(req, d, pending, conns)

\* getOrLoadDoc: a cached document is used at once, otherwise the handler
\* waits for the database and everything else may run in between.
Dispatch(req, pending, conns) ==
    \/ /\ loaded
       /\ Handle(req, doc, pending, conns)
       /\ UNCHANGED reading
    \/ /\ ~loaded
       /\ reading' = reading \cup {req}
       /\ up' = pending /\ live' = conns
       /\ UNCHANGED <<loaded, doc, have, synced, closeFn, closing, accepted, job>>

-----------------------------------------------------------------------------
(* The relay's events. *)

Busy(s) == \/ s \in live \cup closing \cup room
           \/ \E r \in reading : r.by = s
           \/ \E r \in rows : r.req.by = s

\* An accepted upgrade: open() joins the room before it awaits the document.
\* The provider sends its own sync-step-1 as soon as it is connected.
Connect(s) ==
    /\ ~Busy(s)
    /\ \A t \in live : Owner[t] # Owner[s]
    /\ room' = room \cup {s}
    /\ Dispatch(OpenOf(s), up \cup {Step1Of(s)}, live \cup {s})
    /\ UNCHANGED <<author, rows, snap, dbVars, clobbered>>

\* message(): handlers of one connection do not wait for each other.
Receive(m) ==
    /\ m \in up
    /\ Dispatch(m, up \ {m}, live)
    /\ UNCHANGED <<author, room, rows, snap, dbVars, clobbered>>

\* loadDocFromDb: the row is read ...
ReadRow(req) ==
    /\ req \in reading
    /\ reading' = reading \ {req}
    /\ rows' = rows \cup {[req |-> req, row |-> db]}
    /\ UNCHANGED <<clientVars, netVars, room, closeFn, loaded, doc, jobVars,
                   dbVars, ghostVars>>

\* A throwing load: the handler ends there and is not run again; open() leaves
\* the connection in the room without a close function.  Should the rejection
\* end the process, it is a Crash.
FailLoad(req) ==
    /\ "database" \in Events
    /\ req \in reading
    /\ reading' = reading \ {req}
    /\ UNCHANGED <<clientVars, netVars, room, closeFn, loaded, doc, rows, jobVars,
                   dbVars, ghostVars>>

\* ... and later returned: docs.set replaces whatever is cached by then.
FinishLoad(r) ==
    /\ r \in rows
    /\ rows' = rows \ {r}
    /\ Handle(r.req, r.row, up, live)
    /\ clobbered' = (clobbered \/ ~(doc \subseteq doc'))
    /\ UNCHANGED <<author, room, reading, snap, dbVars>>

\* The transport goes down; what the client had sent is lost with it.
Disconnect(s) ==
    /\ "disconnect" \in Events
    /\ s \in live
    /\ live' = live \ {s}
    /\ closing' = closing \cup {s}
    /\ up' = {m \in up : m.by # s}
    /\ synced' = synced \ {s}
    /\ UNCHANGED <<clientVars, relayVars, jobVars, dbVars, ghostVars>>

\* Mutant: the room forgets every connection of the user who left.
CloseEventByUser(s) ==
    /\ s \in closing
    /\ closing' = closing \ {s}
    /\ closeFn' = closeFn \ {s}
    /\ IF s \in closeFn
       THEN /\ room' = {t \in room : Owner[t] # Owner[s]}
            /\ IF room' = {} THEN ScheduleSnapshot(Owner[s]) ELSE UNCHANGED job
       ELSE UNCHANGED <<room, job>>
    /\ UNCHANGED <<clientVars, live, up, synced, loaded, doc, reading, rows,
                   snap, dbVars, ghostVars>>

\* Mutant: the document leaves the cache with the last connection.
CloseEventEvicts(s) ==
    /\ s \in closing
    /\ closing' = closing \ {s}
    /\ closeFn' = closeFn \ {s}
    /\ IF s \in closeFn
       THEN /\ room' = room \ {s}
            /\ IF room = {s} THEN /\ ScheduleSnapshot(Owner[s])
                                 /\ loaded' = FALSE /\ doc' = {}
               ELSE UNCHANGED <<job, loaded, doc>>
       ELSE UNCHANGED <<room, job, loaded, doc>>
    /\ UNCHANGED <<clientVars, live, up, synced, reading, rows, snap, dbVars, ghostVars>>

\* close(): before open() has attached the close function it does nothing.
CloseEvent(s) ==
    /\ s \in closing
    /\ closing' = closing \ {s}
    /\ closeFn' = closeFn \ {s}
    /\ IF s \in closeFn
       THEN /\ room' = room \ {s}
            /\ IF room = {s} THEN ScheduleSnapshot(Owner[s]) ELSE UNCHANGED job
       ELSE UNCHANGED <<room, job>>
    /\ UNCHANGED <<clientVars, live, up, synced, loaded, doc, reading, rows,
                   snap, dbVars, ghostVars>>

\* The worker process dies; a job it was running stalls and, the first time,
\* goes back to the queue.
Crash ==
    /\ "crash" \in Events
    /\ live' = {} /\ closing' = {} /\ up' = {} /\ synced' = {}
    /\ room' = {} /\ closeFn' = {} /\ loaded' = FALSE /\ doc' = {}
    /\ reading' = {} /\ rows' = {}
    /\ snap' = Idle
    /\ job' = IF job.st # "active" THEN job
              ELSE IF job.stalls = 0 THEN Requeued(job.tries, 1)
              ELSE [job EXCEPT !.st = "failed"]
    /\ accepted' = {} /\ clobbered' = FALSE
    /\ UNCHANGED <<clientVars, dbVars>>

-----------------------------------------------------------------------------
(* The clients. *)

\* A local edit, sent at once when the provider is connected.
Edit(c, u) ==
    /\ author[u] = NoClient
    /\ author' = [author EXCEPT ![u] = c]
    /\ have' = [have EXCEPT ![c] = @ \cup {u}]
    /\ up' = up \cup {PushOf(s, {u}) : s \in {t \in live : Owner[t] = c}}
    /\ UNCHANGED <<live, closing, synced, relayVars, jobVars, dbVars, ghostVars>>

\* A cursor move.
MoveCursor(s) ==
    /\ s \in live /\ Owner[s] \in Cursors
    /\ up' = up \cup {AwarenessOf(s)}
    /\ UNCHANGED <<clientVars, live, closing, synced, relayVars, jobVars,
                   dbVars, ghostVars>>

-----------------------------------------------------------------------------
(* The snapshot worker (concurrency 1). *)

Finish(st) == job' = [job EXCEPT !.st = st] /\ snap' = Idle

\* Mutant: without a cached document an empty one is saved.
StartSnapshotAnyway ==
    /\ "debounce" \in Events /\ job.st = "delayed"
    /\ job' = [job EXCEPT !.st = "active"]
    /\ snap' = [pc |-> "check", bytes |-> doc]
    /\ UNCHANGED <<clientVars, netVars, relayVars, dbVars, ghostVars>>

\* processNotesSnapshot: nothing to do without a document, otherwise
\* saveDocSnapshot encodes the document and looks the note up.
StartSnapshot ==
    /\ "debounce" \in Events /\ job.st = "delayed"
    /\ IF loaded
       THEN /\ job' = [job EXCEPT !.st = "active"]
            /\ snap' = [pc |-> "check", bytes |-> doc]
       ELSE Finish("completed")
    /\ UNCHANGED <<clientVars, netVars, relayVars, dbVars, ghostVars>>

CheckNote ==
    /\ snap.pc = "check"
    /\ IF exists THEN snap' = [snap EXCEPT !.pc = "write"] /\ UNCHANGED job
                 ELSE Finish("completed")
    /\ UNCHANGED <<clientVars, netVars, relayVars, dbVars, ghostVars>>

WriteState ==
    /\ snap.pc = "write" /\ exists
    /\ db' = snap.bytes
    /\ lastEditor' = job.actor
    /\ snap' = [snap EXCEPT !.pc = "history"]
    /\ UNCHANGED <<clientVars, netVars, relayVars, job, exists, ghostVars>>

\* The NoteHistory row repeats the actor and the bytes just written; rows are
\* only ever listed, so the table itself is left out.
WriteHistory ==
    /\ snap.pc = "history" /\ exists
    /\ Finish("completed")
    /\ UNCHANGED <<clientVars, netVars, relayVars, dbVars, ghostVars>>

\* Mutant: a failed save is reported as done.
FailSnapshotQuietly ==
    /\ snap.pc # "idle"
    /\ "database" \in Events
    /\ Finish("completed")
    /\ UNCHANGED <<clientVars, netVars, relayVars, dbVars, ghostVars>>

\* A throwing database call: BullMQ retries the job once, then keeps it failed.
FailSnapshot ==
    /\ snap.pc # "idle"
    /\ "database" \in Events \/ (snap.pc \in {"write", "history"} /\ ~exists)
    /\ IF job.tries < 2
       THEN /\ job' = Requeued(job.tries + 1, job.stalls)
            /\ snap' = Idle
       ELSE Finish("failed")
    /\ UNCHANGED <<clientVars, netVars, relayVars, dbVars, ghostVars>>

\* removeOnComplete / removeOnFail: the finished job's record is dropped.
ExpireJob ==
    /\ job.st \in {"completed", "failed"}
    /\ job' = NoJob
    /\ UNCHANGED <<clientVars, netVars, relayVars, snap, dbVars, ghostVars>>

\* DELETE /api/notes/[id]?hard: the row goes.
DeleteNote ==
    /\ "delete" \in Events /\ exists
    /\ exists' = FALSE /\ db' = {} /\ lastEditor' = NoClient
    /\ UNCHANGED <<clientVars, netVars, relayVars, jobVars, ghostVars>>

-----------------------------------------------------------------------------
RelayStep ==
    \/ \E m \in up : Receive(m)
    \/ \E r \in reading : ReadRow(r)
    \/ \E r \in rows : FinishLoad(r)
    \/ \E s \in closing : CloseEvent(s)

SnapshotStep == StartSnapshot \/ CheckNote \/ WriteState \/ WriteHistory \/ FailSnapshot

EnvStep ==
    \/ \E s \in Sock : Connect(s) \/ Disconnect(s) \/ MoveCursor(s)
    \/ \E c \in Client, u \in Update : Edit(c, u)
    \/ \E r \in reading : FailLoad(r)
    \/ Crash
    \/ DeleteNote

Next == RelayStep \/ SnapshotStep \/ ExpireJob \/ EnvStep

Spec == Init /\ [][Next]_vars

\* The event loop runs pending handlers and the queue runs the snapshot job.
\* Nothing is assumed of the clients, of the network, of crashes.
Fairness == WF_vars(RelayStep) /\ WF_vars(SnapshotStep)

FairSpec == Spec /\ Fairness

-----------------------------------------------------------------------------
(* Properties *)

\* Once the relay has answered a connection's sync-step-1, the client behind
\* it has everything in the cached document for as long as the connection is
\* up: joining the room before awaiting the document leaves no gap, and a peer
\* that misses a broadcast is closed.  (server.ts:242-250, 137-160)
SyncedPeersHaveDoc ==
    exists /\ ~clobbered => \A s \in live \cap synced : doc \subseteq have[Owner[s]]

\* When nothing is under way any more, the connected clients have exactly the
\* cached document, whatever they edited offline, sent while the document was
\* loading or missed while they were away; only a reader may have more.  A load
\* that throws is not made up for.  (server.ts:137-160, 177-199, 242-250)
RestingPeersAgree ==
    "database" \notin Events /\ up \cup reading = {} /\ rows = {} /\ exists /\ ~clobbered =>
        \A s \in live : /\ doc \subseteq have[Owner[s]]
                        /\ Owner[s] \notin Readers => have[Owner[s]] \subseteq doc

\* Nothing a view-only client creates reaches the document, the database or
\* another client, through whichever connection, load or snapshot.
\* (server.ts:187-194)
FromWriter(u) == author[u] # NoClient /\ author[u] \notin Readers
NoReaderContent ==
    /\ \A u \in doc \cup db : FromWriter(u)
    /\ \A c \in Client : \A u \in have[c] : author[u] = c \/ FromWriter(u)

\* Every update the relay has applied since it started is in its cached
\* document, unless a load that overlapped another one has dropped updates.
\* (server.ts:127-133, 195)
AcceptedInDoc == ~clobbered => accepted \subseteq doc

\* Snapshots only ever add to the stored state: neither a restart, a retry nor
\* a snapshot taken without a live document shrinks Note.yjsState.
\* (persistence.ts:49-66, notes-snapshot.ts:21-26)
DurableGrows == [][exists' /\ ~clobbered => db \subseteq db']_vars

\* A pending snapshot job takes everything that was in the document when it
\* was pending to the database, unless the process dies, the job has used up
\* its attempts, the note is deleted or overlapping loads dropped updates.
ScheduledReachesDisk ==
    \A u \in Update :
        (job.st = "delayed" /\ loaded /\ u \in doc)
            ~> (u \in db \/ ~loaded \/ clobbered \/ job.st = "failed" \/ ~exists)

\* If from some time on all clients stay connected, they end up with every
\* update a writer made, whatever was edited offline or sent while documents
\* were loading or lost with the process, unless overlapping loads have dropped
\* updates.
AllConnected == \A c \in Client : \E s \in live : Owner[s] = c
Agreed == \A u \in Update : FromWriter(u) => \A c \in Client : u \in have[c]
PeersConverge == <>[]AllConnected => (<>[]Agreed \/ <>clobbered)

=============================================================================
