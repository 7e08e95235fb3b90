-------------------------- MODULE CollabRelayProofs --------------------------
(***************************************************************************)
(* Proofs about CollabRelay, for any sets of clients, connections and      *)
(* updates and any subset of the environment's events.                     *)
(***************************************************************************)
EXTENDS CollabRelay, TLAPS

-----------------------------------------------------------------------------
(* Type correctness *)

LEMMA RequestTypes ==
    ASSUME NEW s \in Sock, NEW us \in SUBSET Update
    PROVE  /\ OpenOf(s) \in Request /\ Step1Of(s) \in Request
           /\ AwarenessOf(s) \in Request /\ PushOf(s, us) \in Request
  BY DEF OpenOf, Step1Of, AwarenessOf, PushOf, Request, Kind

LEMMA AskType ==
    ASSUME TypeOK, NEW s \in Sock, NEW d \in SUBSET Update, NEW conns
    PROVE  Ask(s, d, conns) \subseteq Request
  BY OwnerAssumption, RequestTypes DEF Ask, TypeOK

LEMMA ScheduleType ==
    ASSUME TypeOK, NEW c \in Client, ScheduleSnapshot(c)
    PROVE  job' \in Job
  BY DEF TypeOK, ScheduleSnapshot, AddJob, Job

\* What a handler leaves behind is well typed.
HandlerTypes ==
    /\ up' \subseteq Request
    /\ have' \in [Client -> SUBSET Update]
    /\ live' \subseteq Sock /\ closing' \subseteq Sock /\ synced' \subseteq Sock
    /\ closeFn' \subseteq Sock
    /\ loaded' \in BOOLEAN /\ doc' \subseteq Update
    /\ accepted' \subseteq Update
    /\ job' \in Job

LEMMA HandleType ==
    ASSUME TypeOK, NEW req \in Request, NEW d \in SUBSET Update,
           NEW pending \in SUBSET Request, NEW conns \in SUBSET Sock,
           Handle(req, d, pending, conns)
    PROVE  HandlerTypes
<1>0. req.by \in Sock /\ req.body \subseteq Update /\ Owner[req.by] \in Client
  BY OwnerAssumption DEF Request
<1>1. Ask(req.by, d, conns) \subseteq Request
  BY <1>0, AskType
<1>2. CASE HandleOpen(req, d, pending, conns)
  BY <1>0, <1>1, <1>2 DEF HandleOpen, HandlerTypes, TypeOK, Handle
<1>3. CASE HandleStep1(req, d, pending, conns)
  BY <1>0, <1>1, <1>3 DEF HandleStep1, HandlerTypes, TypeOK, Handle
<1>4. CASE HandleReaderPush(req, d, pending, conns)
  BY <1>0, <1>4 DEF HandleReaderPush, HandlerTypes, TypeOK, Handle
<1>5. CASE HandleWriterPush(req, d, pending, conns)
  <2>1. PICK failing \in SUBSET (room \cap conns) :
          /\ Broadcast(req.body, (room \cap conns) \ failing)
          /\ live' = conns \ failing
          /\ closing' = closing \cup failing
          /\ up' = {m \in pending : m.by \notin failing}
          /\ synced' = synced \ failing
    BY <1>5 DEF HandleWriterPush
  <2>2. have' \in [Client -> SUBSET Update]
    BY <1>0, <2>1 DEF Broadcast, TypeOK
  <2>3. job' \in Job
    BY <1>0, <1>5, ScheduleType DEF HandleWriterPush
  <2> QED
    BY <1>0, <1>5, <2>1, <2>2, <2>3 DEF HandleWriterPush, HandlerTypes, TypeOK, Handle
<1>6. CASE HandleAwareness(req, d, pending, conns)
  BY <1>0, <1>6 DEF HandleAwareness, HandlerTypes, TypeOK, Handle
<1> QED
  BY <1>2, <1>3, <1>4, <1>5, <1>6 DEF Handle

LEMMA DispatchType ==
    ASSUME TypeOK, NEW req \in Request,
           NEW pending \in SUBSET Request, NEW conns \in SUBSET Sock,
           Dispatch(req, pending, conns)
    PROVE  HandlerTypes /\ reading' \subseteq Request
<1>1. CASE loaded /\ Handle(req, doc, pending, conns) /\ UNCHANGED reading
  BY <1>1, HandleType DEF TypeOK
<1>2. CASE ~loaded /\ ~(loaded /\ Handle(req, doc, pending, conns))
  BY <1>2 DEF Dispatch, HandlerTypes, TypeOK
<1> QED
  BY <1>1, <1>2 DEF Dispatch

\* All variables keep their types.
THEOREM TypeCorrect == Spec => []TypeOK
<1>1. Init => TypeOK
  <2> SUFFICES ASSUME Init PROVE TypeOK
    OBVIOUS
  <2>1. job \in Job
    BY DEF Init, NoJob, Job
  <2>2. snap \in Snap
    BY DEF Init, Idle, Snap
  <2> QED
    BY <2>1, <2>2 DEF Init, TypeOK
<1>2. TypeOK /\ [Next]_vars => TypeOK'
  <2> SUFFICES ASSUME TypeOK, [Next]_vars PROVE TypeOK'
    OBVIOUS
  <2>1. ASSUME NEW m \in up, Receive(m) PROVE TypeOK'
    <3>1. m \in Request /\ up \ {m} \in SUBSET Request /\ live \in SUBSET Sock
      BY DEF TypeOK
    <3>2. HandlerTypes /\ reading' \subseteq Request
      BY <2>1, <3>1, DispatchType DEF Receive
    <3> QED
      BY <2>1, <3>2 DEF Receive, HandlerTypes, TypeOK, dbVars
  <2>2. ASSUME NEW r \in reading, ReadRow(r) PROVE TypeOK'
    BY <2>2 DEF ReadRow, TypeOK, clientVars, netVars, jobVars, dbVars, ghostVars
  <2>3. ASSUME NEW r \in rows, FinishLoad(r) PROVE TypeOK'
    <3>1. /\ r.req \in Request /\ r.row \in SUBSET Update
          /\ up \in SUBSET Request /\ live \in SUBSET Sock
      BY DEF TypeOK
    <3>2. HandlerTypes
      BY <2>3, <3>1, HandleType DEF FinishLoad
    <3>3. clobbered' \in BOOLEAN
      BY <2>3 DEF FinishLoad, TypeOK
    <3> QED
      BY <2>3, <3>2, <3>3 DEF FinishLoad, HandlerTypes, TypeOK, dbVars
  <2>4. ASSUME NEW s \in closing, CloseEvent(s) PROVE TypeOK'
    <3>1. s \in Sock /\ Owner[s] \in Client
      BY OwnerAssumption DEF TypeOK
    <3>2. job' \in Job
      BY <2>4, <3>1, ScheduleType DEF CloseEvent, TypeOK
    <3> QED
      BY <2>4, <3>2 DEF CloseEvent, TypeOK, clientVars, dbVars, ghostVars
  <2>5. ASSUME NEW s \in Sock, Connect(s) PROVE TypeOK'
    <3>1. /\ OpenOf(s) \in Request
          /\ up \cup {Step1Of(s)} \in SUBSET Request
          /\ live \cup {s} \in SUBSET Sock
      BY RequestTypes DEF TypeOK
    <3>2. HandlerTypes /\ reading' \subseteq Request
      BY <2>5, <3>1, DispatchType DEF Connect
    <3> QED
      BY <2>5, <3>2 DEF Connect, HandlerTypes, TypeOK, dbVars
  <2>6. ASSUME NEW s \in Sock, Disconnect(s) PROVE TypeOK'
    BY <2>6 DEF Disconnect, TypeOK, clientVars, relayVars, jobVars, dbVars, ghostVars
  <2>7. ASSUME NEW s \in Sock, MoveCursor(s) PROVE TypeOK'
    BY <2>7, RequestTypes
    DEF MoveCursor, TypeOK, clientVars, relayVars, jobVars, dbVars, ghostVars
  <2>8. ASSUME NEW c \in Client, NEW u \in Update, Edit(c, u) PROVE TypeOK'
    <3>1. {PushOf(s, {u}) : s \in {t \in live : Owner[t] = c}} \subseteq Request
      BY RequestTypes DEF TypeOK
    <3> QED
      BY <2>8, <3>1 DEF Edit, TypeOK, relayVars, jobVars, dbVars, ghostVars
  <2>9. CASE Crash
    <3>1. job' \in Job
      BY <2>9 DEF Crash, Requeued, TypeOK, Job
    <3>2. snap' \in Snap
      BY <2>9 DEF Crash, Idle, Snap
    <3>3. UNCHANGED <<author, have, exists, db, lastEditor>>
      BY <2>9 DEF Crash, clientVars, dbVars
    <3>4. /\ live' = {} /\ closing' = {} /\ up' = {} /\ synced' = {}
          /\ room' = {} /\ closeFn' = {} /\ loaded' = FALSE /\ doc' = {}
          /\ reading' = {} /\ rows' = {} /\ accepted' = {} /\ clobbered' = FALSE
      BY <2>9 DEF Crash
    <3> QED
      BY <3>1, <3>2, <3>3, <3>4 DEF TypeOK
  <2>10. CASE DeleteNote
    BY <2>10 DEF DeleteNote, TypeOK, clientVars, netVars, relayVars, jobVars, ghostVars
  <2>11. CASE SnapshotStep
    <3>1. /\ UNCHANGED <<clientVars, netVars, relayVars, exists, ghostVars>>
          /\ db' \subseteq Update /\ lastEditor' \in Client \cup {NoClient}
      BY <2>11 DEF SnapshotStep, StartSnapshot, CheckNote, WriteState, WriteHistory,
                   FailSnapshot, TypeOK, Job, Snap, dbVars
    <3>2. job' \in Job
      BY <2>11 DEF SnapshotStep, StartSnapshot, CheckNote, WriteState, WriteHistory,
                   FailSnapshot, Finish, Requeued, TypeOK, Job
    <3>3. snap' \in Snap
      BY <2>11 DEF SnapshotStep, StartSnapshot, CheckNote, WriteState, WriteHistory,
                   FailSnapshot, Finish, TypeOK, Idle, Snap
    <3> QED
      BY <3>1, <3>2, <3>3 DEF TypeOK, clientVars, netVars, relayVars, ghostVars
  <2>14. ASSUME NEW r \in reading, FailLoad(r) PROVE TypeOK'
    BY <2>14 DEF FailLoad, TypeOK, clientVars, netVars, jobVars, dbVars, ghostVars
  <2>12. CASE ExpireJob
    BY <2>12 DEF ExpireJob, NoJob, Job, TypeOK, clientVars, netVars, relayVars, dbVars, ghostVars
  <2>13. CASE UNCHANGED vars
    BY <2>13 DEF vars, TypeOK, clientVars, netVars, relayVars, jobVars, dbVars, ghostVars
  <2> QED
    BY <2>1, <2>2, <2>3, <2>4, <2>5, <2>6, <2>7, <2>8, <2>9, <2>10, <2>11, <2>12, <2>13, <2>14
    DEF Next, RelayStep, EnvStep
<1> QED
  BY <1>1, <1>2, PTL DEF Spec

-----------------------------------------------------------------------------
(* View-only clients: the invariant follows an update from the client that *)
(* creates it through messages, handlers, loaded rows, snapshots and the   *)
(* database.                                                               *)

Clean(us) == \A u \in us : FromWriter(u)
OwnOrClean(c, us) == \A u \in us : author[u] = c \/ FromWriter(u)

ReaderInv ==
    /\ Clean(doc) /\ Clean(db) /\ Clean(snap.bytes)
    /\ \A r \in rows : Clean(r.row) /\ OwnOrClean(Owner[r.req.by], r.req.body)
    /\ \A c \in Client : OwnOrClean(c, have[c])
    /\ \A m \in up \cup reading : OwnOrClean(Owner[m.by], m.body)

\* What a handler leaves behind keeps the invariant.
HandlerClean ==
    /\ \A u \in doc' : FromWriter(u)
    /\ \A c \in Client : OwnOrClean(c, have'[c])
    /\ \A m \in up' : OwnOrClean(Owner[m.by], m.body)

LEMMA AskClean ==
    ASSUME TypeOK, ReaderInv, NEW s \in Sock, NEW d, NEW conns
    PROVE  \A m \in Ask(s, d, conns) : OwnOrClean(Owner[m.by], m.body)
  BY OwnerAssumption DEF Ask, PushOf, ReaderInv, OwnOrClean

LEMMA HandleClean ==
    ASSUME TypeOK, ReaderInv, NEW req \in Request, NEW d \in SUBSET Update,
           NEW pending \in SUBSET Request, NEW conns \in SUBSET Sock,
           Clean(d), OwnOrClean(Owner[req.by], req.body),
           \A m \in pending : OwnOrClean(Owner[m.by], m.body),
           Handle(req, d, pending, conns)
    PROVE  HandlerClean
<1>0. req.by \in Sock /\ req.body \subseteq Update /\ Owner[req.by] \in Client
  BY OwnerAssumption DEF Request
<1>1. \A m \in Ask(req.by, d, conns) : OwnOrClean(Owner[m.by], m.body)
  BY <1>0, AskClean
<1>2. CASE HandleOpen(req, d, pending, conns)
  BY <1>1, <1>2 DEF HandleOpen, HandlerClean, Clean, ReaderInv
<1>3. CASE HandleStep1(req, d, pending, conns)
  <2>1. \A c \in Client : OwnOrClean(c, have'[c])
    BY <1>0, <1>3 DEF HandleStep1, TypeOK, ReaderInv, Clean, OwnOrClean
  <2> QED
    BY <1>1, <1>3, <2>1 DEF HandleStep1, HandlerClean, Clean
<1>4. CASE HandleReaderPush(req, d, pending, conns)
  BY <1>4 DEF HandleReaderPush, HandlerClean, Clean, ReaderInv
<1>5. CASE HandleWriterPush(req, d, pending, conns)
  <2>1. Clean(req.body)
    BY <1>0, <1>5, NoClientAssumption DEF HandleWriterPush, Clean, OwnOrClean, FromWriter
  <2>2. PICK reached \in SUBSET Sock : Broadcast(req.body, reached)
    BY <1>5 DEF HandleWriterPush, TypeOK
  <2>3. \A c \in Client : OwnOrClean(c, have'[c])
    BY <2>1, <2>2 DEF Broadcast, ReaderInv, Clean, OwnOrClean
  <2>4. up' \subseteq pending /\ doc' = d \cup req.body
    BY <1>5 DEF HandleWriterPush
  <2> QED
    BY <2>1, <2>3, <2>4 DEF HandlerClean, Clean
<1>6. CASE HandleAwareness(req, d, pending, conns)
  BY <1>6 DEF HandleAwareness, HandlerClean, Clean, ReaderInv
<1> QED
  BY <1>2, <1>3, <1>4, <1>5, <1>6 DEF Handle

LEMMA DispatchClean ==
    ASSUME TypeOK, ReaderInv, NEW req \in Request,
           NEW pending \in SUBSET Request, NEW conns \in SUBSET Sock,
           OwnOrClean(Owner[req.by], req.body),
           \A m \in pending : OwnOrClean(Owner[m.by], m.body),
           Dispatch(req, pending, conns)
    PROVE  /\ HandlerClean
           /\ \A m \in reading' : OwnOrClean(Owner[m.by], m.body)
<1>1. CASE loaded /\ Handle(req, doc, pending, conns) /\ UNCHANGED reading
  <2>1. doc \in SUBSET Update /\ Clean(doc)
    BY DEF TypeOK, ReaderInv
  <2>2. HandlerClean
    BY <1>1, <2>1, HandleClean
  <2> QED
    BY <1>1, <2>2 DEF ReaderInv
<1>2. CASE ~loaded /\ ~(loaded /\ Handle(req, doc, pending, conns))
  BY <1>2 DEF Dispatch, HandlerClean, ReaderInv, Clean
<1> QED
  BY <1>1, <1>2 DEF Dispatch

LEMMA ReaderStep ==
    ASSUME TypeOK, ReaderInv, [Next]_vars
    PROVE  ReaderInv'
<1>1. ASSUME NEW m \in up, Receive(m) PROVE ReaderInv'
  <2>1. m \in Request /\ up \ {m} \in SUBSET Request /\ live \in SUBSET Sock
    BY DEF TypeOK
  <2>2. /\ OwnOrClean(Owner[m.by], m.body)
        /\ \A n \in up \ {m} : OwnOrClean(Owner[n.by], n.body)
    BY DEF ReaderInv
  <2>3. /\ HandlerClean
        /\ \A n \in reading' : OwnOrClean(Owner[n.by], n.body)
    BY <1>1, <2>1, <2>2, DispatchClean DEF Receive
  <2>4. UNCHANGED <<author, rows, snap, db>>
    BY <1>1 DEF Receive, dbVars
  <2> QED
    BY <2>3, <2>4 DEF HandlerClean, ReaderInv, Clean, OwnOrClean, FromWriter
<1>2. ASSUME NEW r \in reading, ReadRow(r) PROVE ReaderInv'
  BY <1>2 DEF ReadRow, ReaderInv, Clean, OwnOrClean, FromWriter,
              clientVars, netVars, jobVars, dbVars, ghostVars
<1>3. ASSUME NEW r \in rows, FinishLoad(r) PROVE ReaderInv'
  <2>1. /\ r.req \in Request /\ r.row \in SUBSET Update
        /\ up \in SUBSET Request /\ live \in SUBSET Sock
    BY DEF TypeOK
  <2>2. /\ Clean(r.row) /\ OwnOrClean(Owner[r.req.by], r.req.body)
        /\ \A n \in up : OwnOrClean(Owner[n.by], n.body)
    BY DEF ReaderInv
  <2>3. HandlerClean
    BY <1>3, <2>1, <2>2, HandleClean DEF FinishLoad
  <2>4. UNCHANGED <<author, reading, snap, db>> /\ rows' \subseteq rows
    BY <1>3 DEF FinishLoad, dbVars
  <2> QED
    BY <2>3, <2>4 DEF HandlerClean, ReaderInv, Clean, OwnOrClean, FromWriter
<1>4. ASSUME NEW s \in closing, CloseEvent(s) PROVE ReaderInv'
  BY <1>4 DEF CloseEvent, ReaderInv, Clean, OwnOrClean, FromWriter,
              clientVars, dbVars, ghostVars
<1>5. ASSUME NEW s \in Sock, Connect(s) PROVE ReaderInv'
  <2>1. /\ OpenOf(s) \in Request
        /\ up \cup {Step1Of(s)} \in SUBSET Request
        /\ live \cup {s} \in SUBSET Sock
    BY RequestTypes DEF TypeOK
  <2>2. /\ OwnOrClean(Owner[OpenOf(s).by], OpenOf(s).body)
        /\ \A n \in up \cup {Step1Of(s)} : OwnOrClean(Owner[n.by], n.body)
    BY DEF ReaderInv, OpenOf, Step1Of, OwnOrClean
  <2>3. /\ HandlerClean
        /\ \A n \in reading' : OwnOrClean(Owner[n.by], n.body)
    BY <1>5, <2>1, <2>2, DispatchClean DEF Connect
  <2>4. UNCHANGED <<author, rows, snap, db>>
    BY <1>5 DEF Connect, dbVars
  <2> QED
    BY <2>3, <2>4 DEF HandlerClean, ReaderInv, Clean, OwnOrClean, FromWriter
<1>6. ASSUME NEW s \in Sock, Disconnect(s) PROVE ReaderInv'
  BY <1>6 DEF Disconnect, ReaderInv, Clean, OwnOrClean, FromWriter,
              clientVars, relayVars, jobVars, dbVars, ghostVars
<1>7. ASSUME NEW s \in Sock, MoveCursor(s) PROVE ReaderInv'
  BY <1>7 DEF MoveCursor, AwarenessOf, ReaderInv, Clean, OwnOrClean, FromWriter,
              clientVars, relayVars, jobVars, dbVars, ghostVars
<1>8. ASSUME NEW c \in Client, NEW u \in Update, Edit(c, u) PROVE ReaderInv'
  \* The update is new: no document, row or message holds it yet.
  <2>1. /\ author[u] = NoClient
        /\ author' = [author EXCEPT ![u] = c]
        /\ have' = [have EXCEPT ![c] = @ \cup {u}]
        /\ up' = up \cup {PushOf(s, {u}) : s \in {t \in live : Owner[t] = c}}
        /\ UNCHANGED <<doc, db, snap, rows, reading>>
    BY <1>8 DEF Edit, relayVars, jobVars, dbVars
  <2>2. \A v \in Update : FromWriter(v) => v # u /\ FromWriter(v)'
    BY <2>1 DEF FromWriter, TypeOK
  <2>3. \A e \in Client, v \in Update :
           (author[v] = e \/ FromWriter(v)) => (author'[v] = e \/ FromWriter(v)')
    BY <2>1, <2>2, NoClientAssumption DEF TypeOK
  <2>4. author'[u] = c
    BY <2>1 DEF TypeOK
  <2>5. Clean(doc)' /\ Clean(db)' /\ Clean(snap.bytes)'
    BY <2>1, <2>2 DEF ReaderInv, Clean, TypeOK, Snap
  <2>6. \A r \in rows' : Clean(r.row)' /\ OwnOrClean(Owner[r.req.by], r.req.body)'
    <3> SUFFICES ASSUME NEW r \in rows
                 PROVE Clean(r.row)' /\ OwnOrClean(Owner[r.req.by], r.req.body)'
      BY <2>1
    <3>1. r.row \subseteq Update /\ r.req.body \subseteq Update /\ Owner[r.req.by] \in Client
      BY OwnerAssumption DEF TypeOK, Request
    <3> QED
      BY <2>2, <2>3, <3>1 DEF ReaderInv, Clean, OwnOrClean
  <2>7. \A e \in Client : OwnOrClean(e, have[e])'
    BY <2>1, <2>3, <2>4 DEF ReaderInv, OwnOrClean, TypeOK
  <2>8. \A m \in up' \cup reading' : OwnOrClean(Owner[m.by], m.body)'
    <3>1. ASSUME NEW m \in up \cup reading PROVE OwnOrClean(Owner[m.by], m.body)'
      <4>1. m.body \subseteq Update /\ Owner[m.by] \in Client
        BY OwnerAssumption DEF TypeOK, Request
      <4> QED
        BY <2>3, <3>1, <4>1 DEF ReaderInv, OwnOrClean
    <3>2. ASSUME NEW s \in live, Owner[s] = c
          PROVE OwnOrClean(Owner[PushOf(s, {u}).by], PushOf(s, {u}).body)'
      BY <2>4, <3>2 DEF PushOf, OwnOrClean
    <3> QED
      BY <2>1, <3>1, <3>2
  <2> QED
    BY <2>5, <2>6, <2>7, <2>8 DEF ReaderInv
<1>9. CASE Crash
  BY <1>9 DEF Crash, Idle, ReaderInv, Clean, OwnOrClean, FromWriter, clientVars, dbVars
<1>10. CASE DeleteNote
  BY <1>10 DEF DeleteNote, ReaderInv, Clean, OwnOrClean, FromWriter,
               clientVars, netVars, relayVars, jobVars, ghostVars
<1>11. CASE SnapshotStep
  <2>1. /\ UNCHANGED <<author, have, doc, rows, up, reading>>
        /\ snap'.bytes \in {snap.bytes, doc, {}} /\ db' \in {db, snap.bytes}
    BY <1>11 DEF SnapshotStep, StartSnapshot, CheckNote, WriteState, WriteHistory,
                 FailSnapshot, Finish, Idle, TypeOK, Snap,
                 clientVars, netVars, relayVars, dbVars, ghostVars
  <2> QED
    BY <2>1 DEF ReaderInv, Clean, OwnOrClean, FromWriter
<1>14. ASSUME NEW r \in reading, FailLoad(r) PROVE ReaderInv'
  BY <1>14 DEF FailLoad, ReaderInv, Clean, OwnOrClean, FromWriter,
              clientVars, netVars, jobVars, dbVars, ghostVars
<1>12. CASE ExpireJob
  BY <1>12 DEF ExpireJob, ReaderInv, Clean, OwnOrClean, FromWriter,
               clientVars, netVars, relayVars, dbVars, ghostVars
<1>13. CASE UNCHANGED vars
  BY <1>13 DEF vars, ReaderInv, Clean, OwnOrClean, FromWriter,
               clientVars, netVars, relayVars, jobVars, dbVars, ghostVars
<1> QED
  BY <1>1, <1>2, <1>3, <1>4, <1>5, <1>6, <1>7, <1>8, <1>9, <1>10, <1>11, <1>12, <1>13, <1>14
  DEF Next, RelayStep, EnvStep

\* Whatever the interleaving of loads, messages, snapshots, crashes and
\* reconnections, nothing a view-only client creates reaches the document, the
\* database or another client.
THEOREM ReadersCannotWrite == Spec => []NoReaderContent
<1>1. Init => ReaderInv
  BY DEF Init, Idle, ReaderInv, Clean, OwnOrClean
<1>2. TypeOK /\ ReaderInv /\ [Next]_vars => ReaderInv'
  BY ReaderStep
<1>3. ReaderInv => NoReaderContent
  BY DEF ReaderInv, NoReaderContent, Clean, OwnOrClean
<1> QED
  BY <1>1, <1>2, <1>3, TypeCorrect, PTL DEF Spec

-----------------------------------------------------------------------------
(* The document: what it holds compared with the database, with the rows   *)
(* still on their way, with the snapshot being saved and with the clients. *)
(* SyncedPeersHaveDoc, AcceptedInDoc and DurableGrows are not inductive by *)
(* themselves: whether a late row may replace the document depends on what *)
(* the database held when the row was read.                                *)

NetInv ==
    /\ live \subseteq room /\ synced \subseteq live /\ live \cap closing = {}
    /\ ~loaded => accepted = {} /\ synced = {}
    /\ snap.pc # "idle" => loaded
    /\ ~exists => db = {}

DocInv ==
    ~clobbered =>
        /\ accepted \subseteq doc
        /\ loaded => db \subseteq doc
        /\ exists => \A r \in rows : IF loaded THEN r.row \subseteq doc ELSE r.row = db
        /\ snap.pc # "idle" => snap.bytes \subseteq doc
        /\ snap.pc \in {"check", "write"} => db \subseteq snap.bytes
        /\ exists => \A s \in synced : doc \subseteq have[Owner[s]]

\* What a handler does to the document d it was given and to the connections.
HandlerDoc(d, conns) ==
    /\ loaded' = TRUE
    /\ d \subseteq doc' /\ accepted \subseteq accepted'
    /\ accepted' \subseteq accepted \cup doc'
    /\ live' \subseteq conns /\ synced' \subseteq live' /\ live' \cap closing' = {}
    /\ \A s \in synced' :
          \/ doc' \subseteq have'[Owner[s]]
          \/ s \in synced /\ ~(d \subseteq have[Owner[s]])

LEMMA HandleDoc ==
    ASSUME TypeOK, NetInv, NEW req \in Request, NEW d \in SUBSET Update,
           NEW pending \in SUBSET Request, NEW conns \in SUBSET Sock,
           live \subseteq conns, conns \cap closing = {},
           conns \subseteq room \/ req.kind = "open",
           Handle(req, d, pending, conns)
    PROVE  HandlerDoc(d, conns)
<1>0. /\ req.by \in Sock /\ Owner[req.by] \in Client
      /\ synced \subseteq conns /\ \A s \in synced : Owner[s] \in Client
  BY OwnerAssumption DEF Request, NetInv, TypeOK
<1>1. CASE HandleOpen(req, d, pending, conns)
  BY <1>0, <1>1 DEF HandleOpen, Handle, HandlerDoc
<1>2. CASE HandleStep1(req, d, pending, conns)
  BY <1>0, <1>2 DEF HandleStep1, Handle, HandlerDoc, TypeOK
<1>3. CASE HandleReaderPush(req, d, pending, conns)
  BY <1>0, <1>3 DEF HandleReaderPush, Handle, HandlerDoc
<1>4. CASE HandleWriterPush(req, d, pending, conns)
  <2>1. PICK failing \in SUBSET (room \cap conns) :
          /\ Broadcast(req.body, (room \cap conns) \ failing)
          /\ live' = conns \ failing
          /\ closing' = closing \cup failing
          /\ synced' = synced \ failing
    BY <1>4 DEF HandleWriterPush
  <2>2. conns \subseteq room
    BY <1>4 DEF HandleWriterPush
  <2>3. ASSUME NEW s \in synced', d \subseteq have[Owner[s]]
        PROVE  doc' \subseteq have'[Owner[s]]
    <3>1. s \in (room \cap conns) \ failing /\ Owner[s] \in Client
      BY <1>0, <2>1, <2>2
    <3>2. have'[Owner[s]] = have[Owner[s]] \cup req.body
      BY <2>1, <3>1 DEF Broadcast
    <3> QED
      BY <1>4, <2>3, <3>2 DEF HandleWriterPush
  <2> QED
    BY <1>0, <1>4, <2>1, <2>3 DEF HandleWriterPush, Handle, HandlerDoc
<1>5. CASE HandleAwareness(req, d, pending, conns)
  BY <1>0, <1>5 DEF HandleAwareness, Handle, HandlerDoc
<1> QED
  BY <1>1, <1>2, <1>3, <1>4, <1>5 DEF Handle

\* A handler that finds the document cached, or has to wait for it.
LEMMA DispatchDoc ==
    ASSUME TypeOK, NetInv, DocInv, NEW req \in Request,
           NEW pending \in SUBSET Request, NEW conns \in SUBSET Sock,
           live \subseteq conns, conns \cap closing = {},
           conns \subseteq room \/ req.kind = "open", conns \subseteq room',
           Dispatch(req, pending, conns),
           UNCHANGED <<rows, snap, exists, db, clobbered>>
    PROVE  NetInv' /\ DocInv'
<1>1. CASE loaded /\ Handle(req, doc, pending, conns)
  <2>1. doc \in SUBSET Update
    BY DEF TypeOK
  <2>2. HandlerDoc(doc, conns)
    BY <1>1, <2>1, HandleDoc
  <2>3. NetInv'
    BY <2>2 DEF HandlerDoc, NetInv
  <2>4. DocInv'
    BY <1>1, <2>2 DEF HandlerDoc, NetInv, DocInv
  <2> QED
    BY <2>3, <2>4
<1>2. CASE ~loaded /\ ~(loaded /\ Handle(req, doc, pending, conns))
  BY <1>2 DEF Dispatch, NetInv, DocInv
<1> QED
  BY <1>1, <1>2 DEF Dispatch

LEMMA DocStep ==
    ASSUME TypeOK, NetInv, DocInv, [Next]_vars
    PROVE  NetInv' /\ DocInv'
<1>1. ASSUME NEW m \in up, Receive(m) PROVE NetInv' /\ DocInv'
  <2>1. m \in Request /\ up \ {m} \in SUBSET Request /\ live \in SUBSET Sock
    BY DEF TypeOK
  <2>2. live \cap closing = {} /\ live \subseteq room /\ live \subseteq room'
    BY <1>1 DEF Receive, NetInv
  <2>3. UNCHANGED <<rows, snap, exists, db, clobbered>>
    BY <1>1 DEF Receive, dbVars
  <2>4. Dispatch(m, up \ {m}, live)
    BY <1>1 DEF Receive
  <2> QED
    BY <2>1, <2>2, <2>3, <2>4, DispatchDoc
<1>2. ASSUME NEW r \in reading, ReadRow(r) PROVE NetInv' /\ DocInv'
  \* The row is what the database holds now, and the document contains it.
  BY <1>2 DEF ReadRow, NetInv, DocInv, clientVars, netVars, jobVars, dbVars, ghostVars
<1>3. ASSUME NEW r \in rows, FinishLoad(r) PROVE NetInv' /\ DocInv'
  <2>1. /\ r.req \in Request /\ r.row \in SUBSET Update
        /\ up \in SUBSET Request /\ live \in SUBSET Sock
    BY DEF TypeOK
  <2>2. live \cap closing = {} /\ live \subseteq room
    BY DEF NetInv
  <2>3. HandlerDoc(r.row, live)
    BY <1>3, <2>1, <2>2, HandleDoc DEF FinishLoad
  <2>4. /\ UNCHANGED <<room, snap, exists, db>> /\ rows' = rows \ {r}
        /\ clobbered' = (clobbered \/ ~(doc \subseteq doc'))
    BY <1>3 DEF FinishLoad, dbVars
  <2>5. NetInv'
    BY <2>2, <2>3, <2>4 DEF HandlerDoc, NetInv
  <2>6. DocInv'
    <3> SUFFICES ASSUME ~clobbered' PROVE DocInv'
      BY DEF DocInv
    <3>1. ~clobbered /\ doc \subseteq doc'
      BY <2>4
    <3>2. accepted' \subseteq doc'
      BY <2>3, <3>1 DEF HandlerDoc, DocInv
    <3>3. db \subseteq doc'
      BY <2>3, <2>4, <3>1 DEF HandlerDoc, DocInv, NetInv
    <3>4. exists => \A q \in rows' : q.row \subseteq doc'
      BY <2>3, <2>4, <3>1 DEF HandlerDoc, DocInv
    <3>5. exists => \A s \in synced' : doc' \subseteq have'[Owner[s]]
      BY <2>3, <3>1 DEF HandlerDoc, DocInv, NetInv
    <3>6. snap.pc # "idle" => snap.bytes \subseteq doc'
      BY <3>1 DEF DocInv
    <3>7. snap.pc \in {"check", "write"} => db \subseteq snap.bytes
      BY <3>1 DEF DocInv
    <3> QED
      BY <2>3, <2>4, <3>2, <3>3, <3>4, <3>5, <3>6, <3>7 DEF HandlerDoc, DocInv
  <2> QED
    BY <2>5, <2>6
<1>4. ASSUME NEW s \in closing, CloseEvent(s) PROVE NetInv' /\ DocInv'
  BY <1>4 DEF CloseEvent, NetInv, DocInv, clientVars, dbVars, ghostVars
<1>5. ASSUME NEW s \in Sock, Connect(s) PROVE NetInv' /\ DocInv'
  <2>1. /\ OpenOf(s) \in Request
        /\ up \cup {Step1Of(s)} \in SUBSET Request
        /\ live \cup {s} \in SUBSET Sock
    BY RequestTypes DEF TypeOK
  <2>2. /\ live \subseteq live \cup {s} /\ (live \cup {s}) \cap closing = {}
        /\ OpenOf(s).kind = "open" /\ live \cup {s} \subseteq room'
    BY <1>5 DEF Connect, Busy, NetInv, OpenOf
  <2>3. UNCHANGED <<rows, snap, exists, db, clobbered>>
    BY <1>5 DEF Connect, dbVars
  <2>4. Dispatch(OpenOf(s), up \cup {Step1Of(s)}, live \cup {s})
    BY <1>5 DEF Connect
  <2> QED
    BY <2>1, <2>2, <2>3, <2>4, DispatchDoc
<1>6. ASSUME NEW s \in Sock, Disconnect(s) PROVE NetInv' /\ DocInv'
  BY <1>6 DEF Disconnect, NetInv, DocInv, clientVars, relayVars, jobVars, dbVars, ghostVars
<1>7. ASSUME NEW s \in Sock, MoveCursor(s) PROVE NetInv' /\ DocInv'
  BY <1>7 DEF MoveCursor, NetInv, DocInv, clientVars, relayVars, jobVars, dbVars, ghostVars
<1>8. ASSUME NEW c \in Client, NEW u \in Update, Edit(c, u) PROVE NetInv' /\ DocInv'
  <2>1. \A s \in synced : have[Owner[s]] \subseteq have'[Owner[s]]
    BY <1>8, OwnerAssumption DEF Edit, NetInv, TypeOK
  <2> QED
    BY <1>8, <2>1 DEF Edit, NetInv, DocInv, relayVars, jobVars, dbVars, ghostVars
<1>9. CASE Crash
  BY <1>9 DEF Crash, Idle, NetInv, DocInv, clientVars, dbVars
<1>10. CASE DeleteNote
  BY <1>10 DEF DeleteNote, NetInv, DocInv, clientVars, netVars, relayVars, jobVars, ghostVars
<1>11. CASE SnapshotStep
  <2>1. CASE StartSnapshot
    BY <2>1 DEF StartSnapshot, Finish, Idle, NetInv, DocInv,
                clientVars, netVars, relayVars, dbVars, ghostVars
  <2>2. CASE CheckNote
    BY <2>2 DEF CheckNote, Finish, Idle, NetInv, DocInv, TypeOK, Snap,
                clientVars, netVars, relayVars, dbVars, ghostVars
  <2>3. CASE WriteState
    BY <2>3 DEF WriteState, NetInv, DocInv, TypeOK, Snap,
                clientVars, netVars, relayVars, ghostVars
  <2>4. CASE WriteHistory
    BY <2>4 DEF WriteHistory, Finish, Idle, NetInv, DocInv,
                clientVars, netVars, relayVars, dbVars, ghostVars
  <2>5. CASE FailSnapshot
    BY <2>5 DEF FailSnapshot, Finish, Idle, NetInv, DocInv,
                clientVars, netVars, relayVars, dbVars, ghostVars
  <2> QED
    BY <1>11, <2>1, <2>2, <2>3, <2>4, <2>5 DEF SnapshotStep
<1>14. ASSUME NEW r \in reading, FailLoad(r) PROVE NetInv' /\ DocInv'
  BY <1>14 DEF FailLoad, NetInv, DocInv, clientVars, netVars, jobVars, dbVars, ghostVars
<1>12. CASE ExpireJob
  BY <1>12 DEF ExpireJob, NetInv, DocInv, clientVars, netVars, relayVars, dbVars, ghostVars
<1>13. CASE UNCHANGED vars
  BY <1>13 DEF vars, NetInv, DocInv, clientVars, netVars, relayVars, jobVars, dbVars, ghostVars
<1> QED
  BY <1>1, <1>2, <1>3, <1>4, <1>5, <1>6, <1>7, <1>8, <1>9, <1>10, <1>11, <1>12, <1>13, <1>14
  DEF Next, RelayStep, EnvStep

LEMMA DocCorrect == Spec => [](NetInv /\ DocInv)
<1>1. Init => NetInv /\ DocInv
  BY DEF Init, Idle, NetInv, DocInv
<1>2. TypeOK /\ NetInv /\ DocInv /\ [Next]_vars => NetInv' /\ DocInv'
  BY DocStep
<1> QED
  BY <1>1, <1>2, TypeCorrect, PTL DEF Spec

\* A client whose step 1 was answered has the whole cached document.
THEOREM PeersAreInSync == Spec => []SyncedPeersHaveDoc
<1>1. NetInv /\ DocInv => SyncedPeersHaveDoc
  BY DEF NetInv, DocInv, SyncedPeersHaveDoc
<1> QED
  BY <1>1, DocCorrect, PTL

\* No accepted update leaves the cached document.
THEOREM AcceptedStays == Spec => []AcceptedInDoc
<1>1. DocInv => AcceptedInDoc
  BY DEF DocInv, AcceptedInDoc
<1> QED
  BY <1>1, DocCorrect, PTL

\* Snapshots never shrink what is stored.
THEOREM StoredStateGrows == Spec => DurableGrows
<1>1. NetInv /\ DocInv /\ TypeOK /\ [Next]_vars
         => [exists' /\ ~clobbered => db \subseteq db']_vars
  <2> SUFFICES ASSUME NetInv, DocInv, TypeOK, Next, exists', ~clobbered
               PROVE  db \subseteq db'
    OBVIOUS
  <2>1. CASE WriteState
    BY <2>1 DEF WriteState, DocInv
  <2>2. CASE ~WriteState
    BY <2>2 DEF Next, RelayStep, Receive, ReadRow, FinishLoad, CloseEvent, SnapshotStep,
                StartSnapshot, CheckNote, WriteHistory, FailSnapshot, ExpireJob, EnvStep,
                FailLoad, Connect, Disconnect, MoveCursor, Edit, Crash, DeleteNote, dbVars
  <2> QED
    BY <2>1, <2>2
<1> QED
  BY <1>1, DocCorrect, TypeCorrect, PTL DEF Spec, DurableGrows

-----------------------------------------------------------------------------
(* Rest: what a client and the document do not share yet is under way in a *)
(* push, or a sync-step-1 is whose answer will ask for it.                 *)

Waiting == up \cup reading \cup {r.req : r \in rows}
Asked(s) == \E m \in Waiting : m.by = s /\ m.kind = "step1"
Arriving(s, u) == \E m \in Waiting : m.by = s /\ m.kind = "push" /\ u \in m.body

RestInv ==
    \A s \in live :
        /\ s \in synced \/ Asked(s)
        /\ ~clobbered /\ Owner[s] \notin Readers =>
              Asked(s) \/ \A u \in have[Owner[s]] : u \in doc \/ Arriving(s, u)

\* What a handler leaves of the messages, and what it does for its sender.
HandlerRest(req, pending, conns) ==
    /\ live' \subseteq conns
    /\ \A m \in pending : m.by \in live' => m \in up'
    /\ \A s \in live' : s \in synced \/ (s = req.by /\ req.kind = "step1") => s \in synced'
    /\ \A c \in Client : have'[c] \subseteq have[c] \cup doc'
    /\ req.kind = "push" /\ Owner[req.by] \notin Readers => req.body \subseteq doc'
    /\ req.kind = "step1" /\ req.by \in live' =>
          \A u \in have'[Owner[req.by]] :
              \/ u \in doc'
              \/ \E m \in up' : m.by = req.by /\ m.kind = "push" /\ u \in m.body

LEMMA HandleRest ==
    ASSUME TypeOK, NEW req \in Request, NEW d \in SUBSET Update,
           NEW pending \in SUBSET Request, NEW conns \in SUBSET Sock,
           Handle(req, d, pending, conns)
    PROVE  HandlerRest(req, pending, conns)
<1>0. req.by \in Sock /\ Owner[req.by] \in Client /\ have \in [Client -> SUBSET Update]
  BY OwnerAssumption DEF Request, TypeOK
<1>1. CASE HandleOpen(req, d, pending, conns)
  BY <1>0, <1>1 DEF HandleOpen, HandlerRest
<1>2. CASE HandleStep1(req, d, pending, conns)
  <2>1. /\ req.kind = "step1" /\ doc' = d /\ live' = conns
        /\ up' = pending \cup Ask(req.by, d, conns)
        /\ IF req.by \in conns
           THEN /\ have' = [have EXCEPT ![Owner[req.by]] = @ \cup d]
                /\ synced' = synced \cup {req.by}
           ELSE UNCHANGED <<have, synced>>
    BY <1>2 DEF HandleStep1
  <2>2. ASSUME req.by \in live', NEW u \in have'[Owner[req.by]], u \notin doc'
        PROVE  \E m \in up' : m.by = req.by /\ m.kind = "push" /\ u \in m.body
    <3>1. u \in have[Owner[req.by]] \ d
      BY <1>0, <2>1, <2>2
    <3>2. PushOf(req.by, have[Owner[req.by]] \ d) \in up'
      BY <2>1, <2>2 DEF Ask
    <3> QED
      BY <3>1, <3>2 DEF PushOf
  <2>3. \A c \in Client : have'[c] \subseteq have[c] \cup doc'
    BY <1>0, <2>1
  <2> QED
    BY <2>1, <2>2, <2>3 DEF HandlerRest
<1>3. CASE HandleReaderPush(req, d, pending, conns)
  BY <1>3 DEF HandleReaderPush, HandlerRest
<1>4. CASE HandleWriterPush(req, d, pending, conns)
  <2>1. PICK failing \in SUBSET (room \cap conns) :
          /\ Broadcast(req.body, (room \cap conns) \ failing)
          /\ live' = conns \ failing
          /\ up' = {m \in pending : m.by \notin failing}
          /\ synced' = synced \ failing
    BY <1>4 DEF HandleWriterPush
  <2>2. req.kind = "push" /\ doc' = d \cup req.body
    BY <1>4 DEF HandleWriterPush
  <2>3. \A c \in Client : have'[c] \subseteq have[c] \cup doc'
    BY <2>1, <2>2 DEF Broadcast
  <2> QED
    BY <2>1, <2>2, <2>3 DEF HandlerRest
<1>5. CASE HandleAwareness(req, d, pending, conns)
  BY <1>5 DEF HandleAwareness, HandlerRest
<1> QED
  BY <1>1, <1>2, <1>3, <1>4, <1>5 DEF Handle

\* A handler only adds to the document it was given.
LEMMA HandleGrows ==
    ASSUME NEW req, NEW d, NEW pending, NEW conns, Handle(req, d, pending, conns)
    PROVE  d \subseteq doc'
  BY DEF Handle, HandleOpen, HandleStep1, HandleReaderPush, HandleWriterPush, HandleAwareness

\* A request has been handled: what is under way now is what was, without it,
\* and what its handler sent.
LEMMA RestAfterHandle ==
    ASSUME TypeOK, RestInv, NEW req \in Request, NEW pending, NEW conns,
           HandlerRest(req, pending, conns),
           live' \subseteq Sock,
           \A n \in Waiting : n = req \/ n \in pending \/ n \in reading' \cup {r.req : r \in rows'},
           \A s \in live' : s \in live \/ Step1Of(s) \in pending,
           clobbered' \/ (~clobbered /\ doc \subseteq doc')
    PROVE  RestInv'
<1> SUFFICES ASSUME NEW s \in live'
             PROVE  /\ s \in synced' \/ Asked(s)'
                    /\ ~clobbered' /\ Owner[s] \notin Readers =>
                         Asked(s)' \/ \A u \in have'[Owner[s]] : u \in doc' \/ Arriving(s, u)'
  BY DEF RestInv
<1>0. s \in Sock /\ Owner[s] \in Client
  BY OwnerAssumption
<1>1. \A n \in Waiting : n.by = s => n = req \/ n \in Waiting'
  BY DEF HandlerRest, Waiting
<1>2. CASE s \notin live
  <2>1. Step1Of(s) \in up'
    BY <1>2 DEF HandlerRest, Step1Of
  <2> QED
    BY <2>1 DEF Asked, Waiting, Step1Of
<1>3. CASE s \in live
  <2>1. s \in synced' \/ Asked(s)'
    BY <1>1, <1>3 DEF RestInv, Asked, HandlerRest
  <2>2. ASSUME ~clobbered', Owner[s] \notin Readers, ~Asked(s)', NEW u \in have'[Owner[s]], u \notin doc'
        PROVE  Arriving(s, u)'
    <3>1. CASE Asked(s)
      <4>1. req.by = s /\ req.kind = "step1"
        BY <1>1, <2>2, <3>1 DEF Asked
      <4> QED
        BY <2>2, <4>1 DEF HandlerRest, Arriving, Waiting
    <3>2. CASE ~Asked(s)
      <4>1. u \in have[Owner[s]] /\ u \notin doc
        BY <1>0, <2>2 DEF HandlerRest
      <4>2. Arriving(s, u)
        BY <1>3, <2>2, <3>2, <4>1 DEF RestInv
      <4>3. PICK n \in Waiting : n.by = s /\ n.kind = "push" /\ u \in n.body
        BY <4>2 DEF Arriving
      <4>4. n # req
        BY <2>2, <4>3 DEF HandlerRest
      <4> QED
        BY <1>1, <4>3, <4>4 DEF Arriving
    <3> QED
      BY <3>1, <3>2
  <2> QED
    BY <2>1, <2>2
<1> QED
  BY <1>2, <1>3

\* Clients, connections and document are as they were, and no request is lost.
LEMMA RestKept ==
    ASSUME RestInv, UNCHANGED <<have, synced, doc, clobbered>>, live' \subseteq live,
           \A n \in Waiting : n.by \in live' => n \in Waiting'
    PROVE  RestInv'
  BY DEF RestInv, Asked, Arriving

LEMMA DispatchRest ==
    ASSUME TypeOK, RestInv, NEW req \in Request,
           NEW pending \in SUBSET Request, NEW conns \in SUBSET Sock,
           Dispatch(req, pending, conns),
           \A n \in up : n = req \/ n \in pending,
           \A s \in conns : s \in live \/ Step1Of(s) \in pending,
           UNCHANGED <<rows, clobbered>>
    PROVE  RestInv'
<1>1. CASE loaded /\ Handle(req, doc, pending, conns) /\ UNCHANGED reading
  <2>1. doc \in SUBSET Update
    BY DEF TypeOK
  <2>2. HandlerRest(req, pending, conns)
    BY <1>1, <2>1, HandleRest
  <2>3. \A n \in Waiting : n = req \/ n \in pending \/ n \in reading' \cup {r.req : r \in rows'}
    BY <1>1 DEF Waiting
  <2>4. clobbered' \/ (~clobbered /\ doc \subseteq doc')
    BY <1>1, HandleGrows DEF TypeOK
  <2> QED
    BY <2>2, <2>3, <2>4, RestAfterHandle DEF HandlerRest
<1>2. CASE ~loaded /\ ~(loaded /\ Handle(req, doc, pending, conns))
  <2>1. /\ reading' = reading \cup {req} /\ up' = pending /\ live' = conns
        /\ UNCHANGED <<doc, have, synced>>
    BY <1>2 DEF Dispatch
  <2>2. Waiting \subseteq Waiting'
    BY <2>1 DEF Waiting
  <2>3. ASSUME NEW s \in live' \ live PROVE Asked(s)'
    <3>1. Step1Of(s) \in Waiting'
      BY <2>1 DEF Waiting
    <3> QED
      BY <3>1 DEF Asked, Step1Of
  <2> QED
    BY <2>1, <2>2, <2>3 DEF RestInv, Asked, Arriving
<1> QED
  BY <1>1, <1>2 DEF Dispatch

LEMMA RestStep ==
    ASSUME TypeOK, RestInv, "database" \notin Events, [Next]_vars
    PROVE  RestInv'
<1>1. ASSUME NEW m \in up, Receive(m) PROVE RestInv'
  <2>1. m \in Request /\ up \ {m} \in SUBSET Request /\ live \in SUBSET Sock
    BY DEF TypeOK
  <2>2. Dispatch(m, up \ {m}, live) /\ UNCHANGED <<rows, clobbered>>
    BY <1>1 DEF Receive
  <2>3. \A n \in up : n = m \/ n \in up \ {m}
    OBVIOUS
  <2> QED
    BY <2>1, <2>2, <2>3, DispatchRest
<1>2. ASSUME NEW r \in reading, ReadRow(r) PROVE RestInv'
  <2>1. /\ reading' = reading \ {r} /\ rows' = rows \cup {[req |-> r, row |-> db]}
        /\ UNCHANGED <<up, have, live, synced, doc, clobbered>>
    BY <1>2 DEF ReadRow, clientVars, netVars, ghostVars
  <2>2. r \in {q.req : q \in rows'} /\ rows \subseteq rows'
    <3>1. [req |-> r, row |-> db].req = r /\ [req |-> r, row |-> db] \in rows'
      BY <2>1
    <3> QED
      BY <2>1, <3>1
  <2>3. \A n \in Waiting : n \in Waiting'
    BY <2>1, <2>2 DEF Waiting
  <2> QED
    BY <2>1, <2>3, RestKept
<1>3. ASSUME NEW r \in rows, FinishLoad(r) PROVE RestInv'
  <2>1. /\ r.req \in Request /\ r.row \in SUBSET Update
        /\ up \in SUBSET Request /\ live \in SUBSET Sock
    BY DEF TypeOK
  <2>2. /\ Handle(r.req, r.row, up, live) /\ rows' = rows \ {r} /\ UNCHANGED reading
        /\ clobbered' = (clobbered \/ ~(doc \subseteq doc'))
    BY <1>3 DEF FinishLoad
  <2>3. HandlerRest(r.req, up, live)
    BY <2>1, <2>2, HandleRest
  <2>4. \A n \in Waiting : n = r.req \/ n \in up \/ n \in reading' \cup {q.req : q \in rows'}
    BY <2>2 DEF Waiting
  <2>5. clobbered' \/ (~clobbered /\ doc \subseteq doc')
    BY <2>2
  <2>6. live' \subseteq Sock /\ \A s \in live' : s \in live
    BY <2>1, <2>3 DEF HandlerRest
  <2> QED
    BY <2>1, <2>3, <2>4, <2>5, <2>6, RestAfterHandle
<1>4. ASSUME NEW s \in closing, CloseEvent(s) PROVE RestInv'
  BY <1>4, RestKept DEF CloseEvent, Waiting, clientVars, ghostVars
<1>5. ASSUME NEW s \in Sock, Connect(s) PROVE RestInv'
  <2>1. /\ OpenOf(s) \in Request
        /\ up \cup {Step1Of(s)} \in SUBSET Request
        /\ live \cup {s} \in SUBSET Sock
    BY RequestTypes DEF TypeOK
  <2>2. /\ Dispatch(OpenOf(s), up \cup {Step1Of(s)}, live \cup {s})
        /\ UNCHANGED <<rows, clobbered>>
    BY <1>5 DEF Connect
  <2> QED
    BY <2>1, <2>2, DispatchRest
<1>6. ASSUME NEW s \in Sock, Disconnect(s) PROVE RestInv'
  <2>1. /\ live' = live \ {s} /\ up' = {m \in up : m.by # s} /\ synced' = synced \ {s}
        /\ UNCHANGED <<have, doc, clobbered, reading, rows>>
    BY <1>6 DEF Disconnect, clientVars, relayVars, ghostVars
  <2>2. \A n \in Waiting : n.by \in live' => n \in Waiting'
    BY <2>1 DEF Waiting
  <2> QED
    BY <2>1, <2>2 DEF RestInv, Asked, Arriving
<1>7. ASSUME NEW s \in Sock, MoveCursor(s) PROVE RestInv'
  <2>1. up \subseteq up' /\ UNCHANGED <<have, live, synced, doc, clobbered, reading, rows>>
    BY <1>7 DEF MoveCursor, clientVars, relayVars, ghostVars
  <2>2. \A n \in Waiting : n \in Waiting'
    BY <2>1 DEF Waiting
  <2> QED
    BY <2>1, <2>2, RestKept
<1>8. ASSUME NEW c \in Client, NEW u \in Update, Edit(c, u) PROVE RestInv'
  <2>1. /\ have' = [have EXCEPT ![c] = @ \cup {u}]
        /\ up' = up \cup {PushOf(s, {u}) : s \in {t \in live : Owner[t] = c}}
        /\ UNCHANGED <<live, synced, doc, clobbered, reading, rows>>
    BY <1>8 DEF Edit, relayVars, ghostVars
  <2>2. Waiting \subseteq Waiting'
    BY <2>1 DEF Waiting
  <2> SUFFICES ASSUME NEW s \in live
               PROVE  /\ s \in synced \/ Asked(s)'
                      /\ ~clobbered /\ Owner[s] \notin Readers =>
                           Asked(s)' \/ \A v \in have'[Owner[s]] : v \in doc \/ Arriving(s, v)'
    BY <2>1 DEF RestInv
  <2>3. Owner[s] \in Client
    BY OwnerAssumption DEF TypeOK
  <2>4. Asked(s) => Asked(s)'
    BY <2>2 DEF Asked
  <2>5. \A v \in Update : Arriving(s, v) => Arriving(s, v)'
    BY <2>2 DEF Arriving
  <2>6. ASSUME Owner[s] = c PROVE Arriving(s, u)'
    <3>1. PushOf(s, {u}) \in Waiting'
      BY <2>1, <2>6 DEF Waiting
    <3> QED
      BY <3>1 DEF Arriving, PushOf
  <2>7. \A v \in have'[Owner[s]] : v \in have[Owner[s]] \/ (v = u /\ Owner[s] = c)
    BY <2>1, <2>3 DEF TypeOK
  <2>8. ASSUME ~clobbered, Owner[s] \notin Readers, ~Asked(s)', NEW v \in have'[Owner[s]], v \notin doc
        PROVE  Arriving(s, v)'
    <3>1. CASE v \in have[Owner[s]]
      <4>1. v \in Update
        BY <2>3, <3>1 DEF TypeOK
      <4> QED
        BY <2>4, <2>5, <2>8, <3>1, <4>1 DEF RestInv
    <3>2. CASE v = u /\ Owner[s] = c
      BY <2>6, <3>2
    <3> QED
      BY <2>7, <2>8, <3>1, <3>2
  <2> QED
    BY <2>4, <2>8 DEF RestInv
<1>9. CASE Crash
  BY <1>9 DEF Crash, RestInv
<1>10. CASE DeleteNote
  BY <1>10, RestKept DEF DeleteNote, Waiting, clientVars, netVars, relayVars, ghostVars
<1>11. CASE SnapshotStep
  <2>1. UNCHANGED <<have, live, synced, up, doc, reading, rows, clobbered>>
    BY <1>11 DEF SnapshotStep, StartSnapshot, CheckNote, WriteState, WriteHistory,
                 FailSnapshot, clientVars, netVars, relayVars, ghostVars
  <2> QED
    BY <2>1, RestKept DEF Waiting
<1>12. CASE ExpireJob
  BY <1>12, RestKept DEF ExpireJob, Waiting, clientVars, netVars, relayVars, ghostVars
<1>13. CASE UNCHANGED vars
  BY <1>13, RestKept DEF vars, Waiting, clientVars, netVars, relayVars, ghostVars
<1>14. ASSUME NEW r \in reading, FailLoad(r) PROVE RestInv'
  BY <1>14 DEF FailLoad
<1> QED
  BY <1>1, <1>2, <1>3, <1>4, <1>5, <1>6, <1>7, <1>8, <1>9, <1>10, <1>11, <1>12, <1>13, <1>14
  DEF Next, RelayStep, EnvStep

\* When nothing is under way and no load threw, the connected clients have the
\* document, and a writer has nothing that is not in it.
THEOREM PeersRestInAgreement == Spec => []RestingPeersAgree
<1>1. CASE "database" \notin Events
  <2>1. Init => RestInv
    BY DEF Init, RestInv
  <2>2. TypeOK /\ RestInv /\ [Next]_vars => RestInv'
    BY <1>1, RestStep
  <2>3. RestInv /\ NetInv /\ DocInv => RestingPeersAgree
    <3> SUFFICES ASSUME RestInv, NetInv, DocInv, up \cup reading = {}, rows = {}, exists, ~clobbered,
                        NEW s \in live
                 PROVE  /\ doc \subseteq have[Owner[s]]
                        /\ Owner[s] \notin Readers => have[Owner[s]] \subseteq doc
      BY DEF RestingPeersAgree
    <3>1. Waiting = {}
      BY DEF Waiting
    <3>2. s \in synced
      BY <3>1 DEF RestInv, Asked
    <3> QED
      BY <3>1, <3>2 DEF RestInv, DocInv, Asked, Arriving
  <2> QED
    BY <2>1, <2>2, <2>3, TypeCorrect, DocCorrect, PTL DEF Spec
<1>2. CASE "database" \in Events
  <2>1. RestingPeersAgree
    BY <1>2 DEF RestingPeersAgree
  <2> QED
    BY <2>1, PTL
<1> QED
  BY <1>1, <1>2
==============================================================================
