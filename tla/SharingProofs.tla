--------------------------- MODULE SharingProofs ---------------------------
(***************************************************************************)
(* What is promised of a public link that is gone, and what a share dialog *)
(* shows, for any number of clicks, dialogs, managers, refusals and lost   *)
(* answers.                                                                *)
(*                                                                         *)
(* The argument of KilledTokensStayDead: tokens are minted in order and a  *)
(* row is only ever given a token newly minted, the token it has by then,  *)
(* or none; so a token that left the row, which was minted, never returns. *)
(* The argument of AssetsGoDark: a row that has not expired when the clock *)
(* is read had not expired when it was read, and its note was not archived *)
(* then, so its link resolved at that moment, which is one at which the    *)
(* request was under way; what happens after it changes nothing.           *)
(* The argument of RestingDialogIsAccurate: a request that changes the     *)
(* link and is still waited for is the newest one, because the buttons are *)
(* disabled while it runs; so the answer of the newest request, once it is *)
(* served, has the link the note has until somebody else changes it.  The  *)
(* same holds of the newest fetch of the list, up to changes that went     *)
(* well and whose answer, which starts another fetch, is under way.        *)
(***************************************************************************)
EXTENDS Sharing, TLAPS

\* The link row and the dead tokens.
Minted ==
  /\ {"link", "archived", "shares", "minted"} \subseteq DOMAIN db
  /\ {"token", "until"} \subseteq DOMAIN db.link
  /\ db.minted \in Nat /\ db.link.token \in 0..db.minted
  /\ {"dead", "lastLive", "n", "foreignLink", "foreignShares"} \subseteq DOMAIN hist
  /\ hist.dead \subseteq (1..db.minted) \ {db.link.token}

\* The last moment each token resolved.
Watched ==
  /\ now \in Nat
  /\ hist.lastLive \in [Tokens -> Nat]
  /\ \A t \in Tokens : hist.lastLive[t] <= now
  /\ \A t \in Tokens : Resolves(t) => hist.lastLive[t] = now

Inv == Minted /\ Watched

\* A step keeps that, and the last moments only move on.
Onward == Inv' /\ now' \in {now, now + 1} /\ \A t \in Tokens : hist.lastLive[t] <= hist'.lastLive[t]

-----------------------------------------------------------------------------
(* The two kinds of step: the rows change and it is noted, or they do not. *)

\* The row keeps its token, gets a new one or none.
RowStep(link) ==
  /\ {"token", "until"} \subseteq DOMAIN link
  /\ \/ db'.minted = db.minted /\ link.token \in {0, db.link.token}
     \/ db'.minted = db.minted + 1 /\ link.token = db'.minted

LEMMA Changed ==
    ASSUME Inv, DOMAIN db' = DOMAIN db, RowStep(db'.link), DOMAIN hist' = DOMAIN hist,
           hist'.dead = IF db.link.token \in {0, db'.link.token} THEN hist.dead
                        ELSE hist.dead \cup {db.link.token},
           hist'.lastLive = Seen(db'.link, db'.archived),
           now' = now
    PROVE  Onward
<1>1. Minted'
    <2>1. CASE db'.minted = db.minted /\ db'.link.token \in {0, db.link.token}
        BY <2>1 DEF Inv, Minted, RowStep
    <2>2. CASE db'.minted = db.minted + 1 /\ db'.link.token = db'.minted
        BY <2>2 DEF Inv, Minted, RowStep
    <2> QED BY <2>1, <2>2 DEF RowStep
<1>2. Watched'
    <2>1. hist'.lastLive \in [Tokens -> Nat]
        BY DEF Inv, Watched, Seen
    <2>2. \A t \in Tokens : hist'.lastLive[t] = now \/ hist'.lastLive[t] = hist.lastLive[t]
        BY DEF Seen
    <2>3. \A t \in Tokens : Resolves(t)' => hist'.lastLive[t] = now'
        BY DEF Seen, Resolves, Live
    <2>4. \A t \in Tokens : hist'.lastLive[t] <= now
        BY <2>1, <2>2 DEF Inv, Watched
    <2> QED BY <2>1, <2>3, <2>4 DEF Inv, Watched
<1>3. \A t \in Tokens : hist.lastLive[t] <= hist'.lastLive[t]
    BY DEF Inv, Watched, Seen
<1> QED BY <1>1, <1>2, <1>3 DEF Inv, Onward

LEMMA Unchanged ==
    ASSUME Inv, db' = db, DOMAIN hist' = DOMAIN hist, hist'.dead = hist.dead,
           hist'.lastLive = hist.lastLive, now' = now
    PROVE  Onward
BY DEF Inv, Minted, Watched, Resolves, Live, Onward

-----------------------------------------------------------------------------
(* The routes. *)

LEMMA ServedStep ==
    ASSUME Inv, NEW c, NEW rows, NEW link, NEW list, Served(c, rows, link, list),
           DOMAIN rows = DOMAIN db, RowStep(rows.link), now' = now
    PROVE  Onward
<1>1. db' = rows
    BY DEF Served
<1>2. /\ DOMAIN hist' = DOMAIN hist
      /\ hist'.dead = IF db.link.token \in {0, rows.link.token} THEN hist.dead
                      ELSE hist.dead \cup {db.link.token}
      /\ hist'.lastLive = Seen(rows.link, rows.archived)
    BY DEF Served, Inv, Minted
<1> QED BY <1>1, <1>2, Changed

LEMMA GoneStep == ASSUME Inv, NEW c, Gone(c), now' = now PROVE Onward
BY Unchanged DEF Gone

LEMMA ServeStep == ASSUME Inv, NEW c, Serve(c), now' = now PROVE Onward
<1> USE DEF Inv, Minted
<1>1. CASE ServeLoad(c) \/ ServeList(c)
    <2>1. db' = db
        BY <1>1 DEF ServeLoad, ServeList, Served
    <2>2. RowStep(db.link)
        BY <2>1 DEF RowStep
    <2> QED BY <1>1, <2>2, ServedStep DEF ServeLoad, ServeList
<1>2. CASE ServeGenerate(c)
    <2> DEFINE l == [token |-> db.minted + 1, until |-> ttlToExpiresAt(c.ttl)]
               rows == [db EXCEPT !.link = l, !.minted = @ + 1]
    <2>1. Served(c, rows, l, {})
        BY <1>2 DEF ServeGenerate
    <2>2. DOMAIN rows = DOMAIN db /\ rows.link = l /\ rows.minted = db.minted + 1 /\ db' = rows
        BY <2>1 DEF Served
    <2>3. RowStep(rows.link)
        BY <2>2 DEF RowStep
    <2> HIDE DEF rows, l
    <2> QED BY <2>1, <2>2, <2>3, ServedStep
<1>3. CASE Find(c)
    <2>1. db' = db /\ DOMAIN hist' = DOMAIN hist /\ hist'.dead = hist.dead /\ hist'.lastLive = hist.lastLive
        BY <1>3 DEF Find
    <2> QED BY <2>1, Unchanged
<1>4. CASE WriteExpiry(c)
    <2> DEFINE l == [db.link EXCEPT !.until = ttlToExpiresAt(c.ttl)]
               rows == [db EXCEPT !.link = l]
    <2>1. CASE Gone(c)
        BY <2>1, GoneStep
    <2>2. CASE Served(c, rows, l, {})
        <3>1. DOMAIN rows = DOMAIN db /\ rows.link = l /\ rows.minted = db.minted /\ db' = rows
            BY <2>2 DEF Served
        <3>2. DOMAIN l = DOMAIN db.link /\ l.token = db.link.token
            OBVIOUS
        <3>3. RowStep(rows.link)
            BY <3>1, <3>2 DEF RowStep
        <3> HIDE DEF rows, l
        <3> QED BY <2>2, <3>1, <3>3, ServedStep
    <2> QED BY <1>4, <2>1, <2>2 DEF WriteExpiry
<1>5. CASE WriteRevoke(c)
    <2> DEFINE rows == [db EXCEPT !.link = NoLink]
    <2>1. CASE Gone(c)
        BY <2>1, GoneStep
    <2>2. CASE Served(c, rows, NoLink, {})
        <3>1. DOMAIN rows = DOMAIN db /\ rows.link = NoLink /\ rows.minted = db.minted /\ db' = rows
            BY <2>2 DEF Served
        <3>2. RowStep(rows.link)
            BY <3>1 DEF RowStep, NoLink
        <3> HIDE DEF rows
        <3> QED BY <2>2, <3>1, <3>2, ServedStep
    <2> QED BY <1>5, <2>1, <2>2 DEF WriteRevoke
<1>6. ASSUME NEW S, Served(c, [db EXCEPT !.shares = S], NoLink, {}) PROVE Onward
    <2> DEFINE rows == [db EXCEPT !.shares = S]
    <2>1. DOMAIN rows = DOMAIN db /\ rows.link = db.link /\ rows.minted = db.minted /\ db' = rows
        BY <1>6 DEF Served
    <2>2. RowStep(rows.link)
        BY <2>1 DEF RowStep
    <2> HIDE DEF rows
    <2> QED BY <1>6, <2>1, <2>2, ServedStep DEF rows
<1>7. CASE ServeGrant(c)
    BY <1>6, <1>7 DEF ServeGrant
<1>8. CASE FindShare(c)
    BY <1>8, GoneStep, Unchanged DEF FindShare
<1>9. CASE DeleteShare(c)
    BY <1>6, <1>9, GoneStep DEF DeleteShare
<1> QED BY <1>1, <1>2, <1>3, <1>4, <1>5, <1>7, <1>8, <1>9 DEF Serve

-----------------------------------------------------------------------------
(* The dialog and the rest of the world. *)

LEMMA DialogStep ==
    ASSUME Inv, \/ Open \/ Close \/ Revoke
                \/ \E ttl \in Ttls : Generate(ttl) \/ UpdateExpiry(ttl)
                \/ \E u \in Users : HandleAdd(u)
                \/ \E s \in ui.list : RevokeShare(s)
    PROVE  Onward
<1>1. db' = db /\ now' = now
    BY DEF Open, Close, Revoke, Generate, UpdateExpiry, HandleAdd, RevokeShare, Send
<1>2. hist' = hist \/ \E n : hist' = [hist EXCEPT !.n = n]
    BY DEF Open, Close, Revoke, Generate, UpdateExpiry, HandleAdd, RevokeShare, Send
<1>3. DOMAIN hist' = DOMAIN hist /\ hist'.dead = hist.dead /\ hist'.lastLive = hist.lastLive
    BY <1>2 DEF Inv, Minted
<1> QED BY <1>1, <1>3, Unchanged

LEMMA ApplyStep ==
    ASSUME Inv, NEW c, NEW ok, NEW rest, Apply(c, ok, rest), UNCHANGED <<db, now, readers>>
    PROVE  Onward
<1>1. \/ hist' = hist
      \/ \E n : hist' = [hist EXCEPT !.n = n]
      \/ \E b : hist' = [hist EXCEPT !.foreignShares = b]
    BY DEF Apply, LinkAnswer, ListAnswer, ShareAnswer
<1>2. DOMAIN hist' = DOMAIN hist /\ hist'.dead = hist.dead /\ hist'.lastLive = hist.lastLive
    BY <1>1 DEF Inv, Minted
<1> QED BY <1>2, Unchanged

LEMMA ElsewhereStep == ASSUME Inv, Elsewhere PROVE Onward
<1>1. DOMAIN db' = DOMAIN db /\ RowStep(db'.link)
    <2>1. ASSUME NEW ttl, db' = [db EXCEPT !.link = [token |-> db.minted + 1, until |-> ttlToExpiresAt(ttl)],
                                           !.minted = @ + 1]
          PROVE  DOMAIN db' = DOMAIN db /\ RowStep(db'.link)
        BY <2>1 DEF RowStep, Inv, Minted
    <2>2. CASE db' = [db EXCEPT !.link = NoLink]
        BY <2>2 DEF RowStep, NoLink, Inv, Minted
    <2>3. ASSUME NEW ttl, db' = [db EXCEPT !.link = [@ EXCEPT !.until = ttlToExpiresAt(ttl)]]
          PROVE  DOMAIN db' = DOMAIN db /\ RowStep(db'.link)
        BY <2>3 DEF RowStep, Inv, Minted
    <2>4. CASE db' = [db EXCEPT !.archived = ~@]
        BY <2>4 DEF RowStep, Inv, Minted
    <2> QED BY <2>1, <2>2, <2>3, <2>4 DEF Elsewhere
<1>2. /\ DOMAIN hist' = DOMAIN hist
      /\ hist'.dead = IF db.link.token \in {0, db'.link.token} THEN hist.dead
                      ELSE hist.dead \cup {db.link.token}
      /\ hist'.lastLive = Seen(db'.link, db'.archived)
    BY DEF Elsewhere, Inv, Minted
<1>3. now' = now
    BY DEF Elsewhere
<1> QED BY <1>1, <1>2, <1>3, Changed

\* A step of a reader changes nothing of that.
Reading ==
  \/ \E t \in Tokens : AskAsset(t)
  \/ \E r \in readers : (FindLink(r) \/ Judge(r) \/ Answered(r)) /\ UNCHANGED <<db, ui, calls, now, hist, left>>

LEMMA ReadingStep == ASSUME Inv, Reading PROVE Onward
<1>1. UNCHANGED <<db, hist, now>>
    BY DEF Reading, AskAsset
<1> QED BY <1>1, Unchanged

LEMMA TickStep == ASSUME Inv, Tick PROVE Onward
<1> DEFINE seen == [t \in Tokens |-> IF db.link.token = t /\ ~db.archived
                                        /\ (db.link.until = Never \/ db.link.until > now + 1)
                                       THEN now + 1 ELSE hist.lastLive[t]]
<1>1. /\ db' = db /\ now' = now + 1
      /\ DOMAIN hist' = DOMAIN hist /\ hist'.dead = hist.dead /\ hist'.lastLive = seen
    BY DEF Tick, Inv, Minted
<1>2. Minted'
    BY <1>1 DEF Inv, Minted
<1>3. now \in Nat /\ seen \in [Tokens -> Nat]
    BY DEF Inv, Watched
<1>4. \A t \in Tokens : hist.lastLive[t] <= seen[t] /\ seen[t] <= now + 1
    BY DEF Inv, Watched
<1>5. \A t \in Tokens : Resolves(t)' => seen[t] = now + 1
    BY <1>1 DEF Resolves, Live
<1> HIDE DEF seen
<1>6. Watched'
    BY <1>1, <1>3, <1>4, <1>5 DEF Inv, Watched
<1> QED BY <1>1, <1>2, <1>4, <1>6 DEF Inv, Onward

-----------------------------------------------------------------------------
(* The specification. *)

LEMMA InitInv == Init => Inv
<1> SUFFICES ASSUME Init PROVE Inv
    OBVIOUS
<1>1. \A t \in Tokens : t # 0
    BY SharingAssumption DEF Tokens
<1>2. Minted
    BY DEF Init, Minted, NoLink
<1>3. Watched
    BY <1>1 DEF Init, Watched, Resolves, NoLink
<1> QED BY <1>2, <1>3 DEF Inv

LEMMA NextOnward == Inv /\ [Next]_vars => Onward
<1> SUFFICES ASSUME Inv, [Next]_vars PROVE Onward
    OBVIOUS
<1>1. ASSUME NEW c \in calls, Serve(c) /\ UNCHANGED <<ui, now, readers, left>> PROVE Onward
    BY <1>1, ServeStep
<1>2. ASSUME NEW c \in calls, Refuse(c) /\ UNCHANGED <<ui, now, readers>> PROVE Onward
    BY <1>2, GoneStep DEF Refuse
<1>3. ASSUME NEW c \in calls, Answer(c) PROVE Onward
    BY <1>3, ApplyStep DEF Answer
<1>4. ASSUME NEW c \in calls, Lose(c) PROVE Onward
    BY <1>4, ApplyStep DEF Lose
<1>5. CASE UNCHANGED vars
    BY <1>5, Unchanged DEF vars
<1> QED BY <1>1, <1>2, <1>3, <1>4, <1>5, DialogStep, ElsewhereStep, ReadingStep, TickStep DEF Next, Reading

LEMMA NextInv == Inv /\ [Next]_vars => Inv'
BY NextOnward DEF Onward

\* A URL that was revoked or replaced never works again
\* (public-link/route.ts:77 "any previously distributed URL stops working").
THEOREM DeadTokensStayDead == Spec => []KilledTokensStayDead
<1>1. Inv => KilledTokensStayDead
    BY DEF Inv, Minted, KilledTokensStayDead
<1> QED BY <1>1, InitInv, NextInv, PTL DEF Spec

-----------------------------------------------------------------------------
(* The readers of the public link. *)

\* Times of expiry are numbers, those asked for and that of the row.
Timed ==
  /\ \A c \in calls : {"ttl", "op", "stage", "live"} \subseteq DOMAIN c /\ c.ttl \in Nat
  /\ db.link.until \in Int

\* A request that goes on to an answer was under way at a moment its token resolved.
Read(r) ==
  /\ {"token", "since", "stage", "row", "at"} \subseteq DOMAIN r
  /\ r.token \in Tokens /\ r.since \in Nat /\ r.at \in Nat /\ r.since <= now
  /\ r.stage = "found" => r.row.until \in Int /\ (Live(r.row) => r.since <= hist.lastLive[r.token])
  /\ r.stage \in {"granted", "kept"} => r.since <= hist.lastLive[r.token]

Readers == \A r \in readers : Read(r)

LEMMA CallTimed == ASSUME NEW n, NEW op, NEW ttl \in Nat, NEW to, NEW id
                   PROVE  {"ttl", "op", "stage", "live"} \subseteq DOMAIN Call(n, op, ttl, to, id)
                            /\ Call(n, op, ttl, to, id).ttl = ttl
BY DEF Call

LEMMA ReplaceTimed ==
    ASSUME Timed, NEW c \in calls, NEW d, Replace(c, d), DOMAIN d = DOMAIN c, d.ttl = c.ttl
    PROVE  \A e \in calls' : {"ttl", "op", "stage", "live"} \subseteq DOMAIN e /\ e.ttl \in Nat
BY DEF Timed, Replace

LEMMA ServedTimed ==
    ASSUME Timed, NEW c \in calls, NEW rows, NEW link, NEW list, Served(c, rows, link, list),
           rows.link.until \in Int
    PROVE  Timed'
<1> DEFINE d == [c EXCEPT !.stage = "done", !.link = link, !.list = list]
<1>1. DOMAIN d = DOMAIN c /\ d.ttl = c.ttl
    BY DEF Timed
<1> HIDE DEF d
<1>2. Replace(c, d) /\ db' = rows
    BY DEF Served, d
<1> QED BY <1>1, <1>2, ReplaceTimed DEF Timed

LEMMA GoneTimed == ASSUME Timed, NEW c \in calls, Gone(c) PROVE Timed'
<1> DEFINE d == [c EXCEPT !.stage = "done", !.ok = FALSE]
<1>1. DOMAIN d = DOMAIN c /\ d.ttl = c.ttl
    BY DEF Timed
<1> HIDE DEF d
<1>2. Replace(c, d) /\ db' = db
    BY DEF Gone, d
<1> QED BY <1>1, <1>2, ReplaceTimed DEF Timed

LEMMA ServeTimed == ASSUME Inv, Timed, NEW c \in calls, Serve(c), now' = now PROVE Timed'
<1>1. /\ {"ttl", "op", "stage", "live"} \subseteq DOMAIN c /\ c.ttl \in Nat
      /\ db.link.until \in Int /\ {"link", "shares", "minted"} \subseteq DOMAIN db /\ {"until"} \subseteq DOMAIN db.link
    BY DEF Timed, Inv, Minted
<1>2. ttlToExpiresAt(c.ttl) \in Int
    BY <1>1 DEF ttlToExpiresAt, Never, Inv, Watched
<1>3. CASE ServeLoad(c) \/ ServeList(c)
    BY <1>1, <1>3, ServedTimed DEF ServeLoad, ServeList
<1>4. CASE ServeGenerate(c)
    <2> DEFINE l == [token |-> db.minted + 1, until |-> ttlToExpiresAt(c.ttl)]
               rows == [db EXCEPT !.link = l, !.minted = @ + 1]
    <2>1. rows.link.until \in Int
        BY <1>1, <1>2
    <2>2. Served(c, rows, l, {})
        BY <1>4 DEF ServeGenerate
    <2> HIDE DEF l, rows
    <2> QED BY <2>1, <2>2, ServedTimed
<1>5. CASE Find(c)
    <2> DEFINE d == IF db.link = NoLink THEN [c EXCEPT !.stage = "done", !.ok = c.op = "revoke"]
                                        ELSE [c EXCEPT !.stage = "found", !.link = db.link]
    <2>1. DOMAIN d = DOMAIN c /\ d.ttl = c.ttl
        BY <1>1
    <2>2. Replace(c, d) /\ db' = db
        BY <1>5 DEF Find
    <2> HIDE DEF d
    <2> QED BY <2>1, <2>2, ReplaceTimed DEF Timed
<1>6. CASE WriteExpiry(c)
    <2> DEFINE l == [db.link EXCEPT !.until = ttlToExpiresAt(c.ttl)]
               rows == [db EXCEPT !.link = l]
    <2>1. rows.link.until \in Int
        BY <1>1, <1>2
    <2>2. Gone(c) \/ Served(c, rows, l, {})
        BY <1>6 DEF WriteExpiry
    <2> HIDE DEF l, rows
    <2> QED BY <2>1, <2>2, ServedTimed, GoneTimed
<1>7. CASE WriteRevoke(c)
    <2> DEFINE rows == [db EXCEPT !.link = NoLink]
    <2>1. rows.link.until \in Int
        BY <1>1 DEF NoLink, Never
    <2>2. Gone(c) \/ Served(c, rows, NoLink, {})
        BY <1>7 DEF WriteRevoke
    <2> HIDE DEF rows
    <2> QED BY <2>1, <2>2, ServedTimed, GoneTimed
<1>8. ASSUME NEW S, Served(c, [db EXCEPT !.shares = S], NoLink, {}) PROVE Timed'
    <2> DEFINE rows == [db EXCEPT !.shares = S]
    <2>1. rows.link.until \in Int
        BY <1>1
    <2> HIDE DEF rows
    <2> QED BY <1>8, <2>1, ServedTimed DEF rows
<1>9. CASE ServeGrant(c) \/ DeleteShare(c)
    BY <1>8, <1>9, GoneTimed DEF ServeGrant, DeleteShare
<1>10. CASE FindShare(c)
    <2> DEFINE d == [c EXCEPT !.stage = "found"]
    <2>1. DOMAIN d = DOMAIN c /\ d.ttl = c.ttl
        BY <1>1
    <2>2. Gone(c) \/ (Replace(c, d) /\ db' = db)
        BY <1>10 DEF FindShare
    <2> HIDE DEF d
    <2> QED BY <2>1, <2>2, ReplaceTimed, GoneTimed DEF Timed
<1> QED BY <1>3, <1>4, <1>5, <1>6, <1>7, <1>9, <1>10 DEF Serve

LEMMA SendTimed ==
    ASSUME Timed, Open \/ Close \/ Revoke
                  \/ (\E ttl \in Ttls : Generate(ttl) \/ UpdateExpiry(ttl))
                  \/ (\E u \in Users : HandleAdd(u))
                  \/ (\E s \in ui.list : RevokeShare(s))
    PROVE  Timed'
<1>1. db' = db
    BY DEF Open, Close, Revoke, Generate, UpdateExpiry, HandleAdd, RevokeShare, Send
<1>2. CASE Close
    BY <1>1, <1>2 DEF Close, Timed
<1>3. CASE Open
    BY <1>1, <1>3, CallTimed DEF Open, Timed
<1>4. ASSUME NEW op, NEW ttl \in Nat, NEW to, NEW id, Send(op, ttl, to, id) PROVE Timed'
    BY <1>1, <1>4, CallTimed DEF Send, Timed
<1>5. Ttls \subseteq Nat
    BY SharingAssumption
<1> QED BY <1>2, <1>3, <1>4, <1>5 DEF Revoke, Generate, UpdateExpiry, HandleAdd, RevokeShare

LEMMA AnswerTimed ==
    ASSUME Timed, NEW c \in calls, Answer(c) \/ Lose(c) PROVE Timed'
<1>1. db' = db
    BY DEF Answer, Lose
<1>2. \E ok, rest : /\ calls' = rest \cup FollowUp(c, ok)
                    /\ \A d \in rest : {"ttl", "op", "stage", "live"} \subseteq DOMAIN d /\ d.ttl \in Nat
    <2>1. CASE Answer(c)
        BY <2>1 DEF Answer, Apply, Timed
    <2>2. CASE Lose(c)
        <3> DEFINE rest == (calls \ {c}) \cup {[d EXCEPT !.live = FALSE] : d \in {d \in {c} : d.stage # "done"}}
        <3>1. calls' = rest \cup FollowUp(c, FALSE)
            BY <2>2 DEF Lose, Apply
        <3>2. \A d \in rest : {"ttl", "op", "stage", "live"} \subseteq DOMAIN d /\ d.ttl \in Nat
            BY DEF Timed
        <3> HIDE DEF rest
        <3> QED BY <3>1, <3>2
    <2> QED BY <2>1, <2>2
<1>3. \A ok : \A d \in FollowUp(c, ok) : {"ttl", "op", "stage", "live"} \subseteq DOMAIN d /\ d.ttl \in Nat
    BY CallTimed DEF FollowUp
<1> QED BY <1>1, <1>2, <1>3 DEF Timed

LEMMA NextTimed == Inv /\ Timed /\ [Next]_vars => Timed'
<1> SUFFICES ASSUME Inv, Timed, [Next]_vars PROVE Timed'
    OBVIOUS
<1>1. ASSUME NEW c \in calls, Serve(c) /\ UNCHANGED <<ui, now, readers, left>> PROVE Timed'
    BY <1>1, ServeTimed
<1>2. ASSUME NEW c \in calls, Refuse(c) /\ UNCHANGED <<ui, now, readers>> PROVE Timed'
    <2>1. db' = db /\ Replace(c, [c EXCEPT !.stage = "done", !.ok = FALSE])
        BY <1>2 DEF Refuse, Gone
    <2>2. "ttl" \in DOMAIN c
        BY DEF Timed
    <2> QED BY <2>1, <2>2, ReplaceTimed DEF Timed
<1>3. CASE Elsewhere
    <2>1. now \in Nat /\ Ttls \subseteq Nat /\ db.link.until \in Int
        BY SharingAssumption DEF Inv, Watched, Timed
    <2>2. \A ttl \in Ttls : ttlToExpiresAt(ttl) \in Int
        BY <2>1 DEF ttlToExpiresAt, Never
    <2>3. {"link", "archived", "minted"} \subseteq DOMAIN db /\ {"until"} \subseteq DOMAIN db.link
        BY DEF Inv, Minted
    <2>4. ASSUME NEW ttl \in Ttls,
                 \/ db' = [db EXCEPT !.link = [token |-> db.minted + 1, until |-> ttlToExpiresAt(ttl)], !.minted = @ + 1]
                 \/ db' = [db EXCEPT !.link = [@ EXCEPT !.until = ttlToExpiresAt(ttl)]]
          PROVE  db'.link.until \in Int
        <3> DEFINE e == ttlToExpiresAt(ttl)
        <3>1. e \in Int
            BY <2>2
        <3> HIDE DEF e
        <3>2. CASE db' = [db EXCEPT !.link = [token |-> db.minted + 1, until |-> e], !.minted = @ + 1]
            BY <2>3, <3>1, <3>2
        <3>3. CASE db' = [db EXCEPT !.link = [@ EXCEPT !.until = e]]
            BY <2>3, <3>1, <3>3
        <3> QED BY <2>4, <3>2, <3>3 DEF e
    <2>5. db' = [db EXCEPT !.link = NoLink] \/ db' = [db EXCEPT !.archived = ~@] => db'.link.until \in Int
        BY <2>1, <2>3 DEF NoLink, Never
    <2>6. \/ \E ttl \in Ttls :
                \/ db' = [db EXCEPT !.link = [token |-> db.minted + 1, until |-> ttlToExpiresAt(ttl)], !.minted = @ + 1]
                \/ db' = [db EXCEPT !.link = [@ EXCEPT !.until = ttlToExpiresAt(ttl)]]
          \/ db' = [db EXCEPT !.link = NoLink] \/ db' = [db EXCEPT !.archived = ~@]
        BY <1>3, Zenon DEF Elsewhere
    <2>7. db'.link.until \in Int /\ calls' = calls
        BY <1>3, <2>4, <2>5, <2>6 DEF Elsewhere
    <2> QED BY <2>7 DEF Timed
<1>4. CASE Reading \/ Tick \/ UNCHANGED vars
    BY <1>4 DEF Reading, AskAsset, Tick, vars, Timed
<1> QED BY <1>1, <1>2, <1>3, <1>4, SendTimed, AnswerTimed DEF Next, Reading

LEMMA AdvanceStep ==
    ASSUME Readers, NEW r \in readers, NEW found, NEW s, Advance(r, found, s), found => Read(s), UNCHANGED <<now, hist>>
    PROVE  Readers'
<1>1. \A q : Read(q)' <=> Read(q)
    BY DEF Read, Live
<1> QED BY <1>1 DEF Advance, Readers

LEMMA NextReaders == Inv /\ Timed /\ Readers /\ [Next]_vars => Readers'
<1> SUFFICES ASSUME Inv, Timed, Readers, [Next]_vars PROVE Readers'
    OBVIOUS
<1>1. Onward
    BY NextOnward
<1>2. CASE readers' = readers
    <2> SUFFICES ASSUME NEW r \in readers PROVE Read(r)'
        BY <1>2 DEF Readers
    <2>1. Read(r) /\ now \in Nat /\ hist.lastLive[r.token] \in Nat /\ hist'.lastLive[r.token] \in Nat
        BY <1>1 DEF Readers, Inv, Watched, Onward, Read
    <2>2. hist.lastLive[r.token] <= hist'.lastLive[r.token] /\ now' \in {now, now + 1}
        BY <1>1, <2>1 DEF Onward, Read
    <2>3. r.stage = "found" => (Live(r.row)' => Live(r.row))
        BY <2>1, <2>2 DEF Live, Read
    <2> QED BY <2>1, <2>2, <2>3 DEF Read
<1>3. ASSUME NEW t \in Tokens, AskAsset(t) PROVE Readers'
    <2>1. UNCHANGED <<now, hist>> /\ readers' = readers \cup {Reader(t)}
        BY <1>3 DEF AskAsset
    <2>2. \A q : Read(q)' <=> Read(q)
        BY <2>1 DEF Read, Live
    <2>3. Read(Reader(t))
        BY DEF Read, Reader, Inv, Watched
    <2> QED BY <2>1, <2>2, <2>3 DEF Readers
<1>4. ASSUME NEW r \in readers, FindLink(r), UNCHANGED <<db, ui, calls, now, hist, left>> PROVE Readers'
    <2> DEFINE s == [r EXCEPT !.stage = "found", !.row = db.link]
    <2>1. Read(r)
        BY DEF Readers
    <2>2. ASSUME db.link.token = r.token, ~db.archived PROVE Read(s)
        <3>1. /\ DOMAIN s = DOMAIN r /\ s.token = r.token /\ s.since = r.since /\ s.at = r.at
              /\ s.stage = "found" /\ s.row = db.link
            BY <2>1 DEF Read
        <3>2. Live(db.link) => hist.lastLive[r.token] = now
            BY <2>1, <2>2 DEF Resolves, Inv, Watched, Read
        <3> HIDE DEF s
        <3> QED BY <2>1, <3>1, <3>2 DEF Read, Timed
    <2> HIDE DEF s
    <2>3. Advance(r, db.link.token = r.token /\ ~db.archived, s)
        BY <1>4 DEF FindLink, s
    <2> QED BY <1>4, <2>2, <2>3, AdvanceStep
<1>5. ASSUME NEW r \in readers, Judge(r), UNCHANGED <<db, ui, calls, now, hist, left>> PROVE Readers'
    <2> DEFINE s == [r EXCEPT !.stage = "granted"]
    <2>1. Read(r) /\ r.stage = "found"
        BY <1>5 DEF Readers, Judge
    <2>2. Live(r.row) => Read(s)
        BY <2>1 DEF Read
    <2> HIDE DEF s
    <2>3. Advance(r, Live(r.row), s)
        BY <1>5 DEF Judge, s
    <2> QED BY <1>5, <2>2, <2>3, AdvanceStep
<1>6. ASSUME NEW r \in readers, Answered(r), UNCHANGED <<db, ui, calls, now, hist, left>> PROVE Readers'
    <2> DEFINE s == [r EXCEPT !.stage = "kept", !.at = now]
    <2>1. Read(r) /\ r.stage = "granted" /\ now \in Nat
        BY <1>6 DEF Readers, Answered, Inv, Watched
    <2>2. Read(s)
        BY <2>1 DEF Read
    <2> HIDE DEF s
    <2>3. PICK there \in BOOLEAN : Advance(r, there, s)
        BY <1>6 DEF Answered, s
    <2> QED BY <1>6, <2>2, <2>3, AdvanceStep
<1>7. \/ readers' = readers
      \/ \E t \in Tokens : AskAsset(t)
      \/ \E r \in readers : (FindLink(r) \/ Judge(r) \/ Answered(r)) /\ UNCHANGED <<db, ui, calls, now, hist, left>>
    BY DEF Next, vars, Open, Close, Generate, UpdateExpiry, Revoke, HandleAdd, RevokeShare, Send, Answer, Lose,
           Elsewhere, Tick
<1> QED BY <1>2, <1>3, <1>4, <1>5, <1>6, <1>7

\* A copy still fresh after its link is gone is one of an answer to a request
\* that was under way when the link last resolved
\* (assets/[assetId]/route.ts:29-48).
THEOREM CopiesExpire == Spec => []AssetsGoDark
<1>1. Init => Inv /\ Timed /\ Readers
    BY InitInv DEF Init, Timed, Readers, NoLink, Never
<1>2. Inv /\ Timed /\ Readers /\ [Next]_vars => (Inv /\ Timed /\ Readers)'
    BY NextInv, NextTimed, NextReaders
<1>3. ASSUME Inv, Readers PROVE AssetsGoDark
    <2> SUFFICES ASSUME NEW r \in readers, r.stage = "kept", now < r.at + CacheAge
                 PROVE  now < hist.lastLive[r.token] + (r.at - r.since) + CacheAge
        BY DEF AssetsGoDark
    <2>1. /\ now \in Nat /\ r.at \in Nat /\ r.since \in Nat /\ hist.lastLive[r.token] \in Nat
          /\ r.since <= hist.lastLive[r.token]
        BY <1>3 DEF Inv, Watched, Readers, Read
    <2>2. CacheAge \in Nat
        BY SharingAssumption
    <2> QED BY <2>1, <2>2
<1> QED BY <1>1, <1>2, <1>3, PTL DEF Spec

-----------------------------------------------------------------------------
(* The dialog: what is known of its requests, and the steps of the routes. *)

Changes == {"grant", "ungrant"}

\* A change of the shares that went well and whose answer is under way.
Pending == \E d \in calls : d.live /\ d.op \in Changes /\ d.stage = "done" /\ d.ok

\* What is known of a request: who waits for it, when it is the newest of its
\* kind, and what its answer says.
Handled(c) ==
  /\ {"n", "op", "ttl", "to", "id", "stage", "live", "ok", "link", "list"} \subseteq DOMAIN c
  /\ c.n \in 1..hist.n /\ c.op \in LinkOps \cup ListOps
  /\ IF c.stage = "done" THEN c.live ELSE c.ok
  /\ c.stage = "sent" => c.link = NoLink
  /\ c.live => ui.open
  /\ c.live /\ c.op \in LinkOps \ {"load"} => c.n = ui.linkSent /\ ui.busy
  /\ ui.open /\ c.n = ui.linkSent =>
       /\ c.op \in LinkOps
       /\ ui.linkOf = ui.linkSent => ui.err /\ ~c.live
       /\ c.stage = "done" /\ c.ok /\ ~hist.foreignLink => c.link = db.link
  /\ ui.open /\ c.n = ui.listSent =>
       /\ c.op = "list"
       /\ ui.listOf = ui.listSent => ui.listErr /\ ~c.live
       /\ c.stage = "done" /\ c.ok /\ ~hist.foreignShares => c.list = db.shares \/ Pending

Fields == {"open", "link", "err", "busy", "linkSent", "linkOf", "list", "listing", "listErr", "adding",
           "listSent", "listOf"}

\* What the dialog shows once the answer of its newest request of a kind arrived.
Shown ==
  /\ Fields \subseteq DOMAIN ui /\ hist.n \in Nat
  /\ \A x \in {ui.linkSent, ui.linkOf, ui.listSent, ui.listOf} : x \in 0..hist.n
  /\ ui.open /\ ~ui.err /\ ui.linkOf = ui.linkSent /\ ~hist.foreignLink => ui.link = db.link
  /\ ui.open /\ ~ui.listErr /\ ui.listOf = ui.listSent /\ ~hist.foreignShares => ui.list = db.shares \/ Pending

Dialog ==
  /\ Shown
  /\ \A c \in calls : Handled(c)
  /\ \A c, d \in calls : c.n = d.n => c = d

\* A request moves on by one step of its route.
LEMMA ReplaceStep ==
    ASSUME Dialog, NEW c \in calls, NEW d, Replace(c, d), c.stage # "done",
           ui' = ui, hist'.n = hist.n,
           DOMAIN d = DOMAIN c, d.n = c.n, d.op = c.op, d.live = c.live, d.stage = "done" \/ (d.stage = "found" /\ d.ok),
           \/ hist'.foreignLink
           \/ c.n # ui.linkSent /\ db'.link = db.link /\ (hist.foreignLink => hist'.foreignLink)
           \/ c.n = ui.linkSent /\ (ui.open /\ d.stage = "done" /\ d.ok => d.link = db'.link),
           \/ hist'.foreignShares
           \/ c.n # ui.listSent /\ db'.shares = db.shares /\ (hist.foreignShares => hist'.foreignShares)
           \/ c.n = ui.listSent /\ (ui.open /\ d.stage = "done" /\ d.ok => d.list = db'.shares)
           \/ c.n # ui.listSent /\ c.op \in Changes /\ d.stage = "done" /\ (c.live => d.ok)
                /\ (c.live \/ hist'.foreignShares)
    PROVE  Dialog'
<1>1. calls' = (calls \ {c}) \cup (IF d.stage = "done" /\ ~d.live THEN {} ELSE {d})
    BY DEF Replace
<1>2. ASSUME Pending PROVE Pending'
    <2>1. PICK e \in calls : e.live /\ e.op \in Changes /\ e.stage = "done" /\ e.ok
        BY <1>2 DEF Pending
    <2>2. e \in calls'
        BY <1>1, <2>1
    <2> QED BY <2>1, <2>2 DEF Pending
<1>3. Handled(c) /\ Shown
    BY DEF Dialog
<1>4. \A e \in calls : e # c => e.n # c.n
    BY DEF Dialog
<1>5. c.live /\ c.op \in Changes /\ d.stage = "done" /\ d.ok => Pending'
    <2> SUFFICES ASSUME c.live, c.op \in Changes, d.stage = "done", d.ok PROVE Pending'
        OBVIOUS
    <2>1. d \in calls'
        BY <1>1
    <2> QED BY <2>1 DEF Pending
<1>6. ASSUME NEW e \in calls, e # c PROVE Handled(e)'
    <2>1. Handled(e) /\ e.n # c.n
        BY <1>4, <1>6 DEF Dialog
    <2> QED BY <1>2, <1>3, <1>5, <2>1 DEF Handled
<1>7. ASSUME d.stage = "done" => d.live PROVE Handled(d)'
    BY <1>2, <1>3, <1>5, <1>7 DEF Handled
<1>8. Shown'
    <2>1. ui.open /\ ~ui.err /\ ui.linkOf = ui.linkSent /\ ~hist'.foreignLink => ui.link = db'.link
        BY <1>3 DEF Handled, Shown
    <2>2. ui.open /\ ~ui.listErr /\ ui.listOf = ui.listSent /\ ~hist'.foreignShares
              => ui.list = db'.shares \/ Pending'
        BY <1>2, <1>3, <1>5 DEF Handled, Shown
    <2> QED BY <1>3, <2>1, <2>2 DEF Shown
<1> QED BY <1>1, <1>4, <1>6, <1>7, <1>8 DEF Dialog

LEMMA ServedDialog ==
    ASSUME Inv, Dialog, NEW c \in calls, NEW rows, NEW link, NEW list, Served(c, rows, link, list),
           c.stage # "done", ui' = ui,
           c.op \in LinkOps => link = rows.link,
           c.op \notin LinkOps \ {"load"} => rows.link = db.link,
           c.op = "list" => list = rows.shares,
           c.op \notin Changes => rows.shares = db.shares
    PROVE  Dialog'
<1> DEFINE d == [c EXCEPT !.stage = "done", !.link = link, !.list = list]
<1>1. Handled(c)
    BY DEF Dialog
<1>2. /\ DOMAIN d = DOMAIN c /\ d.n = c.n /\ d.op = c.op /\ d.live = c.live /\ d.ok = c.ok
      /\ d.stage = "done" /\ d.link = link /\ d.list = list
    BY <1>1 DEF Handled
<1>3. Replace(c, d) /\ db' = rows
    BY DEF Served
<1>4. /\ hist'.n = hist.n
      /\ hist'.foreignLink = Foreign(hist.foreignLink, c, ui.linkSent, rows.link # db.link)
      /\ hist'.foreignShares = Foreign(hist.foreignShares, c, ui.listSent, rows.shares # db.shares)
    BY DEF Served, Inv, Minted
<1> HIDE DEF d
<1>5. \/ hist'.foreignLink
      \/ c.n # ui.linkSent /\ db'.link = db.link /\ (hist.foreignLink => hist'.foreignLink)
      \/ c.n = ui.linkSent /\ (ui.open /\ d.stage = "done" /\ d.ok => d.link = db'.link)
    BY <1>1, <1>2, <1>3, <1>4 DEF Handled, Foreign
<1>6. \/ hist'.foreignShares
      \/ c.n # ui.listSent /\ db'.shares = db.shares /\ (hist.foreignShares => hist'.foreignShares)
      \/ c.n = ui.listSent /\ (ui.open /\ d.stage = "done" /\ d.ok => d.list = db'.shares)
      \/ c.n # ui.listSent /\ c.op \in Changes /\ d.stage = "done" /\ (c.live => d.ok)
           /\ (c.live \/ hist'.foreignShares)
    BY <1>1, <1>2, <1>3, <1>4 DEF Handled, Foreign
<1> QED BY <1>2, <1>3, <1>4, <1>5, <1>6, ReplaceStep

LEMMA GoneDialog ==
    ASSUME Inv, Dialog, NEW c \in calls, Gone(c), c.stage # "done", ui' = ui PROVE Dialog'
<1> DEFINE d == [c EXCEPT !.stage = "done", !.ok = FALSE]
<1>1. Handled(c)
    BY DEF Dialog
<1>2. /\ DOMAIN d = DOMAIN c /\ d.n = c.n /\ d.op = c.op /\ d.live = c.live /\ d.ok = FALSE
      /\ d.stage = "done"
    BY <1>1 DEF Handled
<1>3. Replace(c, d) /\ db' = db /\ hist' = hist
    BY DEF Gone
<1> HIDE DEF d
<1> QED BY <1>1, <1>2, <1>3, ReplaceStep

LEMMA FindDialog == ASSUME Inv, Dialog, NEW c \in calls, Find(c), ui' = ui PROVE Dialog'
<1>1. Handled(c) /\ c.stage = "sent" /\ c.op \in {"expiry", "revoke"}
    BY DEF Dialog, Find
<1>2. /\ db' = db /\ hist'.n = hist.n /\ hist'.foreignShares = hist.foreignShares
      /\ hist'.foreignLink = Foreign(hist.foreignLink, c, ui.linkSent, FALSE)
    BY DEF Find, Inv, Minted
<1>3. \E d : /\ Replace(c, d) /\ DOMAIN d = DOMAIN c /\ d.n = c.n /\ d.op = c.op /\ d.live = c.live
             /\ d.stage = "done" \/ (d.stage = "found" /\ d.ok)
             /\ d.stage = "done" => d.link = db.link
    <2>1. CASE db.link = NoLink
        <3> DEFINE d == [c EXCEPT !.stage = "done", !.ok = c.op = "revoke"]
        <3>1. Replace(c, d)
            BY <2>1 DEF Find
        <3>2. /\ DOMAIN d = DOMAIN c /\ d.n = c.n /\ d.op = c.op /\ d.live = c.live
              /\ d.stage = "done" /\ d.link = c.link
            BY <1>1 DEF Handled
        <3> HIDE DEF d
        <3> QED BY <1>1, <2>1, <3>1, <3>2 DEF Handled
    <2>2. CASE db.link # NoLink
        <3> DEFINE d == [c EXCEPT !.stage = "found", !.link = db.link]
        <3>1. Replace(c, d)
            BY <2>2 DEF Find
        <3>2. /\ DOMAIN d = DOMAIN c /\ d.n = c.n /\ d.op = c.op /\ d.live = c.live /\ d.ok = c.ok
              /\ d.stage = "found"
            BY <1>1 DEF Handled
        <3> HIDE DEF d
        <3> QED BY <1>1, <3>1, <3>2 DEF Handled
    <2> QED BY <2>1, <2>2
<1>4. PICK d : /\ Replace(c, d) /\ DOMAIN d = DOMAIN c /\ d.n = c.n /\ d.op = c.op /\ d.live = c.live
               /\ d.stage = "done" \/ (d.stage = "found" /\ d.ok)
               /\ d.stage = "done" => d.link = db.link
    BY <1>3
<1>5. \/ c.n = ui.listSent /\ ~ui.open
      \/ c.n # ui.listSent /\ db'.shares = db.shares /\ hist'.foreignShares = hist.foreignShares
    BY <1>1, <1>2 DEF Handled
<1>7. c.n # ui.linkSent /\ hist.foreignLink => hist'.foreignLink
    BY <1>2 DEF Foreign
<1>6. \/ c.n = ui.linkSent /\ (d.stage = "done" => d.link = db'.link)
      \/ c.n # ui.linkSent /\ db'.link = db.link /\ (hist.foreignLink => hist'.foreignLink)
    BY <1>2, <1>4, <1>7
<1> QED BY <1>1, <1>2, <1>4, <1>5, <1>6, ReplaceStep

LEMMA ServeDialog == ASSUME Inv, Dialog, NEW c \in calls, Serve(c), ui' = ui PROVE Dialog'
<1>1. /\ {"link", "archived", "shares", "minted"} \subseteq DOMAIN db
      /\ {"token", "until"} \subseteq DOMAIN db.link
    BY DEF Inv, Minted
<1>2. CASE ServeLoad(c) \/ ServeList(c)
    BY <1>2, ServedDialog DEF ServeLoad, ServeList, LinkOps, Changes
<1>3. CASE ServeGenerate(c)
    <2> DEFINE l == [token |-> db.minted + 1, until |-> ttlToExpiresAt(c.ttl)]
               rows == [db EXCEPT !.link = l, !.minted = @ + 1]
    <2>1. Served(c, rows, l, {}) /\ c.op = "generate" /\ c.stage = "sent"
        BY <1>3 DEF ServeGenerate
    <2>2. rows.link = l /\ rows.shares = db.shares
        BY <1>1
    <2> HIDE DEF rows, l
    <2> QED BY <2>1, <2>2, ServedDialog DEF LinkOps, Changes
<1>4. CASE Find(c)
    BY <1>4, FindDialog
<1>5. ASSUME NEW l, c.op \in {"expiry", "revoke"}, c.stage = "found", Served(c, [db EXCEPT !.link = l], l, {})
      PROVE  Dialog'
    <2> DEFINE rows == [db EXCEPT !.link = l]
    <2>1. rows.link = l /\ rows.shares = db.shares
        BY <1>1
    <2> HIDE DEF rows
    <2> QED BY <1>5, <2>1, ServedDialog DEF LinkOps, Changes, rows
<1>6. CASE WriteExpiry(c)
    BY <1>5, <1>6, GoneDialog DEF WriteExpiry
<1>7. CASE WriteRevoke(c)
    BY <1>5, <1>7, GoneDialog DEF WriteRevoke
<1>8. ASSUME NEW S, c.op \in Changes, c.stage # "done", Served(c, [db EXCEPT !.shares = S], NoLink, {})
      PROVE  Dialog'
    <2> DEFINE rows == [db EXCEPT !.shares = S]
    <2>1. rows.link = db.link
        BY <1>1
    <2> HIDE DEF rows
    <2> QED BY <1>8, <2>1, ServedDialog DEF LinkOps, Changes, rows
<1>9. CASE ServeGrant(c)
    BY <1>8, <1>9 DEF ServeGrant, Changes
<1>10. CASE FindShare(c)
    <2> DEFINE d == [c EXCEPT !.stage = "found"]
    <2>1. CASE Replace(c, d) /\ UNCHANGED <<db, hist>>
        <3>1. Handled(c) /\ c.stage = "sent" /\ c.op = "ungrant"
            BY <1>10 DEF Dialog, FindShare
        <3>2. /\ DOMAIN d = DOMAIN c /\ d.n = c.n /\ d.op = c.op /\ d.live = c.live /\ d.ok = c.ok
              /\ d.stage = "found"
            BY <3>1 DEF Handled
        <3> HIDE DEF d
        <3> QED BY <2>1, <3>1, <3>2, ReplaceStep DEF Handled
    <2> QED BY <1>10, <2>1, GoneDialog DEF FindShare
<1>11. CASE DeleteShare(c)
    BY <1>8, <1>11, GoneDialog DEF DeleteShare, Changes
<1> QED BY <1>2, <1>3, <1>4, <1>6, <1>7, <1>9, <1>10, <1>11 DEF Serve

\* What the dialog does not notice.
LEMMA AsideStep ==
    ASSUME Dialog, ui' = ui, calls' = calls, hist'.n = hist.n,
           db'.shares = db.shares, hist'.foreignShares = hist.foreignShares,
           hist'.foreignLink \/ (db'.link = db.link /\ ~hist.foreignLink)
    PROVE  Dialog'
<1>1. Pending' = Pending
    BY DEF Pending
<1>2. \A c \in calls : Handled(c)'
    BY <1>1 DEF Handled, Dialog
<1>3. Shown'
    BY <1>1 DEF Shown, Dialog
<1> QED BY <1>2, <1>3 DEF Dialog

LEMMA ElsewhereDialog == ASSUME Inv, Dialog, Elsewhere PROVE Dialog'
<1>1. /\ ui' = ui /\ calls' = calls
      /\ hist'.n = hist.n /\ hist'.foreignShares = hist.foreignShares
      /\ hist'.foreignLink = (hist.foreignLink \/ db'.link # db.link)
    BY DEF Elsewhere, Inv, Minted
<1>2. db'.shares = db.shares
    BY DEF Elsewhere, Inv, Minted
<1> QED BY <1>1, <1>2, AsideStep

LEMMA WorldDialog ==
    ASSUME Inv, Dialog, Reading \/ Tick \/ UNCHANGED vars PROVE Dialog'
<1>1. /\ UNCHANGED <<db, ui, calls>> /\ hist'.n = hist.n
      /\ hist'.foreignLink = hist.foreignLink /\ hist'.foreignShares = hist.foreignShares
    BY DEF Reading, AskAsset, Tick, vars, Inv, Minted
<1> QED BY <1>1, AsideStep

\* A click that sends a request: about the link, with its number noted, or about the shares.
LEMMA SendDialog ==
    ASSUME Inv, Dialog, NEW op, NEW ttl, NEW to, NEW id, Send(op, ttl, to, id), DOMAIN ui' = DOMAIN ui,
           ui.open, ui'.open,
           ui'.link = ui.link, ui'.list = ui.list, ui'.linkOf = ui.linkOf,
           ui'.listErr = ui.listErr, ui'.listSent = ui.listSent, ui'.listOf = ui.listOf,
           \/ /\ op \in LinkOps \ {"load"} /\ ~ui.busy /\ ui'.busy /\ ui'.linkSent = hist.n + 1
           \/ /\ op \in Changes /\ ui'.busy = ui.busy /\ ui'.err = ui.err /\ ui'.linkSent = ui.linkSent
    PROVE  Dialog'
<1>0. PICK e : e = Call(hist.n + 1, op, ttl, to, id)
    OBVIOUS
<1>1. /\ DOMAIN e = {"n", "op", "ttl", "to", "id", "stage", "live", "ok", "link", "list"}
      /\ e.n = hist.n + 1 /\ e.op = op /\ e.stage = "sent" /\ e.live /\ e.ok /\ e.link = NoLink
    BY <1>0 DEF Call
<1>2. /\ calls' = calls \cup {e} /\ db' = db /\ hist'.n = hist.n + 1
      /\ hist'.foreignLink = hist.foreignLink /\ hist'.foreignShares = hist.foreignShares
    BY <1>0 DEF Send, Inv, Minted
<1>3. Shown /\ hist.n \in Nat
    BY DEF Dialog, Shown
<1>4. \A c \in calls : Handled(c)
    BY DEF Dialog
<1>5. Pending' <=> Pending
    BY <1>1, <1>2 DEF Pending
<1>6. PICK m : m = hist.n + 1
    OBVIOUS
<1>m. /\ m \in 1..m /\ m \in Nat /\ hist'.n = m /\ e.n = m
      /\ \A x \in 0..hist.n : x # m /\ x \in 0..m /\ (x # 0 => x \in 1..m)
    BY <1>1, <1>2, <1>3, <1>6
<1>c. \A c \in calls : c.n \in 1..m /\ c.n # m
    BY <1>3, <1>4, <1>6 DEF Handled
<1>s. ui.linkSent # m /\ ui.linkOf # m /\ ui.listSent # m /\ (ui'.linkSent = m \/ ui'.linkSent = ui.linkSent)
    BY <1>3, <1>6, <1>m DEF Shown
<1>7. ASSUME NEW c \in calls PROVE Handled(c)'
    <2>1. Handled(c) /\ c.n # m /\ c.n \in 1..m
        BY <1>4, <1>c
    <2>2. c.live /\ c.op \in LinkOps \ {"load"} => c.n = ui'.linkSent /\ ui'.busy
        BY <2>1 DEF Handled
    <2>3. ui'.open /\ c.n = ui'.linkSent =>
            /\ c.op \in LinkOps
            /\ ui'.linkOf = ui'.linkSent => ui'.err /\ ~c.live
            /\ c.stage = "done" /\ c.ok /\ ~hist'.foreignLink => c.link = db'.link
        BY <1>2, <1>6, <2>1 DEF Handled
    <2>4. ui'.open /\ c.n = ui'.listSent =>
            /\ c.op = "list"
            /\ ui'.listOf = ui'.listSent => ui'.listErr /\ ~c.live
            /\ c.stage = "done" /\ c.ok /\ ~hist'.foreignShares => c.list = db'.shares \/ Pending'
        BY <1>2, <1>5, <2>1 DEF Handled
    <2> QED BY <1>m, <2>1, <2>2, <2>3, <2>4 DEF Handled
<1>8. Handled(e)'
    <2>1. ui'.open /\ e.n = ui'.linkSent => op \in LinkOps /\ ui'.linkOf # ui'.linkSent
        BY <1>m, <1>s, <1>6
    <2>2. e.n # ui'.listSent
        BY <1>m, <1>s
    <2>3. op \in LinkOps \ {"load"} => e.n = ui'.linkSent /\ ui'.busy
        BY <1>m, <1>6 DEF LinkOps, Changes
    <2>4. op \in LinkOps \cup ListOps
        BY DEF LinkOps, ListOps, Changes
    <2> QED BY <1>1, <1>m, <2>1, <2>2, <2>3, <2>4 DEF Handled
<1>9. Shown'
    <2>1. \A x \in {ui'.linkSent, ui'.linkOf, ui'.listSent, ui'.listOf} : x \in 0..m
        BY <1>3, <1>m, <1>s DEF Shown
    <2> QED BY <1>2, <1>3, <1>5, <1>m, <1>s, <2>1 DEF Shown
<1>10. \A c, d \in calls' : c.n = d.n => c = d
    BY <1>m, <1>c, <1>2 DEF Dialog
<1> QED BY <1>2, <1>7, <1>8, <1>9, <1>10 DEF Dialog

-----------------------------------------------------------------------------
(* Clicks, opening and closing. *)

LEMMA ClickDialog ==
    ASSUME Inv, Dialog, \/ Revoke
                        \/ \E ttl \in Ttls : Generate(ttl) \/ UpdateExpiry(ttl)
                        \/ \E u \in Users : HandleAdd(u)
                        \/ \E s \in ui.list : RevokeShare(s)
    PROVE  Dialog'
<1>1. Fields \subseteq DOMAIN ui
    BY DEF Dialog, Shown
<1>2. ASSUME NEW op \in LinkOps \ {"load"}, NEW ttl, ui.open, ~ui.busy, Send(op, ttl, Nobody, 0),
             ui' = [ui EXCEPT !.busy = TRUE, !.err = FALSE, !.linkSent = hist.n + 1]
      PROVE  Dialog'
    <2>1. /\ DOMAIN ui' = DOMAIN ui
          /\ ui'.open = ui.open /\ ui'.link = ui.link /\ ui'.list = ui.list /\ ui'.linkOf = ui.linkOf
          /\ ui'.listErr = ui.listErr /\ ui'.listSent = ui.listSent /\ ui'.listOf = ui.listOf
          /\ ui'.linkSent = hist.n + 1
        BY <1>1, <1>2 DEF Fields
    <2>2. ui'.busy
        BY <1>1, <1>2 DEF Fields
    <2> QED BY <1>2, <2>1, <2>2, SendDialog
<1>3. ASSUME NEW op \in Changes, NEW to, NEW id, ui.open, Send(op, 0, to, id),
             ui' = ui \/ ui' = [ui EXCEPT !.adding = TRUE]
      PROVE  Dialog'
    <2>1. /\ DOMAIN ui' = DOMAIN ui
          /\ ui'.open = ui.open /\ ui'.link = ui.link /\ ui'.list = ui.list /\ ui'.linkOf = ui.linkOf
          /\ ui'.listErr = ui.listErr /\ ui'.listSent = ui.listSent /\ ui'.listOf = ui.listOf
          /\ ui'.linkSent = ui.linkSent /\ ui'.busy = ui.busy /\ ui'.err = ui.err
        BY <1>1, <1>3 DEF Fields
    <2> QED BY <1>3, <2>1, SendDialog
<1>4. CASE Revoke \/ \E ttl \in Ttls : Generate(ttl) \/ UpdateExpiry(ttl)
    BY <1>2, <1>4 DEF Revoke, Generate, UpdateExpiry, LinkOps
<1>5. CASE (\E u \in Users : HandleAdd(u)) \/ (\E s \in ui.list : RevokeShare(s))
    BY <1>3, <1>5 DEF HandleAdd, RevokeShare, Changes
<1> QED BY <1>4, <1>5

LEMMA OpenDialog == ASSUME Inv, Dialog, Open PROVE Dialog'
<1>0. PICK m, l, e, f : /\ m = hist.n + 1 /\ l = hist.n + 2
                        /\ e = Call(m, "load", 0, Nobody, 0) /\ f = Call(l, "list", 0, Nobody, 0)
    OBVIOUS
<1>1. /\ calls' = calls \cup {e, f} /\ db' = db
      /\ ui' = [Closed EXCEPT !.open = TRUE, !.listing = TRUE, !.linkSent = m, !.listSent = l]
      /\ ~ui.open
    BY <1>0 DEF Open
<1>2. hist'.n = l
    BY <1>0 DEF Open, Inv, Minted
<1>3. Shown /\ hist.n \in Nat
    BY DEF Dialog, Shown
<1>4. /\ m \in Nat /\ l \in Nat /\ m # l /\ m # 0 /\ l # 0 /\ m \in 1..l /\ l \in 1..l
      /\ \A x \in 1..hist.n : x \in 1..l /\ x # m /\ x # l
    BY <1>0, <1>3
<1>5. /\ Fields \subseteq DOMAIN ui' /\ ui'.open /\ ~ui'.busy /\ ui'.linkSent = m /\ ui'.listSent = l
      /\ ui'.linkOf = 0 /\ ui'.listOf = 0
    BY <1>1 DEF Closed, Fields
<1>6. /\ DOMAIN e = {"n", "op", "ttl", "to", "id", "stage", "live", "ok", "link", "list"}
      /\ e.n = m /\ e.op = "load" /\ e.stage = "sent" /\ e.live /\ e.ok /\ e.link = NoLink
    BY <1>0 DEF Call
<1>7. /\ DOMAIN f = {"n", "op", "ttl", "to", "id", "stage", "live", "ok", "link", "list"}
      /\ f.n = l /\ f.op = "list" /\ f.stage = "sent" /\ f.live /\ f.ok /\ f.link = NoLink
    BY <1>0 DEF Call
<1>8. \A c \in calls : /\ Handled(c) /\ ~c.live /\ c.n \in 1..l /\ c.n # m /\ c.n # l
    BY <1>1, <1>4 DEF Handled, Dialog
<1>9. \A c \in calls : Handled(c)'
    BY <1>2, <1>5, <1>8 DEF Handled
<1>10. Handled(e)'
    BY <1>2, <1>4, <1>5, <1>6 DEF Handled, LinkOps
<1>11. Handled(f)'
    BY <1>2, <1>4, <1>5, <1>7 DEF Handled, ListOps, LinkOps
<1>12. Shown'
    <2>1. \A x \in {m, l, 0} : x \in 0..l
        BY <1>4
    <2> QED BY <1>2, <1>4, <1>5, <2>1 DEF Shown
<1>13. \A c, d \in calls' : c.n = d.n => c = d
    BY <1>1, <1>4, <1>6, <1>7, <1>8 DEF Dialog
<1> QED BY <1>1, <1>9, <1>10, <1>11, <1>12, <1>13 DEF Dialog

LEMMA CloseDialog == ASSUME Inv, Dialog, Close PROVE Dialog'
<1>1. /\ db' = db /\ hist' = hist /\ ui' = Closed
      /\ calls' = {[c EXCEPT !.live = FALSE] : c \in {c \in calls : c.stage # "done"}}
    BY DEF Close
<1>2. \A d \in calls' : \E c \in calls :
          /\ c.stage # "done" /\ DOMAIN d = DOMAIN c /\ d.n = c.n /\ d.op = c.op /\ d.stage = c.stage
          /\ d.ok = c.ok /\ ~d.live /\ d.link = c.link /\ d = [c EXCEPT !.live = FALSE]
    <2> TAKE d \in calls'
    <2>1. PICK c \in calls : c.stage # "done" /\ d = [c EXCEPT !.live = FALSE]
        BY <1>1
    <2>2. Handled(c)
        BY DEF Dialog
    <2> QED BY <2>1, <2>2 DEF Handled
<1>3. /\ Fields \subseteq DOMAIN ui' /\ ~ui'.open /\ ui'.linkSent = 0 /\ ui'.linkOf = 0
      /\ ui'.listSent = 0 /\ ui'.listOf = 0
    BY <1>1 DEF Closed, Fields
<1>4. ASSUME NEW d \in calls' PROVE Handled(d)'
    <2>1. PICK c \in calls :
              /\ c.stage # "done" /\ DOMAIN d = DOMAIN c /\ d.n = c.n /\ d.op = c.op /\ d.stage = c.stage
              /\ d.ok = c.ok /\ ~d.live /\ d.link = c.link
        BY <1>2, <1>4
    <2>2. Handled(c)
        BY DEF Dialog
    <2> QED BY <1>1, <1>3, <2>1, <2>2 DEF Handled
<1>5. Shown'
    BY <1>1, <1>3 DEF Dialog, Shown
<1>6. \A c, d \in calls' : c.n = d.n => c = d
    <2> SUFFICES ASSUME NEW d \in calls', NEW f \in calls', d.n = f.n PROVE d = f
        OBVIOUS
    <2>1. PICK c \in calls : d.n = c.n /\ d = [c EXCEPT !.live = FALSE]
        BY <1>2
    <2>2. PICK e \in calls : f.n = e.n /\ f = [e EXCEPT !.live = FALSE]
        BY <1>2
    <2>3. c = e
        BY <2>1, <2>2 DEF Dialog
    <2> QED BY <2>1, <2>2, <2>3
<1> QED BY <1>4, <1>5, <1>6 DEF Dialog

-----------------------------------------------------------------------------
(* Answers. *)

\* What is left of the requests after an answer, and of the one answered.
Left(c, ok, rest) ==
  /\ calls \ {c} \subseteq rest
  /\ \A d \in rest : \/ d \in calls /\ d # c
                     \/ ~ok /\ c.stage # "done" /\ d = [c EXCEPT !.live = FALSE]

LEMMA LeftIs ==
    ASSUME Dialog, NEW c \in calls, c.live, NEW ok, NEW rest, Left(c, ok, rest)
    PROVE  /\ \A d, e \in rest : d.n = e.n => d = e
           /\ \A d \in rest : \/ d \in calls /\ d # c /\ d.n # c.n
                              \/ /\ ~ok /\ DOMAIN d = DOMAIN c /\ d.n = c.n /\ d.op = c.op /\ ~d.live
                                 /\ d.stage = c.stage /\ d.stage # "done" /\ d.ok = c.ok /\ d.link = c.link
           /\ (c.op \notin Changes \/ ~c.ok) /\ Pending =>
                  \E d \in rest : d.live /\ d.op \in Changes /\ d.stage = "done" /\ d.ok
<1>1. Handled(c) /\ \A d \in calls : d # c => d.n # c.n
    BY DEF Dialog
<1>2. ASSUME NEW d \in rest
      PROVE  \/ d \in calls /\ d # c /\ d.n # c.n
             \/ /\ ~ok /\ DOMAIN d = DOMAIN c /\ d.n = c.n /\ d.op = c.op /\ ~d.live
                /\ d.stage = c.stage /\ d.stage # "done" /\ d.ok = c.ok /\ d.link = c.link
                /\ d = [c EXCEPT !.live = FALSE]
    <2>1. CASE d \in calls /\ d # c
        BY <1>1, <2>1
    <2>2. CASE ~ok /\ c.stage # "done" /\ d = [c EXCEPT !.live = FALSE]
        BY <1>1, <2>2 DEF Handled
    <2> QED BY <2>1, <2>2 DEF Left
<1>3. \A d, e \in rest : d.n = e.n => d = e
    <2> SUFFICES ASSUME NEW d \in rest, NEW e \in rest, d.n = e.n PROVE d = e
        OBVIOUS
    <2> QED BY <1>2 DEF Dialog
<1>4. (c.op \notin Changes \/ ~c.ok) /\ Pending =>
          \E d \in rest : d.live /\ d.op \in Changes /\ d.stage = "done" /\ d.ok
    BY DEF Pending, Left
<1> QED BY <1>2, <1>3, <1>4

LEMMA LinkAnswerDialog ==
    ASSUME Inv, Dialog, NEW c \in calls, c.live, NEW ok, ok => c.ok /\ c.stage = "done", NEW rest, Left(c, ok, rest),
           c.op \in LinkOps, LinkAnswer(c, ok), calls' = rest, db' = db
    PROVE  Dialog'
<1>1. Handled(c) /\ Shown
    BY DEF Dialog
<1>2. /\ Fields \subseteq DOMAIN ui' /\ hist' = hist
      /\ ui'.link = (IF ok THEN c.link ELSE ui.link) /\ ui'.linkOf = c.n
      /\ ui'.linkSent = ui.linkSent /\ ui'.open = ui.open /\ ui'.list = ui.list
      /\ ui'.listErr = ui.listErr /\ ui'.listSent = ui.listSent /\ ui'.listOf = ui.listOf
    BY <1>1 DEF LinkAnswer, Shown, Fields
<1>3. (ui'.err <=> ~ok) /\ (c.op = "load" => ui'.busy = ui.busy)
    BY <1>1 DEF LinkAnswer, Shown, Fields
<1>4. c.op \notin Changes /\ c.op # "list"
    BY DEF LinkOps, Changes
<1>5. Pending => Pending'
    BY <1>4, LeftIs DEF Pending
<1>6. ASSUME NEW d \in calls' PROVE Handled(d)'
    <2>1. CASE d \in calls /\ d # c /\ d.n # c.n
        <3>1. Handled(d)
            BY <2>1 DEF Dialog
        <3>2. d.live /\ d.op \in LinkOps \ {"load"} => c.op = "load"
            BY <1>1, <2>1, <3>1 DEF Handled
        <3> QED BY <1>2, <1>3, <1>5, <2>1, <3>1, <3>2 DEF Handled
    <2>2. CASE /\ ~ok /\ DOMAIN d = DOMAIN c /\ d.n = c.n /\ d.op = c.op /\ ~d.live
               /\ d.stage = c.stage /\ d.stage # "done" /\ d.ok = c.ok /\ d.link = c.link
        BY <1>1, <1>2, <1>3, <1>4, <2>2 DEF Handled
    <2> QED BY <2>1, <2>2, LeftIs
<1>7. Shown'
    <2>1. ui'.open /\ ~ui'.err /\ ui'.linkOf = ui'.linkSent /\ ~hist'.foreignLink => ui'.link = db'.link
        BY <1>1, <1>2, <1>3 DEF Handled
    <2>2. ui'.linkOf \in 0..hist'.n
        BY <1>1, <1>2 DEF Handled
    <2> QED BY <1>1, <1>2, <1>5, <2>1, <2>2 DEF Shown
<1>8. \A d, e \in calls' : d.n = e.n => d = e
    BY LeftIs
<1> QED BY <1>6, <1>7, <1>8 DEF Dialog

LEMMA ListAnswerDialog ==
    ASSUME Inv, Dialog, NEW c \in calls, c.live, NEW ok, ok => c.ok /\ c.stage = "done", NEW rest, Left(c, ok, rest),
           c.op = "list", ListAnswer(c, ok), calls' = rest, db' = db
    PROVE  Dialog'
<1>1. Handled(c) /\ Shown
    BY DEF Dialog
<1>2. /\ Fields \subseteq DOMAIN ui' /\ hist' = hist
      /\ ui'.list = (IF ok THEN c.list ELSE {}) /\ ui'.listOf = c.n
      /\ ui'.linkSent = ui.linkSent /\ ui'.open = ui.open /\ ui'.link = ui.link
      /\ ui'.err = ui.err /\ ui'.busy = ui.busy /\ ui'.listSent = ui.listSent /\ ui'.linkOf = ui.linkOf
    BY <1>1 DEF ListAnswer, Shown, Fields
<1>3. ui'.listErr <=> ~ok
    BY <1>1 DEF ListAnswer, Shown, Fields
<1>4. c.op \notin Changes /\ c.op \notin LinkOps
    BY DEF LinkOps, Changes
<1>5. Pending => Pending'
    BY <1>4, LeftIs DEF Pending
<1>6. ASSUME NEW d \in calls' PROVE Handled(d)'
    <2>1. CASE d \in calls /\ d # c /\ d.n # c.n
        <3>1. Handled(d)
            BY <2>1 DEF Dialog
        <3> QED BY <1>2, <1>3, <1>5, <2>1, <3>1 DEF Handled
    <2>2. CASE /\ ~ok /\ DOMAIN d = DOMAIN c /\ d.n = c.n /\ d.op = c.op /\ ~d.live
               /\ d.stage = c.stage /\ d.stage # "done" /\ d.ok = c.ok /\ d.link = c.link
        BY <1>1, <1>2, <1>3, <1>4, <2>2 DEF Handled
    <2> QED BY <2>1, <2>2, LeftIs
<1>7. Shown'
    <2>1. ui'.open /\ ~ui'.listErr /\ ui'.listOf = ui'.listSent /\ ~hist'.foreignShares
              => ui'.list = db'.shares \/ Pending'
        BY <1>1, <1>2, <1>3, <1>5 DEF Handled
    <2>2. ui'.listOf \in 0..hist'.n
        BY <1>1, <1>2 DEF Handled
    <2> QED BY <1>1, <1>2, <2>1, <2>2 DEF Shown
<1>8. \A d, e \in calls' : d.n = e.n => d = e
    BY LeftIs
<1> QED BY <1>6, <1>7, <1>8 DEF Dialog

LEMMA ShareAnswerDialog ==
    ASSUME Inv, Dialog, NEW c \in calls, c.live, NEW ok, ok => c.ok /\ c.stage = "done", NEW rest, Left(c, ok, rest),
           c.op \in Changes, ShareAnswer(c, ok), calls' = rest \cup FollowUp(c, ok), db' = db
    PROVE  Dialog'
<1>1. Handled(c) /\ Shown /\ hist.n \in Nat
    BY DEF Dialog, Shown
<1>2. CASE ok
    <2>0. PICK m, e : m = hist.n + 1 /\ e = Call(m, "list", 0, Nobody, IF c.op = "grant" THEN 1 ELSE 0)
        OBVIOUS
    <2>1. FollowUp(c, ok) = {e}
        BY <1>2, <2>0 DEF FollowUp, Changes
    <2>2. /\ calls' = rest \cup {e}
          /\ hist'.n = m /\ hist'.foreignLink = hist.foreignLink
          /\ ui' = [ui EXCEPT !.listing = TRUE, !.listErr = FALSE, !.listSent = m]
        BY <2>0, <2>1 DEF ShareAnswer, Inv, Minted
    <2>3. /\ Fields \subseteq DOMAIN ui' /\ ui'.listSent = m /\ ui'.listOf = ui.listOf
          /\ ui'.linkSent = ui.linkSent /\ ui'.open = ui.open /\ ui'.link = ui.link
          /\ ui'.err = ui.err /\ ui'.busy = ui.busy /\ ui'.linkOf = ui.linkOf
        BY <1>1, <2>2 DEF Shown, Fields
    <2>4. /\ m \in Nat /\ m \in 1..m /\ m \in 0..m
          /\ \A x \in 0..hist.n : x # m /\ x \in 0..m
          /\ \A x \in 1..hist.n : x # m /\ x \in 1..m
        BY <1>1, <2>0
    <2>5. /\ DOMAIN e = {"n", "op", "ttl", "to", "id", "stage", "live", "ok", "link", "list"}
          /\ e.n = m /\ e.op = "list" /\ e.stage = "sent" /\ e.live /\ e.ok /\ e.link = NoLink
        BY <2>0 DEF Call
    <2>6. \A d \in rest : d \in calls /\ Handled(d) /\ d.n # m
        BY <1>2, <2>4 DEF Left, Dialog, Handled
    <2>7. ui.linkSent # m /\ ui.listOf # m /\ ui.open
        BY <1>1, <2>4 DEF Shown, Handled
    <2>8. ASSUME NEW d \in rest PROVE Handled(d)'
        <3>1. Handled(d) /\ d.n # m
            BY <2>6
        <3> QED BY <2>2, <2>3, <2>4, <3>1 DEF Handled
    <2>9. Handled(e)'
        BY <2>2, <2>3, <2>4, <2>5, <2>7 DEF Handled, LinkOps, ListOps
    <2>10. Shown'
        <3>1. \A x \in {ui'.linkSent, ui'.linkOf, ui'.listSent, ui'.listOf} : x \in 0..m
            BY <1>1, <2>3, <2>4 DEF Shown
        <3> QED BY <1>1, <2>2, <2>3, <2>4, <2>7, <3>1 DEF Shown
    <2>11. \A d, f \in calls' : d.n = f.n => d = f
        BY <2>2, <2>5, <2>6, LeftIs
    <2> QED BY <2>2, <2>8, <2>9, <2>10, <2>11 DEF Dialog
<1>3. CASE ~ok
    <2>1. FollowUp(c, ok) = {}
        BY <1>3 DEF FollowUp
    <2>2. /\ calls' = rest /\ hist'.n = hist.n /\ hist'.foreignLink = hist.foreignLink
          /\ hist'.foreignShares = (hist.foreignShares \/ (c.ok /\ ~ok))
          /\ ui' = [ui EXCEPT !.adding = IF c.op = "grant" THEN FALSE ELSE @]
        BY <2>1 DEF ShareAnswer, Inv, Minted
    <2>3. /\ Fields \subseteq DOMAIN ui' /\ ui'.listSent = ui.listSent /\ ui'.listOf = ui.listOf
          /\ ui'.linkSent = ui.linkSent /\ ui'.open = ui.open /\ ui'.link = ui.link /\ ui'.list = ui.list
          /\ ui'.err = ui.err /\ ui'.busy = ui.busy /\ ui'.linkOf = ui.linkOf /\ ui'.listErr = ui.listErr
        BY <1>1, <2>2 DEF Shown, Fields
    <2>4. hist'.foreignShares \/ (~hist.foreignShares /\ (Pending => Pending'))
        <3>1. ~c.ok /\ Pending => Pending'
            BY <2>2, LeftIs DEF Pending
        <3>2. c.ok => hist'.foreignShares
            BY <1>3, <2>2
        <3>3. hist.foreignShares => hist'.foreignShares
            BY <2>2
        <3> QED BY <3>1, <3>2, <3>3
    <2>5. ASSUME NEW d \in rest PROVE Handled(d)'
        <3>1. CASE d \in calls /\ d # c /\ d.n # c.n
            <4>1. Handled(d)
                BY <3>1 DEF Dialog
            <4> QED BY <2>2, <2>3, <2>4, <4>1 DEF Handled
        <3>2. CASE /\ ~ok /\ DOMAIN d = DOMAIN c /\ d.n = c.n /\ d.op = c.op /\ ~d.live
                   /\ d.stage = c.stage /\ d.stage # "done" /\ d.ok = c.ok /\ d.link = c.link
            <4>1. c.op \notin LinkOps /\ c.op # "list"
                BY DEF Changes, LinkOps
            <4> QED BY <1>1, <2>2, <2>3, <3>2, <4>1 DEF Handled
        <3> QED BY <3>1, <3>2, LeftIs
    <2>6. Shown'
        BY <1>1, <2>2, <2>3, <2>4 DEF Shown
    <2>7. \A d, f \in calls' : d.n = f.n => d = f
        BY <2>2, LeftIs
    <2> QED BY <2>2, <2>5, <2>6, <2>7 DEF Dialog
<1> QED BY <1>2, <1>3

LEMMA ApplyDialog ==
    ASSUME Inv, Dialog, NEW c \in calls, c.live, NEW ok, ok => c.ok /\ c.stage = "done", NEW rest, Left(c, ok, rest),
           Apply(c, ok, rest), db' = db
    PROVE  Dialog'
<1>1. c.op \in LinkOps \cup ListOps
    BY DEF Dialog, Handled
<1>2. CASE c.op \in LinkOps
    <2>1. c.op \notin {"list", "grant", "ungrant"}
        BY <1>2 DEF LinkOps
    <2>2. FollowUp(c, ok) = {}
        BY <2>1 DEF FollowUp
    <2> QED BY <1>2, <2>1, <2>2, LinkAnswerDialog DEF Apply
<1>3. CASE c.op = "list"
    <2>1. c.op \notin LinkOps /\ FollowUp(c, ok) = {}
        BY <1>3 DEF FollowUp, LinkOps
    <2> QED BY <1>3, <2>1, ListAnswerDialog DEF Apply
<1>4. CASE c.op \in Changes
    <2>1. c.op \notin LinkOps /\ c.op # "list"
        BY <1>4 DEF Changes, LinkOps
    <2> QED BY <1>4, <2>1, ShareAnswerDialog DEF Apply
<1> QED BY <1>1, <1>2, <1>3, <1>4 DEF ListOps, Changes

LEMMA InitDialog == Init => Dialog
BY DEF Init, Dialog, Shown, Closed, Fields

LEMMA NextDialog == Inv /\ Dialog /\ [Next]_vars => Dialog'
<1> SUFFICES ASSUME Inv, Dialog, [Next]_vars PROVE Dialog'
    OBVIOUS
<1>1. ASSUME NEW c \in calls, Serve(c) /\ UNCHANGED <<ui, now, readers, left>> PROVE Dialog'
    BY <1>1, ServeDialog
<1>2. ASSUME NEW c \in calls, Refuse(c) /\ UNCHANGED <<ui, now, readers>> PROVE Dialog'
    BY <1>2, GoneDialog DEF Refuse
<1>3. ASSUME NEW c \in calls, Answer(c) PROVE Dialog'
    <2>1. c.stage = "done" /\ c.live /\ Apply(c, c.ok, calls \ {c}) /\ db' = db
        BY <1>3 DEF Answer, Dialog, Handled
    <2>2. Left(c, c.ok, calls \ {c})
        BY DEF Left
    <2> QED BY <2>1, <2>2, ApplyDialog
<1>4. ASSUME NEW c \in calls, Lose(c) PROVE Dialog'
    <2> DEFINE rest == (calls \ {c}) \cup {[d EXCEPT !.live = FALSE] : d \in {d \in {c} : d.stage # "done"}}
    <2>1. c.live /\ Apply(c, FALSE, rest) /\ db' = db
        BY <1>4 DEF Lose
    <2>2. Left(c, FALSE, rest)
        BY DEF Left
    <2> HIDE DEF rest
    <2> QED BY <2>1, <2>2, ApplyDialog
<1> QED BY <1>1, <1>2, <1>3, <1>4, ClickDialog, OpenDialog, CloseDialog, ElsewhereDialog, WorldDialog DEF Next, Reading

\* A dialog at rest is accurate (usePublicLink.ts:53, :67, :80, :93;
\* useShares.ts:84, :105, :113).
THEOREM RestingDialogsAreAccurate == Spec => []RestingDialogIsAccurate
<1>1. Dialog => RestingDialogIsAccurate
    BY DEF Dialog, Shown, Pending, RestingDialogIsAccurate, Awaited, Changes, ListOps
<1>2. Init => Inv /\ Dialog
    BY InitInv, InitDialog
<1>3. Inv /\ Dialog /\ [Next]_vars => (Inv /\ Dialog)'
    BY NextInv, NextDialog
<1> QED BY <1>1, <1>2, <1>3, PTL DEF Spec
=============================================================================
