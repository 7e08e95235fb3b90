--------------------------- MODULE SessionProofs ---------------------------
(***************************************************************************)
(* The safety properties of Session: for any provider, clock, themes, rate *)
(* limit and number of requests.                                           *)
(*                                                                         *)
(* After the types, and what each step does to the requests under way,     *)
(* there is one invariant for each property:                               *)
(*                                                                         *)
(*   LimiterInv  while attempts come in the order of their stamps, the     *)
(*               entries hold every admitted attempt of the window that    *)
(*               ends now, so that counting them counts those;             *)
(*   SurviveInv  with a provider that takes a refresh token many times,    *)
(*               every token anywhere is one it takes; with one that takes *)
(*               it once, one request at a time, either the cookie is, or  *)
(*               a request under way brings the one that replaces it;      *)
(*   ThemeInv    at most one change of theme is under way, the settings    *)
(*               page waits for that one, none is while the page loads,    *)
(*               and what is stored is on its way to cookie and card;      *)
(*   QuietInv    after the sign-out no request carries a session, and the  *)
(*               middleware makes none out of nothing.                     *)
(***************************************************************************)
EXTENDS Session, FiniteSetTheorems, TLAPS

-----------------------------------------------------------------------------
(* The rate limit. *)
Entries == [no : Nat, at : Nat]

LimiterInv(l) ==
  /\ l.entries \in SUBSET Entries /\ l.admitted \in SUBSET Entries
  /\ IsFiniteSet(l.entries) /\ IsFiniteSet(l.admitted)
  /\ l.count \in Nat /\ l.last \in Nat /\ l.ordered \in BOOLEAN
  /\ \A a \in l.entries \cup l.admitted : a.no < l.count /\ a.at <= l.last
  /\ l.ordered => \A a \in l.admitted : a.at + Window > l.last => a \in l.entries
  /\ Within(l)

\* The entries that are left hold every admitted attempt of the window that ends
\* now, and the new one is let in when they are fewer than the limit.
LEMMA WindowAtStamp ==
    ASSUME NEW l, LimiterInv(l), NEW stamp \in Nat, l.ordered, stamp >= l.last, Admits(l, stamp)
    PROVE  Cardinality(InWindow(Attempt(l, stamp), stamp)) <= MaxAttempts
<1> DEFINE this == [no |-> l.count, at |-> stamp]
           W == InWindow(Attempt(l, stamp), stamp)
<1> USE RateLimitAssumption
<1>1. Kept(l, stamp) \subseteq l.entries /\ IsFiniteSet(Kept(l, stamp))
    BY FS_Subset DEF Kept, LimiterInv
<1>2. Attempt(l, stamp).admitted = l.admitted \cup {this}
    BY DEF Attempt
<1> HIDE DEF this
<1>3. ASSUME NEW b \in W, b # this PROVE b \in Kept(l, stamp)
    <2>1. b \in l.admitted /\ b.at + Window > stamp
        BY <1>2, <1>3 DEF InWindow
    <2>2. b.at \in Nat /\ b.at + Window > l.last
        BY <2>1 DEF LimiterInv, Entries
    <2> QED BY <2>1, <2>2 DEF LimiterInv, Kept
<1>4. W \subseteq Kept(l, stamp) \cup {this}
    BY <1>3
<1>5. IsFiniteSet(Kept(l, stamp) \cup {this}) /\ Cardinality(Kept(l, stamp) \cup {this}) <= Cardinality(Kept(l, stamp)) + 1
    <2>1. Cardinality(Kept(l, stamp)) \in Nat
        BY <1>1, FS_CardinalityType
    <2>2. /\ IsFiniteSet(Kept(l, stamp) \cup {this})
          /\ \/ Cardinality(Kept(l, stamp) \cup {this}) = Cardinality(Kept(l, stamp))
             \/ Cardinality(Kept(l, stamp) \cup {this}) = Cardinality(Kept(l, stamp)) + 1
        BY <1>1, FS_AddElement, Zenon
    <2> QED BY <2>1, <2>2
<1>6. Cardinality(W) <= Cardinality(Kept(l, stamp) \cup {this}) /\ Cardinality(W) \in Nat
    BY <1>4, <1>5, FS_Subset, FS_CardinalityType
<1>7. Cardinality(Kept(l, stamp)) < MaxAttempts /\ Cardinality(Kept(l, stamp)) \in Nat /\ MaxAttempts \in Nat
      /\ Cardinality(Kept(l, stamp) \cup {this}) \in Nat
    BY <1>1, <1>5, FS_CardinalityType DEF Admits
<1> HIDE DEF W
<1>8. Cardinality(W) <= MaxAttempts
    BY <1>5, <1>6, <1>7
<1> QED BY <1>8 DEF W

LEMMA AttemptKeeps ==
    ASSUME NEW l, LimiterInv(l), NEW stamp \in Nat
    PROVE  LimiterInv(Attempt(l, stamp))
<1> DEFINE this == [no |-> l.count, at |-> stamp]
           m == Attempt(l, stamp)
<1> USE RateLimitAssumption
<1>1. Kept(l, stamp) \subseteq l.entries /\ IsFiniteSet(Kept(l, stamp))
    BY FS_Subset DEF Kept, LimiterInv
<1>2. /\ m.entries = Kept(l, stamp) \cup {this}
      /\ m.admitted = l.admitted \cup (IF Admits(l, stamp) THEN {this} ELSE {})
      /\ m.count = l.count + 1 /\ m.last = (IF stamp > l.last THEN stamp ELSE l.last)
      /\ m.ordered = (l.ordered /\ stamp >= l.last)
      /\ m.ordered => l.ordered /\ stamp >= l.last
    BY DEF Attempt
<1>3. this \in Entries /\ this.no = l.count /\ this.at = stamp
    BY DEF Entries, LimiterInv
<1> HIDE DEF this, m
<1>4. IsFiniteSet(m.entries) /\ IsFiniteSet(m.admitted)
    <2>1. IsFiniteSet(l.admitted)
        BY DEF LimiterInv
    <2>2. m.admitted = l.admitted \/ m.admitted = l.admitted \cup {this}
        BY <1>2
    <2>3. IsFiniteSet(Kept(l, stamp) \cup {this}) /\ IsFiniteSet(l.admitted \cup {this})
        BY <1>1, <2>1, FS_AddElement, Zenon
    <2> QED BY <1>2, <2>1, <2>2, <2>3
<1>5. m.entries \in SUBSET Entries /\ m.admitted \in SUBSET Entries
    BY <1>1, <1>2, <1>3 DEF LimiterInv
<1>6. m.count \in Nat /\ m.last \in Nat /\ m.ordered \in BOOLEAN
    BY <1>2 DEF LimiterInv
<1>7. \A a \in m.entries \cup m.admitted : a.no < m.count /\ a.at <= m.last
    <2> TAKE a \in m.entries \cup m.admitted
    <2>1. l.count \in Nat /\ l.last \in Nat
        BY DEF LimiterInv
    <2>2. CASE a = this
        BY <1>2, <1>3, <2>1, <2>2
    <2>3. CASE a \in l.entries \cup l.admitted
        <3>1. a.no < l.count /\ a.at <= l.last /\ a.no \in Nat /\ a.at \in Nat
            BY <2>3 DEF LimiterInv, Entries
        <3> QED BY <1>2, <2>1, <3>1
    <2> QED BY <1>1, <1>2, <2>2, <2>3
<1>8. ASSUME m.ordered, NEW a \in m.admitted, a.at + Window > m.last PROVE a \in m.entries
    <2>1. l.ordered /\ stamp >= l.last /\ m.last = stamp /\ l.last \in Nat
        <3>1. l.ordered /\ stamp >= l.last /\ l.last \in Nat
            BY <1>2, <1>8 DEF LimiterInv
        <3> QED BY <1>2, <3>1
    <2>2. CASE a \in l.admitted
        <3>1. a.at \in Nat /\ a.at + Window > l.last
            BY <1>8, <2>1, <2>2 DEF LimiterInv, Entries
        <3>2. a \in Kept(l, stamp)
            BY <1>8, <2>1, <2>2, <3>1 DEF LimiterInv, Kept
        <3> QED BY <1>2, <3>2
    <2> QED BY <1>2, <2>2
<1>9. ASSUME m.ordered, NEW a \in m.admitted PROVE Cardinality(InWindow(m, a.at)) <= MaxAttempts
    <2>1. l.ordered /\ stamp >= l.last /\ l.last \in Nat
        BY <1>2, <1>9 DEF LimiterInv
    <2>2. CASE Admits(l, stamp) /\ a.at = stamp
        BY <2>1, <2>2, WindowAtStamp DEF m
    <2>3. CASE ~(Admits(l, stamp) /\ a.at = stamp)
        <3>1. a \in l.admitted /\ a.at \in Nat /\ a.at <= l.last
            BY <1>2, <1>3, <1>9, <2>3 DEF LimiterInv, Entries
        <3>2. InWindow(m, a.at) = InWindow(l, a.at)
            BY <1>2, <1>3, <2>1, <2>3, <3>1 DEF InWindow
        <3> QED BY <2>1, <3>1, <3>2 DEF LimiterInv, Within
    <2> QED BY <2>2, <2>3
<1>10. Within(m) /\ (m.ordered => \A a \in m.admitted : a.at + Window > m.last => a \in m.entries)
    BY <1>8, <1>9 DEF Within
<1> QED BY <1>4, <1>5, <1>6, <1>7, <1>10 DEF LimiterInv, m

-----------------------------------------------------------------------------
(* Types, and what may be said of a request at each stage. *)
Tokens == [rt : Nat, exp : Nat, err : BOOLEAN]
Providers == [up : BOOLEAN, live : SUBSET Nat, next : Nat, rotates : BOOLEAN]
Flags == [lost : BOOLEAN, ended : BOOLEAN, raced : BOOLEAN, crossed : BOOLEAN, quiet : BOOLEAN]
Goals == Pages \cup {"", "ok", "refused", "failed", "limited"}
Requests ==
  [n : Nat, op : {"nav", "api", "put", "callback", "signout", "other"}, path : Pages \cup {""},
   theme : Themes, sent : Tokens \cup {NoSession}, look : Themes \cup {NoTheme},
   stage : {"sent", "handler", "guard", "done"}, set : Tokens \cup {Keep, NoSession},
   setLook : Themes \cup {Keep}, go : Goals,
   card : Themes, stamp : Nat]

\* What a request may be at each stage.
Staged(c) ==
  /\ c.stage # "done" => c.go = ""
  /\ c.stage = "sent" => c.set = Keep
  /\ c.stage = "guard" => c.op \in {"callback", "other"}
  /\ c.op = "other" => c.set = Keep
  /\ c.op = "nav" => c.path \in Pages /\ (c.stage = "done" => c.go \in Pages)
  /\ c.op \in {"api", "put", "other"} => c.go \notin Pages
  /\ c.op = "signout" /\ c.go = "home" => c.set = NoSession
  /\ c.go = "settings" => c.op = "nav" /\ c.path = "settings"
  /\ c.setLook # Keep <=> c.op = "put" /\ c.go = "ok"
  /\ c.setLook # Keep => c.setLook = c.theme

TypeInv ==
  /\ now \in Nat /\ provider \in Providers /\ row \in Themes \cup {NoRow}
  /\ LimiterInv(limiter)
  /\ cookie \in Tokens \cup {NoSession} /\ look \in Themes \cup {NoTheme}
  /\ tab \in [at : Pages, loading : BOOLEAN, theme : Themes, active : Themes, put : Nat]
  /\ calls \in SUBSET Requests /\ \A c \in calls : Staged(c)
  /\ past \in Flags
  /\ left \in [sends : Nat, trouble : Nat]

-----------------------------------------------------------------------------
(* What each step does to the requests. *)

\* The session is the one asked with, or a refresh of it.
LEMMA SessionsGive ==
    ASSUME TypeInv, NEW t \in Tokens \cup {NoSession}, NEW s \in Sessions(t)
    PROVE  /\ s.token \in Tokens \cup {NoSession} /\ s.provider \in Providers
           /\ s.trouble \in {0, 1} /\ s.trouble <= left.trouble
           /\ s.token = NoSession <=> t = NoSession
           /\ \/ s.provider = provider /\ (t # NoSession => s.token.rt = t.rt)
              \/ /\ t # NoSession /\ s.provider = Issue(t.rt)
                 /\ s.trouble = 1 \/ s.token.rt = provider.next
<1> USE SessionAssumption
<1>1. CASE t = NoSession
    BY <1>1 DEF Sessions, TypeInv
<1>2. CASE t # NoSession
    <2>1. t \in Tokens /\ NoSession \notin Tokens /\ now + Life \in Nat
        BY <1>2 DEF Tokens, TypeInv
    <2>2. provider \in Providers /\ left.trouble \in Nat
        BY DEF TypeInv
    <2>3. Issue(t.rt) \in Providers
        <3> DEFINE live == (IF provider.rotates THEN provider.live \ {t.rt} ELSE provider.live) \cup {provider.next}
        <3>1. live \in SUBSET Nat /\ provider.next + 1 \in Nat
            BY <2>2 DEF Providers
        <3>2. Issue(t.rt) = [provider EXCEPT !.live = live, !.next = provider.next + 1]
            BY DEF Issue
        <3> HIDE DEF live
        <3> QED BY <2>2, <3>1, <3>2 DEF Providers
    <2>4. Refreshed(t) \in Tokens /\ Refreshed(t).rt = provider.next
        BY <2>1, <2>2 DEF Refreshed, Tokens, Providers
    <2> DEFINE e == [t EXCEPT !.err = TRUE]
    <2>5. e \in Tokens /\ e.rt = t.rt
        BY <2>1 DEF Tokens
    <2> HIDE DEF e
    <2>6. \/ s.token = t /\ s.provider = provider /\ s.trouble = 0
          \/ s.token = Refreshed(t) /\ s.provider = Issue(t.rt) /\ s.trouble = 0
          \/ left.trouble # 0 /\ s.token = e /\ s.provider = Issue(t.rt) /\ s.trouble = 1
          \/ s.token = e /\ s.provider = provider /\ s.trouble = 0
        <3>1. \/ s = [token |-> t, provider |-> provider, trouble |-> 0]
              \/ s = [token |-> Refreshed(t), provider |-> Issue(t.rt), trouble |-> 0]
              \/ left.trouble # 0 /\ s = [token |-> e, provider |-> Issue(t.rt), trouble |-> 1]
              \/ s = [token |-> e, provider |-> provider, trouble |-> 0]
            BY <1>2 DEF Sessions, e
        <3> QED BY <3>1
    <2>7. CASE s.token = t /\ s.provider = provider /\ s.trouble = 0
        BY <1>2, <2>1, <2>2, <2>7
    <2>8. CASE s.token = Refreshed(t) /\ s.provider = Issue(t.rt) /\ s.trouble = 0
        <3>1. s.token \in Tokens /\ s.token # NoSession /\ s.provider \in Providers
            BY <2>1, <2>3, <2>4, <2>8
        <3> QED BY <1>2, <2>2, <2>4, <2>8, <3>1
    <2>9. CASE left.trouble # 0 /\ s.token = e /\ s.provider = Issue(t.rt) /\ s.trouble = 1
        BY <1>2, <2>1, <2>2, <2>3, <2>5, <2>9
    <2>10. CASE s.token = e /\ s.provider = provider /\ s.trouble = 0
        BY <1>2, <2>1, <2>2, <2>5, <2>10
    <2> QED BY <2>6, <2>7, <2>8, <2>9, <2>10
<1> QED BY <1>1, <1>2

LEMMA AskDoes ==
    ASSUME TypeInv, NEW t \in Tokens \cup {NoSession}, NEW s \in Sessions(t), NEW kept \in BOOLEAN, Ask(s, kept)
    PROVE  /\ provider' = s.provider /\ provider' \in Providers
           /\ left' \in [sends : Nat, trouble : Nat] /\ past' \in Flags
           /\ past'.lost <=> past.lost \/ s.trouble > 0
           /\ past'.raced <=> past.raced \/ (~kept /\ s.provider # provider)
           /\ past'.ended = past.ended /\ past'.crossed = past.crossed /\ past'.quiet = past.quiet
<1>1. /\ s.provider \in Providers /\ s.trouble \in {0, 1} /\ s.trouble <= left.trouble
      /\ left \in [sends : Nat, trouble : Nat] /\ past \in Flags
    BY SessionsGive DEF TypeInv
<1>2. provider' = s.provider /\ left' = [left EXCEPT !.trouble = @ - s.trouble]
    BY DEF Ask
<1>3. left' \in [sends : Nat, trouble : Nat]
    BY <1>1, <1>2
<1>4. past' = [past EXCEPT !.lost = @ \/ s.trouble > 0,
                          !.raced = @ \/ (~kept /\ s.provider # provider)]
    BY DEF Ask
<1>5. past' \in Flags /\ past'.ended = past.ended /\ past'.crossed = past.crossed /\ past'.quiet = past.quiet
      /\ past'.lost = (past.lost \/ s.trouble > 0)
      /\ past'.raced = (past.raced \/ (~kept /\ s.provider # provider))
    BY <1>1, <1>4 DEF Flags
<1> QED BY <1>1, <1>2, <1>3, <1>5 DEF Flags

\* d is what c becomes when the server works on it.
Further(c, d) ==
  /\ d \in Requests /\ Staged(d) /\ c.stage # "done" /\ d.stage # "sent"
  /\ d.n = c.n /\ d.op = c.op /\ d.path = c.path /\ d.sent = c.sent

LEMMA RequestFields ==
    ASSUME TypeInv, NEW c \in calls
    PROVE  c \in Requests /\ Staged(c) /\ c.sent \in Tokens \cup {NoSession} /\ c.stamp \in Nat
BY DEF TypeInv, Requests

LEMMA DoneFields ==
    ASSUME NEW c \in Requests, NEW go \in Goals
    PROVE  /\ Done(c, go) \in Requests
           /\ Done(c, go).n = c.n /\ Done(c, go).op = c.op /\ Done(c, go).path = c.path
           /\ Done(c, go).sent = c.sent /\ Done(c, go).set = c.set /\ Done(c, go).card = c.card
           /\ Done(c, go).theme = c.theme /\ Done(c, go).setLook = c.setLook
           /\ Done(c, go).stage = "done" /\ Done(c, go).go = go
<1> DEFINE b == [c EXCEPT !.stage = "done"]
<1>1. /\ b \in Requests /\ b.n = c.n /\ b.op = c.op /\ b.path = c.path /\ b.sent = c.sent /\ b.set = c.set
      /\ b.card = c.card /\ b.theme = c.theme /\ b.setLook = c.setLook /\ b.stage = "done"
    BY DEF Requests
<1>2. Done(c, go) = [b EXCEPT !.go = go]
    BY DEF Done, Requests
<1> HIDE DEF b
<1> DEFINE d == [b EXCEPT !.go = go]
<1>3. /\ d \in Requests /\ d.n = b.n /\ d.op = b.op /\ d.path = b.path /\ d.sent = b.sent /\ d.set = b.set
      /\ d.card = b.card /\ d.theme = b.theme /\ d.setLook = b.setLook /\ d.stage = b.stage /\ d.go = go
    BY <1>1 DEF Requests
<1> HIDE DEF d
<1> QED BY <1>1, <1>2, <1>3 DEF d

LEMMA MiddlewareDoes ==
    ASSUME TypeInv, NEW c \in calls, Middleware(c)
    PROVE  \E s \in Sessions(c.sent), d \in Requests :
             /\ Ask(s, TRUE) /\ Becomes(c, d) /\ Further(c, d)
             /\ c.stage = "sent" /\ c.op # "other"
             /\ d.set = IF s.token = NoSession THEN Keep ELSE s.token
             /\ d.card = c.card /\ d.theme = c.theme /\ d.setLook = Keep
             /\ d.op = "put" => d.go # "ok"
             /\ d.go # "settings" /\ (d.op = "signout" => d.go # "home")
<1>1. PICK s \in Sessions(c.sent) : Ask(s, TRUE) /\ Becomes(c, Routed(c, s.token))
    BY DEF Middleware
<1>2. c \in Requests /\ Staged(c) /\ c.stage = "sent" /\ c.op # "other" /\ s.token \in Tokens \cup {NoSession}
    BY RequestFields, SessionsGive DEF Middleware
<1> DEFINE set == IF s.token = NoSession THEN Keep ELSE s.token
           e == [c EXCEPT !.set = set]
           d == Routed(c, s.token)
<1>3. set \in Tokens \cup {Keep, NoSession}
    BY <1>2
<1> HIDE DEF set
<1>4. e \in Requests
    BY <1>2, <1>3 DEF Requests
<1>5. /\ e.n = c.n /\ e.op = c.op /\ e.path = c.path /\ e.sent = c.sent /\ e.stage = "sent" /\ e.go = ""
      /\ e.set = set /\ e.card = c.card /\ e.theme = c.theme /\ e.setLook = Keep /\ c.setLook = Keep
    BY <1>2, <1>3 DEF Requests, Staged
<1> HIDE DEF e
<1>6. \/ d = Done(e, "login") /\ c.op \in {"nav", "signout"}
      \/ d = Done(e, "dashboard") /\ c.op = "nav"
      \/ d = Done(e, "refused") /\ c.op \in {"api", "put"}
      \/ d = [e EXCEPT !.stage = "handler"]
    BY <1>2, <1>5 DEF Routed, e, set
<1> HIDE DEF d
<1>7. /\ d \in Requests /\ d.n = e.n /\ d.op = e.op /\ d.path = e.path /\ d.sent = e.sent /\ d.set = set
      /\ d.card = e.card /\ d.theme = e.theme /\ d.setLook = Keep
      /\ \/ d.stage = "done" /\ d.go = "login" /\ c.op \in {"nav", "signout"}
         \/ d.stage = "done" /\ d.go = "dashboard" /\ c.op = "nav"
         \/ d.stage = "done" /\ d.go = "refused" /\ c.op \in {"api", "put"}
         \/ d.stage = "handler" /\ d.go = ""
    <2>1. ASSUME NEW go \in {"login", "dashboard", "refused"}
          PROVE  /\ Done(e, go) \in Requests
                 /\ Done(e, go).n = e.n /\ Done(e, go).op = e.op /\ Done(e, go).path = e.path
                 /\ Done(e, go).sent = e.sent /\ Done(e, go).set = e.set /\ Done(e, go).card = e.card
                 /\ Done(e, go).theme = e.theme /\ Done(e, go).setLook = e.setLook
                 /\ Done(e, go).stage = "done" /\ Done(e, go).go = go
        BY <1>4, <2>1, DoneFields DEF Pages, Goals
    <2> DEFINE h == [e EXCEPT !.stage = "handler"]
    <2>2. /\ h \in Requests /\ h.n = e.n /\ h.op = e.op /\ h.path = e.path /\ h.sent = e.sent /\ h.set = e.set
          /\ h.card = e.card /\ h.theme = e.theme /\ h.setLook = e.setLook /\ h.stage = "handler" /\ h.go = e.go
        BY <1>4 DEF Requests, Goals
    <2> HIDE DEF h
    <2>3. CASE d = h
        BY <1>5, <2>2, <2>3
    <2>4. ASSUME NEW go \in {"login", "dashboard", "refused"}, d = Done(e, go),
                 \/ go = "login" /\ c.op \in {"nav", "signout"}
                 \/ go = "dashboard" /\ c.op = "nav"
                 \/ go = "refused" /\ c.op \in {"api", "put"}
          PROVE  /\ d \in Requests /\ d.n = e.n /\ d.op = e.op /\ d.path = e.path /\ d.sent = e.sent /\ d.set = set
                 /\ d.card = e.card /\ d.theme = e.theme /\ d.setLook = Keep
                 /\ \/ d.stage = "done" /\ d.go = "login" /\ c.op \in {"nav", "signout"}
                    \/ d.stage = "done" /\ d.go = "dashboard" /\ c.op = "nav"
                    \/ d.stage = "done" /\ d.go = "refused" /\ c.op \in {"api", "put"}
                    \/ d.stage = "handler" /\ d.go = ""
        <3>1. /\ d \in Requests /\ d.n = e.n /\ d.op = e.op /\ d.path = e.path /\ d.sent = e.sent /\ d.set = e.set
              /\ d.card = e.card /\ d.theme = e.theme /\ d.setLook = e.setLook /\ d.stage = "done" /\ d.go = go
            BY <2>1, <2>4
        <3> QED BY <1>5, <2>4, <3>1
    <2> QED BY <1>6, <2>3, <2>4 DEF h
<1>8. Staged(d)
    BY <1>2, <1>5, <1>7 DEF Staged, Pages, Goals
<1>9. Further(c, d)
    BY <1>2, <1>5, <1>7, <1>8 DEF Further
<1> QED BY <1>1, <1>2, <1>5, <1>7, <1>9 DEF set, d

LEMMA RenderDoes ==
    ASSUME TypeInv, NEW c \in calls, Render(c)
    PROVE  \E s \in Sessions(c.sent), d \in Requests :
             /\ Ask(s, FALSE) /\ Becomes(c, d) /\ Further(c, d)
             /\ d.set = c.set /\ d.op = "nav" /\ d.setLook = Keep
             /\ d.go = "settings" => c.sent # NoSession /\ (row # NoRow => d.card = row)
<1>1. PICK s \in Sessions(c.sent) :
        /\ Ask(s, FALSE)
        /\ Becomes(c, [Done(c, Shows(c.path, s.token)) EXCEPT
                        !.theme = ThemeOf(c, s.token), !.card = IF row = NoRow THEN Default ELSE row])
    BY DEF Render
<1> DEFINE go == Shows(c.path, s.token)
           theme == ThemeOf(c, s.token)
           card == IF row = NoRow THEN Default ELSE row
           d == [Done(c, go) EXCEPT !.theme = theme, !.card = card]
<1>2. /\ c \in Requests /\ Staged(c) /\ c.stage = "handler" /\ c.op = "nav"
      /\ s.token \in Tokens \cup {NoSession} /\ (s.token = NoSession <=> c.sent = NoSession)
    BY RequestFields, SessionsGive DEF Render
<1>3. theme \in Themes /\ card \in Themes
    BY <1>2, SessionAssumption DEF ThemeOf, Requests, TypeInv
<1>4. c.path \in Pages /\ go \in Pages /\ (go = "settings" => c.path = "settings" /\ c.sent # NoSession)
    BY <1>2 DEF Staged, Shows, Pages, Goals
<1>5. row # NoRow => card = row
    OBVIOUS
<1> HIDE DEF go, theme, card
<1>6. /\ d \in Requests /\ d.n = c.n /\ d.op = c.op /\ d.path = c.path /\ d.sent = c.sent /\ d.set = c.set
      /\ d.card = card /\ d.theme = theme /\ d.setLook = c.setLook /\ d.stage = "done" /\ d.go = go
    BY <1>2, <1>3, <1>4 DEF Done, Requests, Goals
<1> HIDE DEF d
<1>7. Staged(d) /\ d.setLook = Keep
    BY <1>2, <1>4, <1>6 DEF Staged
<1>8. Further(c, d)
    BY <1>2, <1>6, <1>7 DEF Further
<1> QED BY <1>1, <1>2, <1>4, <1>5, <1>6, <1>7, <1>8 DEF d, go, theme, card

LEMMA ServeApiDoes ==
    ASSUME TypeInv, NEW c \in calls, ServeApi(c)
    PROVE  \E s \in Sessions(c.sent), d \in Requests :
             /\ Ask(s, FALSE) /\ Becomes(c, d) /\ Further(c, d)
             /\ d.set = c.set /\ d.op = "api" /\ d.setLook = Keep
<1>1. PICK s \in Sessions(c.sent) : Ask(s, FALSE) /\ Becomes(c, Done(c, "ok"))
    BY DEF ServeApi
<1> DEFINE d == Done(c, "ok")
<1>2. c \in Requests /\ Staged(c) /\ c.stage = "handler" /\ c.op = "api"
    BY RequestFields DEF ServeApi
<1>3. /\ d \in Requests /\ d.n = c.n /\ d.op = c.op /\ d.path = c.path /\ d.sent = c.sent /\ d.set = c.set
      /\ d.card = c.card /\ d.theme = c.theme /\ d.setLook = c.setLook /\ d.stage = "done" /\ d.go = "ok"
    BY <1>2 DEF Done, Requests, Goals
<1> HIDE DEF d
<1>4. Staged(d) /\ d.setLook = Keep
    BY <1>2, <1>3 DEF Staged, Pages, Goals
<1>5. Further(c, d)
    BY <1>2, <1>3, <1>4 DEF Further
<1> QED BY <1>1, <1>2, <1>3, <1>4, <1>5 DEF d

LEMMA PutThemeDoes ==
    ASSUME TypeInv, NEW c \in calls, PutTheme(c)
    PROVE  \E s \in Sessions(c.sent), d \in Requests :
             /\ Ask(s, FALSE) /\ Becomes(c, d) /\ Further(c, d)
             /\ d.set = c.set /\ d.op = "put" /\ d.stage = "done" /\ d.theme = c.theme
             /\ \/ d.go = "ok" /\ d.setLook = d.theme /\ row' = d.theme /\ d.theme \in Themes
                \/ d.go # "ok" /\ d.setLook = Keep /\ row' = row
<1>1. PICK s \in Sessions(c.sent) :
        /\ Ask(s, FALSE)
        /\ \/ row' = c.theme /\ Becomes(c, [Done(c, "ok") EXCEPT !.setLook = c.theme])
           \/ row' = row /\ Becomes(c, Done(c, "failed"))
    BY DEF PutTheme
<1>2. c \in Requests /\ Staged(c) /\ c.stage = "handler" /\ c.op = "put" /\ c.theme \in Themes
    BY RequestFields DEF PutTheme, Requests
<1>3. CASE row' = c.theme /\ Becomes(c, [Done(c, "ok") EXCEPT !.setLook = c.theme])
    <2> DEFINE d == [Done(c, "ok") EXCEPT !.setLook = c.theme]
    <2>1. /\ d \in Requests /\ d.n = c.n /\ d.op = c.op /\ d.path = c.path /\ d.sent = c.sent /\ d.set = c.set
          /\ d.card = c.card /\ d.theme = c.theme /\ d.setLook = c.theme /\ d.stage = "done" /\ d.go = "ok"
        BY <1>2 DEF Done, Requests, Goals
    <2> HIDE DEF d
    <2>2. Staged(d)
        BY <1>2, <2>1, SessionAssumption DEF Staged, Pages, Goals
    <2>3. Further(c, d)
        BY <1>2, <2>1, <2>2 DEF Further
    <2> QED BY <1>1, <1>2, <1>3, <2>1, <2>3 DEF d
<1>4. CASE row' = row /\ Becomes(c, Done(c, "failed"))
    <2> DEFINE d == Done(c, "failed")
    <2>1. /\ d \in Requests /\ d.n = c.n /\ d.op = c.op /\ d.path = c.path /\ d.sent = c.sent /\ d.set = c.set
          /\ d.card = c.card /\ d.theme = c.theme /\ d.setLook = c.setLook /\ d.stage = "done" /\ d.go = "failed"
        BY <1>2 DEF Done, Requests, Goals
    <2> HIDE DEF d
    <2>2. Staged(d) /\ d.setLook = Keep
        BY <1>2, <2>1 DEF Staged, Pages, Goals
    <2>3. Further(c, d)
        BY <1>2, <2>1, <2>2 DEF Further
    <2> QED BY <1>1, <1>2, <1>4, <2>1, <2>2, <2>3 DEF d
<1> QED BY <1>1, <1>3, <1>4

LEMMA EndSessionDoes ==
    ASSUME TypeInv, NEW c \in calls, EndSession(c)
    PROVE  \E d \in Requests :
             /\ Becomes(c, d) /\ Further(c, d)
             /\ d.set = NoSession /\ d.op = "signout" /\ d.setLook = Keep /\ d.go = "home"
<1> DEFINE d == [Done(c, "home") EXCEPT !.set = NoSession]
<1>1. c \in Requests /\ Staged(c) /\ c.stage = "handler" /\ c.op = "signout" /\ Becomes(c, d)
    BY RequestFields DEF EndSession
<1>2. /\ d \in Requests /\ d.n = c.n /\ d.op = c.op /\ d.path = c.path /\ d.sent = c.sent /\ d.set = NoSession
      /\ d.card = c.card /\ d.theme = c.theme /\ d.setLook = c.setLook /\ d.stage = "done" /\ d.go = "home"
    BY <1>1 DEF Done, Requests, Pages, Goals
<1> HIDE DEF d
<1>3. Staged(d) /\ d.setLook = Keep
    BY <1>1, <1>2 DEF Staged, Pages, Goals
<1>4. Further(c, d)
    BY <1>1, <1>2, <1>3 DEF Further
<1> QED BY <1>1, <1>2, <1>3, <1>4

LEMMA GuardDoes ==
    ASSUME TypeInv, NEW c \in calls, Guard(c)
    PROVE  \E d \in Requests :
             /\ Becomes(c, d) /\ Further(c, d)
             /\ d.set = c.set /\ d.op \in {"callback", "other"} /\ d.setLook = Keep /\ d.go = ""
<1> DEFINE d == [c EXCEPT !.stage = "guard", !.stamp = now]
<1>1. /\ c \in Requests /\ Staged(c) /\ c.stage \in {"handler", "sent"} /\ c.op \in {"callback", "other"}
      /\ Becomes(c, d) /\ now \in Nat
    BY RequestFields DEF Guard, TypeInv
<1>2. /\ d \in Requests /\ d.n = c.n /\ d.op = c.op /\ d.path = c.path /\ d.sent = c.sent /\ d.set = c.set
      /\ d.card = c.card /\ d.theme = c.theme /\ d.setLook = c.setLook /\ d.stage = "guard" /\ d.go = c.go
    BY <1>1 DEF Requests
<1> HIDE DEF d
<1>3. Staged(d) /\ d.setLook = Keep /\ d.go = ""
    BY <1>1, <1>2 DEF Staged, Pages, Goals
<1>4. Further(c, d)
    BY <1>1, <1>2, <1>3 DEF Further
<1> QED BY <1>1, <1>2, <1>3, <1>4

LEMMA CallbackDoes ==
    ASSUME TypeInv, NEW c \in calls, Callback(c)
    PROVE  \E d \in Requests :
             /\ Becomes(c, d) /\ Further(c, d)
             /\ d.op \in {"callback", "other"} /\ d.setLook = Keep /\ d.go # "settings"
             /\ \/ d.set = c.set /\ UNCHANGED <<provider, row>>
                \/ /\ d.op = "callback" /\ d.set \in Tokens /\ d.set.rt = provider.next
                   /\ provider' = [provider EXCEPT !.live = @ \cup {provider.next}, !.next = @ + 1]
                   /\ row' = IF row = NoRow THEN Default ELSE row
<1>1. c \in Requests /\ Staged(c) /\ c.stage = "guard" /\ c.op \in {"callback", "other"} /\ c.setLook = Keep
    BY RequestFields DEF Callback, Staged
<1>2. ASSUME NEW go \in {"limited", "loginError"}, c.op = "other" => go = "limited",
             Becomes(c, [Done(c, go) EXCEPT !.stamp = 0]), UNCHANGED <<provider, row>>
      PROVE  \E d \in Requests :
                /\ Becomes(c, d) /\ Further(c, d) /\ d.set = c.set
                /\ d.op \in {"callback", "other"} /\ d.setLook = Keep /\ d.go # "settings"
    <2> DEFINE d == [Done(c, go) EXCEPT !.stamp = 0]
    <2>1. /\ d \in Requests /\ d.n = c.n /\ d.op = c.op /\ d.path = c.path /\ d.sent = c.sent /\ d.set = c.set
          /\ d.card = c.card /\ d.theme = c.theme /\ d.setLook = c.setLook /\ d.stage = "done" /\ d.go = go
        <3> DEFINE b == Done(c, go)
        <3>1. go \in Goals
            BY <1>2 DEF Pages, Goals
        <3>2. /\ b \in Requests /\ b.n = c.n /\ b.op = c.op /\ b.path = c.path /\ b.sent = c.sent /\ b.set = c.set
              /\ b.card = c.card /\ b.theme = c.theme /\ b.setLook = c.setLook /\ b.stage = "done" /\ b.go = go
            BY <1>1, <3>1, DoneFields
        <3>3. d = [b EXCEPT !.stamp = 0]
            OBVIOUS
        <3> HIDE DEF b, d
        <3> QED BY <3>2, <3>3 DEF Requests
    <2> HIDE DEF d
    <2>2. Staged(d)
        BY <1>1, <1>2, <2>1 DEF Staged, Pages, Goals
    <2>3. Further(c, d)
        BY <1>1, <2>1, <2>2 DEF Further
    <2> QED BY <1>1, <1>2, <2>1, <2>3 DEF d
<1>3. ASSUME c.op = "callback", Becomes(c, [Done(c, "dashboard") EXCEPT
                                   !.stamp = 0, !.set = Token(provider.next, now + Life)])
      PROVE  \E d \in Requests :
                /\ Becomes(c, d) /\ Further(c, d)
                /\ d.op = "callback" /\ d.setLook = Keep /\ d.go # "settings"
                /\ d.set \in Tokens /\ d.set.rt = provider.next
    <2> DEFINE t == Token(provider.next, now + Life)
               d == [Done(c, "dashboard") EXCEPT !.stamp = 0, !.set = t]
    <2>1. t \in Tokens /\ t.rt = provider.next
        BY SessionAssumption DEF Token, Tokens, TypeInv, Providers
    <2> HIDE DEF t
    <2>2. /\ d \in Requests /\ d.n = c.n /\ d.op = c.op /\ d.path = c.path /\ d.sent = c.sent /\ d.set = t
          /\ d.card = c.card /\ d.theme = c.theme /\ d.setLook = c.setLook /\ d.stage = "done" /\ d.go = "dashboard"
        <3> DEFINE b == Done(c, "dashboard")
        <3>1. "dashboard" \in Goals
            BY DEF Pages, Goals
        <3>2. /\ b \in Requests /\ b.n = c.n /\ b.op = c.op /\ b.path = c.path /\ b.sent = c.sent
              /\ b.card = c.card /\ b.theme = c.theme /\ b.setLook = c.setLook /\ b.stage = "done"
              /\ b.go = "dashboard"
            BY <1>1, <3>1, DoneFields
        <3>3. d = [b EXCEPT !.stamp = 0, !.set = t]
            OBVIOUS
        <3> HIDE DEF b, d
        <3> QED BY <2>1, <3>2, <3>3 DEF Requests
    <2> HIDE DEF d
    <2>3. Staged(d)
        BY <1>1, <1>3, <2>2 DEF Staged, Pages, Goals
    <2>4. Further(c, d)
        BY <1>1, <2>2, <2>3 DEF Further
    <2> QED BY <1>1, <1>3, <2>1, <2>2, <2>4 DEF d, t
<1> QED BY <1>1, <1>2, <1>3 DEF Callback

TabSet == [at : Pages, loading : BOOLEAN, theme : Themes, active : Themes, put : Nat]
\* The requests that move the browser to another page.
Moves == {"nav", "callback", "signout"}

\* A request just sent.
Fresh(d, op, path) ==
  /\ d \in Requests /\ Staged(d) /\ d.op = op /\ d.path = path
  /\ d.stage = "sent" /\ d.set = Keep /\ d.setLook = Keep /\ d.go = ""

LEMMA OneLess ==
    ASSUME NEW l \in [sends : Nat, trouble : Nat], l.sends > 0
    PROVE  l.sends \in Nat /\ [l EXCEPT !.sends = @ - 1] \in [sends : Nat, trouble : Nat]
OBVIOUS

LEMMA SendDoes ==
    ASSUME TypeInv,
           NEW op \in {"nav", "api", "put", "callback", "signout", "other"}, NEW path \in Pages \cup {""},
           op = "nav" => path \in Pages, NEW theme \in Themes, NEW next \in TabSet, Send(op, path, theme, next)
    PROVE  /\ \E d : /\ calls' = calls \cup {d} /\ Fresh(d, op, path) /\ d.sent = cookie
                     /\ d.n = left.sends /\ d.theme = theme
           /\ tab' = next /\ left.sends \in Nat /\ left.sends > 0
           /\ left' \in [sends : Nat, trouble : Nat] /\ past' \in Flags
           /\ past'.lost = past.lost /\ past'.ended = past.ended /\ past'.quiet = past.quiet
           /\ past'.raced <=> past.raced \/ \E c \in calls : c.op # "other"
           /\ past'.crossed <=> past.crossed \/ (Puts # {} /\ (op = "put" \/ path = "settings"))
           /\ UNCHANGED <<now, provider, row, limiter, cookie, look>>
<1> DEFINE d == Call(left.sends, op, path, theme)
<1>1. /\ left \in [sends : Nat, trouble : Nat] /\ past \in Flags /\ Default \in Themes
      /\ cookie \in Tokens \cup {NoSession} /\ look \in Themes \cup {NoTheme}
    BY SessionAssumption DEF TypeInv
<1>2. /\ left.sends > 0 /\ left' = [left EXCEPT !.sends = @ - 1] /\ calls' = calls \cup {d} /\ tab' = next
      /\ UNCHANGED <<now, provider, row, limiter, cookie, look>>
    BY DEF Send
<1>3. left.sends \in Nat /\ left' \in [sends : Nat, trouble : Nat]
    <2>1. left \in [sends : Nat, trouble : Nat] /\ left.sends > 0
        BY <1>1, <1>2
    <2>2. left' = [left EXCEPT !.sends = @ - 1]
        BY <1>2
    <2> QED BY <2>1, <2>2, OneLess, Zenon
<1>4. d = [n |-> left.sends, op |-> op, path |-> path, theme |-> theme, sent |-> cookie, look |-> look,
           stage |-> "sent", set |-> Keep, setLook |-> Keep, go |-> "", card |-> Default, stamp |-> 0]
    BY DEF Call
<1> HIDE DEF d
<1>5. d \in Requests
    BY <1>1, <1>3, <1>4 DEF Requests, Goals
<1>6. /\ d.op = op /\ d.path = path /\ d.stage = "sent" /\ d.set = Keep /\ d.setLook = Keep /\ d.go = ""
      /\ d.sent = cookie /\ d.n = left.sends /\ d.theme = theme
    BY <1>4
<1>7. Staged(d)
    BY <1>6 DEF Staged, Pages
<1>8. Fresh(d, op, path)
    BY <1>5, <1>6, <1>7 DEF Fresh
<1> DEFINE raced == past.raced \/ \E c \in calls : c.op # "other"
           crossed == past.crossed \/ (Puts # {} /\ (op = "put" \/ path = "settings"))
<1>9. past' = [past EXCEPT !.raced = raced, !.crossed = crossed]
    BY DEF Send
<1>10. raced \in BOOLEAN /\ crossed \in BOOLEAN
    BY <1>1 DEF Flags
<1> HIDE DEF raced, crossed
<1>11. /\ past' \in Flags /\ past'.lost = past.lost /\ past'.ended = past.ended /\ past'.quiet = past.quiet
       /\ past'.raced = raced /\ past'.crossed = crossed
    BY <1>1, <1>9, <1>10 DEF Flags
<1> QED BY <1>2, <1>3, <1>6, <1>8, <1>11 DEF raced, crossed

LEMMA FollowDoes ==
    ASSUME TypeInv, NEW c \in calls, Answer(c)
    PROVE  \/ /\ c.op \in Moves /\ c.go # "settings" /\ UNCHANGED tab
              /\ \E d : calls' = (calls \ {c}) \cup {d} /\ Fresh(d, "nav", c.go) /\ d.sent = cookie' /\ d.look = look'
           \/ /\ calls' = calls \ {c} /\ tab' \in TabSet
              /\ \/ c.op = "nav" /\ tab'.at = c.path /\ tab'.active = c.card /\ c.go = c.path
                 \/ c.op \in {"callback", "signout"} /\ tab'.at = "login"
                 \/ /\ c.op = "put" /\ c.go = "ok" /\ tab'.at = tab.at /\ tab'.loading = tab.loading
                    /\ tab.put = c.n => tab'.active = c.theme
                 \/ /\ c.op \notin Moves /\ tab'.at = tab.at /\ tab'.loading = tab.loading
                    /\ tab'.active = tab.active /\ (c.op = "put" => c.go # "ok")
              /\ c.op \notin Moves /\ c.op # "put" => tab'.put = tab.put
<1>1. c \in Requests /\ Staged(c) /\ c.stage = "done"
    BY RequestFields DEF Answer
<1>2. /\ tab \in TabSet /\ Default \in Themes
      /\ c.sent \in Tokens \cup {NoSession} /\ c.look \in Themes \cup {NoTheme}
    BY <1>1, SessionAssumption DEF TypeInv, TabSet, Requests
<1>3. cookie' \in Tokens \cup {NoSession} /\ look' \in Themes \cup {NoTheme}
    BY <1>1 DEF Answer, Arrive, Requests, TypeInv
<1>4. CASE c.op \in Moves /\ c.go \in Pages /\ (c.op # "nav" \/ c.go # c.path)
    <2> DEFINE b == Call(c.n, "nav", c.go, Default)
               d == [b EXCEPT !.sent = cookie', !.look = look']
    <2>1. UNCHANGED tab /\ calls' = (calls \ {c}) \cup {d} /\ c.go # "settings"
        BY <1>1, <1>4 DEF Answer, Follow, Moves, Staged
    <2>2. b = [n |-> c.n, op |-> "nav", path |-> c.go, theme |-> Default, sent |-> cookie, look |-> look,
               stage |-> "sent", set |-> Keep, setLook |-> Keep, go |-> "", card |-> Default, stamp |-> 0]
        BY DEF Call
    <2>3. c.n \in Nat /\ cookie \in Tokens \cup {NoSession} /\ look \in Themes \cup {NoTheme}
        BY <1>1 DEF TypeInv, Requests
    <2> HIDE DEF b
    <2>4. b \in Requests
        BY <1>2, <1>4, <2>2, <2>3 DEF Requests, Goals
    <2>5. /\ d \in Requests /\ d.sent = cookie' /\ d.look = look' /\ d.op = b.op /\ d.path = b.path /\ d.stage = b.stage
          /\ d.set = b.set /\ d.setLook = b.setLook /\ d.go = b.go
        BY <1>3, <2>4 DEF Requests
    <2> HIDE DEF d
    <2>6. /\ d.op = "nav" /\ d.path = c.go /\ d.stage = "sent" /\ d.set = Keep /\ d.setLook = Keep /\ d.go = ""
        BY <2>2, <2>5
    <2>7. Staged(d)
        BY <1>4, <2>6 DEF Staged, Pages
    <2>8. Fresh(d, "nav", c.go)
        BY <2>5, <2>6, <2>7 DEF Fresh
    <2> QED BY <1>4, <2>1, <2>5, <2>8
<1>5. CASE ~(c.op \in Moves /\ c.go \in Pages /\ (c.op # "nav" \/ c.go # c.path))
    <2>1. calls' = calls \ {c}
        BY <1>5 DEF Answer, Follow, Moves
    <2> DEFINE shown == [at |-> c.path, loading |-> FALSE, theme |-> c.theme, active |-> c.card, put |-> 0]
               back == [tab EXCEPT !.at = "login", !.loading = FALSE]
               mine == [tab EXCEPT !.theme = c.theme, !.active = c.theme, !.put = 0]
               older == [tab EXCEPT !.theme = c.theme]
               undone == [tab EXCEPT !.put = 0]
    <2>2. /\ c.op = "nav" => tab' = shown
          /\ c.op \in {"callback", "signout"} => tab' = back
          /\ c.op = "put" /\ c.go = "ok" => tab' = (IF tab.put = c.n THEN mine ELSE older)
          /\ c.op = "put" /\ c.go # "ok" /\ tab.put = c.n => tab' = undone
          /\ c.op \notin Moves /\ ~(c.op = "put" /\ (c.go = "ok" \/ tab.put = c.n)) => tab' = tab
        <3>1. tab' = CASE c.op = "nav" -> shown
                       [] c.op \in {"callback", "signout"} -> back
                       [] c.op = "put" /\ c.go = "ok" -> IF tab.put = c.n THEN mine ELSE older
                       [] c.op = "put" /\ c.go # "ok" /\ tab.put = c.n -> undone
                       [] OTHER -> tab
            BY <1>5 DEF Answer, Follow, Moves
        <3> HIDE DEF shown, back, mine, older, undone
        <3> QED BY <3>1 DEF Moves
    <2>3. c.theme \in Themes /\ c.card \in Themes /\ c.path \in Pages \cup {""} /\ (c.op = "nav" => c.path \in Pages)
        BY <1>1 DEF Requests, Staged
    <2>4. CASE c.op = "nav"
        <3>1. tab' = [at |-> c.path, loading |-> FALSE, theme |-> c.theme, active |-> c.card, put |-> 0]
            BY <2>2, <2>4
        <3>2. c.go = c.path
            BY <1>1, <1>5, <2>4 DEF Staged, Moves
        <3> QED BY <2>1, <2>3, <2>4, <3>1, <3>2 DEF TabSet, Moves
    <2>5. CASE c.op \in {"callback", "signout"}
        <3>1. tab' = [tab EXCEPT !.at = "login", !.loading = FALSE]
            BY <2>2, <2>5
        <3> QED BY <1>2, <2>1, <2>5, <3>1 DEF TabSet, Pages, Moves
    <2>6. CASE c.op = "put" /\ c.go = "ok" /\ tab.put = c.n
        <3>1. tab' = [tab EXCEPT !.theme = c.theme, !.active = c.theme, !.put = 0]
            BY <2>2, <2>6
        <3>2. tab' \in TabSet
            BY <1>2, <2>3, <3>1 DEF TabSet
        <3>3. tab'.at = tab.at /\ tab'.loading = tab.loading /\ tab'.active = c.theme /\ tab'.put = 0
            BY <1>2, <3>1 DEF TabSet
        <3> QED BY <2>1, <2>6, <3>2, <3>3 DEF Moves
    <2>7. CASE c.op = "put" /\ c.go = "ok" /\ tab.put # c.n
        <3>1. tab' = [tab EXCEPT !.theme = c.theme]
            BY <2>2, <2>7
        <3> QED BY <1>2, <2>1, <2>3, <2>7, <3>1 DEF TabSet, Moves
    <2>8. CASE c.op = "put" /\ c.go # "ok" /\ tab.put = c.n
        <3>1. tab' = [tab EXCEPT !.put = 0]
            BY <2>2, <2>8
        <3> QED BY <1>2, <2>1, <2>8, <3>1 DEF TabSet, Moves
    <2>9. CASE c.op \notin Moves /\ ~(c.op = "put" /\ (c.go = "ok" \/ tab.put = c.n))
        <3>1. tab' = tab
            BY <2>2, <2>9 DEF Moves
        <3> QED BY <1>2, <2>1, <2>9, <3>1 DEF TabSet, Moves
    <2> QED BY <2>4, <2>5, <2>6, <2>7, <2>8, <2>9 DEF Moves
<1> QED BY <1>4, <1>5

LEMMA ArriveDoes ==
    ASSUME TypeInv, NEW c \in calls, Answer(c)
    PROVE  /\ c.stage = "done" /\ cookie' = (IF c.set = Keep THEN cookie ELSE c.set)
           /\ look' = IF c.setLook = Keep THEN look ELSE c.setLook
           /\ cookie' \in Tokens \cup {NoSession} /\ look' \in Themes \cup {NoTheme} /\ past' \in Flags
           /\ past'.lost = past.lost /\ past'.ended = past.ended /\ past'.raced = past.raced
           /\ past'.crossed = past.crossed
           /\ past'.quiet => /\ c.op # "callback"
                             /\ past.quiet \/ (c.op = "signout" /\ c.go = "home" /\ \A d \in calls \ {c} : ~Carries(d))
           /\ UNCHANGED <<now, provider, row, limiter, left>>
<1>1. c \in Requests
    BY RequestFields
<1>2. cookie' \in Tokens \cup {NoSession} /\ look' \in Themes \cup {NoTheme}
    BY <1>1 DEF Answer, Arrive, Requests, TypeInv
<1> DEFINE quiet == IF c.op = "callback" THEN FALSE
                    ELSE past.quiet \/ (c.op = "signout" /\ c.go = "home" /\ \A d \in calls \ {c} : ~Carries(d))
<1>3. past' = [past EXCEPT !.quiet = quiet] /\ past \in Flags
    BY DEF Answer, Arrive, TypeInv
<1>4. quiet \in BOOLEAN
    BY <1>3 DEF Flags
<1> HIDE DEF quiet
<1>5. /\ past' \in Flags /\ past'.lost = past.lost /\ past'.ended = past.ended /\ past'.raced = past.raced
      /\ past'.crossed = past.crossed /\ past'.quiet = quiet
    BY <1>3, <1>4 DEF Flags
<1>6. quiet => /\ c.op # "callback"
               /\ past.quiet \/ (c.op = "signout" /\ c.go = "home" /\ \A d \in calls \ {c} : ~Carries(d))
    BY DEF quiet
<1> QED BY <1>2, <1>5, <1>6 DEF Answer, Arrive

LEMMA LoginTab ==
    ASSUME NEW t \in TabSet, NEW page \in Pages
    PROVE  [t EXCEPT !.at = page, !.loading = FALSE, !.put = 0] \in TabSet
BY DEF TabSet

LEMMA LoseDoes ==
    ASSUME TypeInv, NEW c \in calls, Lose(c)
    PROVE  /\ calls' = calls \ {c} /\ c.op # "other" /\ tab' \in TabSet /\ past' \in Flags /\ past'.lost
           /\ past'.ended = past.ended /\ past'.raced = past.raced /\ past'.crossed = past.crossed
           /\ past'.quiet = past.quiet
           /\ left' \in [sends : Nat, trouble : Nat]
           /\ tab'.at \in {"login", tab.at}
           /\ c.op \in Moves \/ (tab'.at = tab.at /\ tab'.loading = tab.loading)
           /\ UNCHANGED <<now, provider, row, limiter, cookie, look>>
<1>1. tab \in TabSet /\ past \in Flags /\ left \in [sends : Nat, trouble : Nat]
    BY DEF TypeInv, TabSet
<1>2. left.trouble > 0 /\ left' = [left EXCEPT !.trouble = @ - 1]
    BY DEF Lose, Trouble
<1>3. left' \in [sends : Nat, trouble : Nat]
    BY <1>1, <1>2
<1>4. past' = [past EXCEPT !.lost = TRUE]
    BY DEF Lose
<1>5. /\ past' \in Flags /\ past'.lost /\ past'.ended = past.ended /\ past'.raced = past.raced
      /\ past'.crossed = past.crossed /\ past'.quiet = past.quiet
    BY <1>1, <1>4 DEF Flags
<1>6. /\ c.op \in Moves \/ (tab'.at = tab.at /\ tab'.loading = tab.loading)
      /\ tab'.at \in {"login", tab.at}
      /\ tab' \in TabSet
    <2>1. \/ c.op \in Moves /\ tab' = [tab EXCEPT !.at = "login", !.loading = FALSE, !.put = 0]
          \/ tab' = [tab EXCEPT !.put = 0] \/ tab' = tab
        BY DEF Lose, Moves
    <2>2. CASE c.op \in Moves /\ tab' = [tab EXCEPT !.at = "login", !.loading = FALSE, !.put = 0]
        <3>1. tab' \in TabSet
            <4>1. "login" \in Pages
                BY DEF Pages
            <4> QED BY <1>1, <2>2, <4>1, LoginTab
        <3>2. tab'.at = "login"
            BY <1>1, <2>2 DEF TabSet
        <3> QED BY <2>2, <3>1, <3>2
    <2>3. CASE tab' = [tab EXCEPT !.put = 0] \/ tab' = tab
        BY <1>1, <2>3 DEF TabSet
    <2> QED BY <2>1, <2>2, <2>3
<1> QED BY <1>3, <1>5, <1>6 DEF Lose

LEMMA ProviderTroubleDoes ==
    ASSUME TypeInv, ProviderTrouble
    PROVE  /\ provider' \in Providers /\ provider'.rotates = provider.rotates /\ past' \in Flags
           /\ left' \in [sends : Nat, trouble : Nat]
           /\ past'.ended \/ (provider'.live = provider.live /\ past' = past)
           /\ past'.lost = past.lost /\ past'.raced = past.raced /\ past'.crossed = past.crossed
           /\ past'.quiet = past.quiet
           /\ UNCHANGED <<now, row, limiter, cookie, look, tab, calls>>
<1>1. provider \in Providers /\ past \in Flags /\ left \in [sends : Nat, trouble : Nat]
    BY DEF TypeInv
<1>2. left.trouble > 0 /\ left' = [left EXCEPT !.trouble = @ - 1]
    BY DEF ProviderTrouble, Trouble
<1>3. left' \in [sends : Nat, trouble : Nat]
    BY <1>1, <1>2
<1>4. CASE provider' = [provider EXCEPT !.up = ~@] /\ past' = past
    BY <1>1, <1>3, <1>4 DEF ProviderTrouble, Providers
<1>5. CASE provider' = [provider EXCEPT !.live = {}] /\ past' = [past EXCEPT !.ended = TRUE]
    <2>1. provider' \in Providers /\ provider'.rotates = provider.rotates
        BY <1>1, <1>5 DEF Providers
    <2>2. /\ past' \in Flags /\ past'.ended /\ past'.lost = past.lost /\ past'.raced = past.raced
          /\ past'.crossed = past.crossed /\ past'.quiet = past.quiet
        BY <1>1, <1>5 DEF Flags
    <2> QED BY <1>3, <2>1, <2>2 DEF ProviderTrouble
<1> QED BY <1>4, <1>5 DEF ProviderTrouble

LEMMA ElsewhereDoes ==
    ASSUME TypeInv, NEW t \in Themes, Elsewhere(t)
    PROVE  /\ row # NoRow /\ row' = t /\ past' \in Flags /\ past'.crossed
           /\ past'.lost = past.lost /\ past'.ended = past.ended /\ past'.raced = past.raced
           /\ past'.quiet = past.quiet /\ left' \in [sends : Nat, trouble : Nat]
           /\ UNCHANGED <<now, provider, limiter, cookie, look, tab, calls>>
<1>1. past \in Flags /\ left \in [sends : Nat, trouble : Nat]
    BY DEF TypeInv
<1>2. left.trouble > 0 /\ left' = [left EXCEPT !.trouble = @ - 1] /\ past' = [past EXCEPT !.crossed = TRUE]
    BY DEF Elsewhere, Trouble
<1>3. left' \in [sends : Nat, trouble : Nat]
    BY <1>1, <1>2
<1>4. /\ past' \in Flags /\ past'.crossed /\ past'.lost = past.lost /\ past'.ended = past.ended
      /\ past'.raced = past.raced /\ past'.quiet = past.quiet
    BY <1>1, <1>2 DEF Flags
<1> QED BY <1>3, <1>4 DEF Elsewhere

-----------------------------------------------------------------------------
(* The types. *)

LEMMA CallsTyped ==
    ASSUME TypeInv, NEW d \in Requests, Staged(d), calls' \subseteq calls \cup {d}
    PROVE  calls' \in SUBSET Requests /\ \A c \in calls' : Staged(c)
BY DEF TypeInv

LEMMA InitTypes == Init => TypeInv
<1> SUFFICES ASSUME Init PROVE TypeInv
    OBVIOUS
<1> USE SessionAssumption, RateLimitAssumption
<1>1. now \in Nat /\ calls = {} /\ look \in Themes \cup {NoTheme} /\ row \in Themes \cup {NoRow}
    BY DEF Init
<1>2. provider \in Providers
    BY DEF Init, Providers
<1>3. cookie \in Tokens \cup {NoSession}
    <2>1. Token(0, Life) \in Tokens
        BY DEF Token, Tokens
    <2> QED BY <2>1 DEF Init
<1>4. tab \in TabSet
    BY DEF Init, TabSet, Pages
<1>5. past \in Flags
    BY DEF Init, Flags
<1>6. left \in [sends : Nat, trouble : Nat]
    BY DEF Init
<1>7. LimiterInv(limiter)
    BY FS_EmptySet DEF Init, LimiterInv, NoAttempts, Within, Entries
<1> QED BY <1>1, <1>2, <1>3, <1>4, <1>5, <1>6, <1>7 DEF TypeInv, TabSet

LEMMA SendTypes ==
    ASSUME TypeInv,
           NEW op \in {"nav", "api", "put", "callback", "signout", "other"}, NEW path \in Pages \cup {""},
           op = "nav" => path \in Pages, NEW theme \in Themes, NEW next \in TabSet, Send(op, path, theme, next)
    PROVE  TypeInv'
<1>1. PICK d : calls' = calls \cup {d} /\ Fresh(d, op, path)
    BY SendDoes, Zenon
<1>2. left' \in [sends : Nat, trouble : Nat] /\ past' \in Flags
    BY SendDoes, Zenon
<1>4. tab' = next /\ UNCHANGED <<now, provider, row, limiter, cookie, look>>
    BY DEF Send
<1>3. calls' \in SUBSET Requests /\ \A c \in calls' : Staged(c)
    BY <1>1, CallsTyped DEF Fresh
<1> QED BY <1>2, <1>3, <1>4 DEF TypeInv, TabSet

\* Every request a user sends is of one of these forms.
Sends(op, path, theme, next) ==
  /\ op \in {"nav", "api", "put", "callback", "signout", "other"} /\ path \in Pages \cup {""}
  /\ op = "nav" => path \in Pages
  /\ theme \in Themes /\ next \in TabSet
  /\ op \in Moves => ~tab.loading /\ next = [tab EXCEPT !.loading = TRUE]
  /\ op \in {"api", "other"} => next = tab
  /\ op = "put" => /\ ~tab.loading /\ tab.at = "settings" /\ next = [tab EXCEPT !.put = left.sends]
  /\ Send(op, path, theme, next)

LEMMA UserSends ==
    ASSUME TypeInv,
           \/ \E p \in Pages \ {"home", "loginError"} : Navigate(p)
           \/ CallApi \/ SignIn \/ SignOut \/ OtherClient
           \/ \E t \in Themes : SelectTheme(t)
    PROVE  \E op, path, theme, next : Sends(op, path, theme, next)
<1>1. tab \in TabSet /\ left.sends \in Nat /\ Default \in Themes
    BY SessionAssumption DEF TypeInv, TabSet
<1> DEFINE moving == [tab EXCEPT !.loading = TRUE]
           putting == [tab EXCEPT !.put = left.sends]
<1>2. moving \in TabSet /\ putting \in TabSet
    BY <1>1 DEF TabSet
<1> HIDE DEF moving, putting
<1>3. ASSUME NEW p \in Pages, Navigate(p) PROVE Sends("nav", p, Default, moving)
    BY <1>1, <1>2, <1>3 DEF Navigate, Sends, Moves, moving
<1>4. ASSUME CallApi PROVE Sends("api", "", Default, tab)
    BY <1>1, <1>4 DEF CallApi, Sends, Moves
<1>5. ASSUME SignIn PROVE Sends("callback", "", Default, moving)
    BY <1>1, <1>2, <1>5 DEF SignIn, Sends, Moves, moving
<1>6. ASSUME SignOut PROVE Sends("signout", tab.at, Default, moving)
    BY <1>1, <1>2, <1>6 DEF SignOut, Sends, Moves, moving, TabSet
<1>7. ASSUME OtherClient PROVE Sends("other", "", Default, tab)
    BY <1>1, <1>7 DEF OtherClient, Sends, Moves
<1>8. ASSUME NEW t \in Themes, SelectTheme(t) PROVE Sends("put", "", t, putting)
    BY <1>1, <1>2, <1>8 DEF SelectTheme, Sends, Moves, putting
<1> QED BY <1>3, <1>4, <1>5, <1>6, <1>7, <1>8

LEMMA ServerTypes == ASSUME TypeInv, ServerStep PROVE TypeInv'
<1>1. PICK c \in calls : \/ Middleware(c) \/ Render(c) \/ ServeApi(c) \/ PutTheme(c) \/ EndSession(c)
                         \/ Guard(c) \/ Callback(c) \/ Answer(c)
    BY DEF ServerStep
<1>2. c.sent \in Tokens \cup {NoSession} /\ c \in Requests
    BY RequestFields
<1>3. ASSUME NEW s \in Sessions(c.sent), NEW kept \in BOOLEAN, Ask(s, kept), NEW d \in Requests, Staged(d), Becomes(c, d),
             row' \in Themes \cup {NoRow}, UNCHANGED <<now, limiter, cookie, look, tab>>
      PROVE  TypeInv'
    <2>1. provider' \in Providers /\ left' \in [sends : Nat, trouble : Nat] /\ past' \in Flags
        BY <1>2, <1>3, AskDoes
    <2>2. calls' \in SUBSET Requests /\ \A e \in calls' : Staged(e)
        BY <1>3, CallsTyped DEF Becomes
    <2> QED BY <1>3, <2>1, <2>2 DEF TypeInv
<1>4. CASE Middleware(c)
    <2>1. PICK s \in Sessions(c.sent), d \in Requests : Ask(s, TRUE) /\ Becomes(c, d) /\ Further(c, d)
        BY <1>4, MiddlewareDoes
    <2> QED BY <1>3, <1>4, <2>1 DEF Middleware, Further, TypeInv
<1>5. CASE Render(c)
    <2>1. PICK s \in Sessions(c.sent), d \in Requests : Ask(s, FALSE) /\ Becomes(c, d) /\ Further(c, d)
        BY <1>5, RenderDoes
    <2> QED BY <1>3, <1>5, <2>1 DEF Render, Further, TypeInv
<1>6. CASE ServeApi(c)
    <2>1. PICK s \in Sessions(c.sent), d \in Requests : Ask(s, FALSE) /\ Becomes(c, d) /\ Further(c, d)
        BY <1>6, ServeApiDoes
    <2> QED BY <1>3, <1>6, <2>1 DEF ServeApi, Further, TypeInv
<1>7. CASE PutTheme(c)
    <2>1. PICK s \in Sessions(c.sent), d \in Requests :
            /\ Ask(s, FALSE) /\ Becomes(c, d) /\ Further(c, d)
            /\ row' = row \/ (row' = d.theme /\ d.theme \in Themes)
        BY <1>7, PutThemeDoes
    <2>2. row' \in Themes \cup {NoRow}
        BY <2>1 DEF TypeInv
    <2> QED BY <1>3, <1>7, <2>1, <2>2 DEF PutTheme, Further
<1>8. CASE EndSession(c)
    <2>1. PICK d \in Requests : Becomes(c, d) /\ Further(c, d)
        BY <1>8, EndSessionDoes
    <2>2. calls' \in SUBSET Requests /\ \A e \in calls' : Staged(e)
        BY <2>1, CallsTyped DEF Becomes, Further
    <2> QED BY <1>8, <2>2 DEF EndSession, TypeInv
<1>9. CASE Guard(c)
    <2>1. PICK d \in Requests : Becomes(c, d) /\ Further(c, d)
        BY <1>9, GuardDoes
    <2>2. calls' \in SUBSET Requests /\ \A e \in calls' : Staged(e)
        BY <2>1, CallsTyped DEF Becomes, Further
    <2> QED BY <1>9, <2>2 DEF Guard, TypeInv
<1>10. CASE Callback(c)
    <2>1. PICK d \in Requests :
            /\ Becomes(c, d) /\ Further(c, d)
            /\ \/ UNCHANGED <<provider, row>>
               \/ /\ provider' = [provider EXCEPT !.live = @ \cup {provider.next}, !.next = @ + 1]
                  /\ row' = IF row = NoRow THEN Default ELSE row
        BY <1>10, CallbackDoes
    <2>2. calls' \in SUBSET Requests /\ \A e \in calls' : Staged(e)
        BY <2>1, CallsTyped DEF Becomes, Further
    <2>3. row' \in Themes \cup {NoRow}
        BY <2>1, SessionAssumption DEF TypeInv
    <2>4. provider' \in Providers
        <3>1. /\ provider.live \cup {provider.next} \in SUBSET Nat /\ provider.next + 1 \in Nat
              /\ provider \in Providers
            BY DEF TypeInv, Providers
        <3> DEFINE live == provider.live \cup {provider.next}
        <3>2. provider' = provider \/ provider' = [provider EXCEPT !.live = live, !.next = provider.next + 1]
            BY <2>1
        <3> HIDE DEF live
        <3> QED BY <3>1, <3>2 DEF Providers, live
    <2>5. LimiterInv(limiter')
        BY <1>10, AttemptKeeps, RequestFields DEF Callback, TypeInv
    <2> QED BY <1>10, <2>2, <2>3, <2>4, <2>5 DEF Callback, TypeInv
<1>11. CASE Answer(c)
    <2>1. /\ cookie' \in Tokens \cup {NoSession} /\ look' \in Themes \cup {NoTheme} /\ past' \in Flags
          /\ UNCHANGED <<now, provider, row, limiter, left>>
        BY <1>11, ArriveDoes
    <2>2. CASE tab' = tab /\ \E d : calls' = (calls \ {c}) \cup {d} /\ Fresh(d, "nav", c.go)
        <3>1. PICK d : calls' = (calls \ {c}) \cup {d} /\ Fresh(d, "nav", c.go)
            BY <2>2
        <3>2. calls' \in SUBSET Requests /\ \A e \in calls' : Staged(e)
            BY <3>1, CallsTyped DEF Fresh
        <3> QED BY <2>1, <2>2, <3>2 DEF TypeInv
    <2>3. CASE calls' = calls \ {c} /\ tab' \in TabSet
        BY <2>1, <2>3 DEF TypeInv, TabSet
    <2> QED BY <1>11, <2>2, <2>3, FollowDoes
<1> QED BY <1>1, <1>4, <1>5, <1>6, <1>7, <1>8, <1>9, <1>10, <1>11

LEMMA NextTypes == TypeInv /\ [Next]_vars => TypeInv'
<1> SUFFICES ASSUME TypeInv, [Next]_vars PROVE TypeInv'
    OBVIOUS
<1>1. ASSUME NEW op, NEW path, NEW theme, NEW next, Sends(op, path, theme, next) PROVE TypeInv'
    BY <1>1, SendTypes DEF Sends
<1>2. ASSUME NEW t \in Themes, Elsewhere(t) PROVE TypeInv'
    <2>1. /\ row' = t /\ past' \in Flags /\ left' \in [sends : Nat, trouble : Nat]
          /\ UNCHANGED <<now, provider, limiter, cookie, look, tab, calls>>
        BY <1>2, ElsewhereDoes
    <2> QED BY <2>1 DEF TypeInv
<1>3. CASE ServerStep
    BY <1>3, ServerTypes
<1>4. CASE Tick
    BY <1>4 DEF Tick, TypeInv
<1>5. CASE ProviderTrouble
    <2>1. /\ provider' \in Providers /\ past' \in Flags /\ left' \in [sends : Nat, trouble : Nat]
          /\ UNCHANGED <<now, row, limiter, cookie, look, tab, calls>>
        BY <1>5, ProviderTroubleDoes
    <2> QED BY <2>1 DEF TypeInv
<1>6. ASSUME NEW c \in calls, Lose(c) PROVE TypeInv'
    <2>1. /\ calls' = calls \ {c} /\ tab' \in TabSet /\ past' \in Flags
          /\ left' \in [sends : Nat, trouble : Nat]
          /\ UNCHANGED <<now, provider, row, limiter, cookie, look>>
        BY <1>6, LoseDoes
    <2> QED BY <2>1 DEF TypeInv, TabSet
<1>7. CASE UNCHANGED vars
    BY <1>7 DEF vars, TypeInv
<1> QED BY <1>1, <1>2, <1>3, <1>4, <1>5, <1>6, <1>7, UserSends DEF Next

\* No more sign-ins than the limit in any window, as long as attempts reach Redis
\* in the order of their stamps (rate-limit.ts:40-67).
THEOREM RateIsLimited == Spec => []LimitHolds
<1>1. TypeInv => LimitHolds
    BY DEF TypeInv, LimiterInv, LimitHolds
<1> QED BY <1>1, InitTypes, NextTypes, PTL DEF Spec

-----------------------------------------------------------------------------
(* The session survives. *)

\* A refresh token the provider takes, where there is one at all.
Held(t) == t \in Tokens => t.rt \in provider.live

\* Those that may change the session.
Users == {c \in calls : c.op # "other"}

Shared ==
  /\ Held(cookie)
  /\ \A c \in Users : Held(c.sent) /\ Held(c.set)

Alone ==
  /\ \A c, d \in Users : c = d
  /\ \A c \in Users : c.sent = cookie /\ Held(c.set)
  /\ Held(cookie) \/ \E c \in Users : c.set # Keep

SurviveInv ==
  ~past.ended /\ ~past.lost =>
    /\ ~provider.rotates => Shared
    /\ provider.rotates /\ ~past.raced => Alone

LEMMA NoToken == NoSession \notin Tokens /\ Keep \notin Tokens /\ Keep # NoSession
BY SessionAssumption DEF Tokens

LEMMA IssueGives ==
    ASSUME TypeInv, NEW rt
    PROVE  /\ Issue(rt).rotates = provider.rotates /\ provider.next \in Issue(rt).live
           /\ ~provider.rotates => provider.live \subseteq Issue(rt).live
<1> DEFINE live == (IF provider.rotates THEN provider.live \ {rt} ELSE provider.live) \cup {provider.next}
<1>1. Issue(rt) = [provider EXCEPT !.live = live, !.next = provider.next + 1] /\ provider \in Providers
    BY DEF Issue, TypeInv
<1>2. provider.next \in live /\ (~provider.rotates => provider.live \subseteq live)
    OBVIOUS
<1> HIDE DEF live
<1>3. Issue(rt).live = live /\ Issue(rt).rotates = provider.rotates
    BY <1>1 DEF Providers
<1> QED BY <1>2, <1>3

LEMMA TokenHeld ==
    ASSUME TypeInv, NEW t \in Tokens \cup {NoSession}, NEW token, Held(t),
           token = NoSession <=> t = NoSession,
           \/ provider' = provider /\ (t # NoSession => token.rt = t.rt)
           \/ t # NoSession /\ provider' = Issue(t.rt) /\ token.rt = provider.next
    PROVE  Held(token)'
<1>1. CASE t = NoSession
    BY <1>1, NoToken DEF Held
<1>2. CASE t # NoSession /\ provider' = provider /\ token.rt = t.rt
    BY <1>2 DEF Held
<1>3. CASE t # NoSession /\ provider' = Issue(t.rt) /\ token.rt = provider.next
    BY <1>3, IssueGives DEF Held
<1> QED BY <1>1, <1>2, <1>3

\* Asking for the session, and what the answer will set then.
LEMMA AskSurvives ==
    ASSUME TypeInv, SurviveInv, NEW c \in calls, NEW s \in Sessions(c.sent), NEW kept \in BOOLEAN, Ask(s, kept),
           NEW d \in Requests, Becomes(c, d), Further(c, d), c.op # "other", cookie' = cookie,
           IF kept THEN c.stage = "sent" /\ d.set = (IF s.token = NoSession THEN Keep ELSE s.token)
           ELSE d.set = c.set
    PROVE  SurviveInv'
<1>1. /\ c \in Requests /\ Staged(c) /\ c \in Users /\ c.sent \in Tokens \cup {NoSession}
      /\ d.op = c.op /\ d.sent = c.sent
    BY RequestFields DEF Users, Further
<1>2. Users' = (Users \ {c}) \cup {d}
    BY <1>1 DEF Users, Becomes
<1>3. /\ s.token \in Tokens \cup {NoSession} /\ s.trouble \in {0, 1} /\ provider' = s.provider
      /\ s.token = NoSession <=> c.sent = NoSession
      /\ \/ s.provider = provider /\ (c.sent # NoSession => s.token.rt = c.sent.rt)
         \/ /\ c.sent # NoSession /\ s.provider = Issue(c.sent.rt)
            /\ s.trouble = 1 \/ s.token.rt = provider.next
    BY <1>1, SessionsGive, AskDoes
<1>4. /\ past'.lost <=> past.lost \/ s.trouble > 0
      /\ past'.raced <=> past.raced \/ (~kept /\ s.provider # provider)
      /\ past'.ended = past.ended
    BY <1>1, AskDoes
<1>5. provider'.rotates = provider.rotates
    BY <1>3, IssueGives
<1>6. ASSUME ~past'.ended, ~past'.lost, ~provider'.rotates PROVE Shared'
    <2>1. Shared /\ s.trouble = 0
        BY <1>3, <1>4, <1>5, <1>6 DEF SurviveInv
    <2>2. provider.live \subseteq provider'.live
        BY <1>3, <1>5, <1>6, IssueGives
    <2>3. Held(c.sent) /\ Held(c.set)
        BY <1>1, <2>1 DEF Shared
    <2>4. Held(s.token)'
        BY <1>1, <1>3, <2>1, <2>2, <2>3, TokenHeld
    <2>5. Held(d.set)' /\ Held(d.sent)'
        BY <1>1, <2>2, <2>3, <2>4, NoToken DEF Held
    <2> QED BY <1>2, <2>1, <2>2, <2>5 DEF Shared, Held
<1>7. ASSUME ~past'.ended, ~past'.lost, ~past'.raced, provider'.rotates PROVE Alone'
    <2>1. Alone /\ s.trouble = 0
        BY <1>3, <1>4, <1>5, <1>7 DEF SurviveInv
    <2>2. Users' = {d} /\ d.sent = cookie' /\ Held(c.set) /\ c.sent = cookie
        BY <1>1, <1>2, <2>1 DEF Alone
    <2>3. CASE ~kept
        <3>1. provider' = provider /\ d.set = c.set
            BY <1>3, <1>4, <1>7, <2>3
        <3>2. Held(d.set)'
            BY <2>2, <3>1 DEF Held
        <3>3. Held(cookie)' \/ d.set # Keep
            BY <1>1, <2>1, <3>1 DEF Alone, Held
        <3> QED BY <2>2, <3>2, <3>3 DEF Alone
    <2>4. CASE kept
        <3>1. c.set = Keep /\ d.set = (IF s.token = NoSession THEN Keep ELSE s.token)
            BY <1>1, <2>4 DEF Staged
        <3>2. Held(cookie)
            BY <1>1, <2>1, <3>1 DEF Alone
        <3>3. Held(s.token)'
            BY <1>1, <1>3, <2>1, <2>2, <3>2, TokenHeld
        <3>4. CASE s.token = NoSession
            <4>1. cookie = NoSession
                BY <1>3, <2>2, <3>4
            <4> QED BY <2>2, <3>1, <3>4, <4>1, NoToken DEF Alone, Held
        <3>5. CASE s.token # NoSession
            BY <1>3, <2>2, <3>1, <3>3, <3>5, NoToken DEF Alone, Held
        <3> QED BY <3>4, <3>5
    <2> QED BY <2>3, <2>4
<1> QED BY <1>6, <1>7 DEF SurviveInv

\* The provider and the flags stay; the cookie comes from the answer, if any.
LEMMA QuietlySurvives ==
    ASSUME SurviveInv, cookie' = cookie, provider'.rotates = provider.rotates, provider'.live = provider.live,
           Users' \subseteq Users, past'.ended = past.ended, past'.lost \/ (past'.lost = past.lost /\ Users' = Users),
           past'.raced = past.raced
    PROVE  SurviveInv'
BY DEF SurviveInv, Shared, Alone, Held

LEMMA SendSurvives ==
    ASSUME TypeInv, SurviveInv, NEW op, NEW path, NEW theme, NEW next, Sends(op, path, theme, next)
    PROVE  SurviveInv'
<1>1. PICK d : calls' = calls \cup {d} /\ Fresh(d, op, path) /\ d.sent = cookie
    <2>1. /\ op \in {"nav", "api", "put", "callback", "signout", "other"} /\ path \in Pages \cup {""}
          /\ op = "nav" => path \in Pages
          /\ theme \in Themes /\ next \in TabSet /\ Send(op, path, theme, next)
        BY DEF Sends
    <2> QED BY <2>1, SendDoes, Zenon
<1>2. cookie' = cookie /\ provider' = provider
    BY DEF Sends, Send
<1>3. /\ past'.lost = past.lost /\ past'.ended = past.ended
      /\ past'.raced <=> past.raced \/ \E c \in calls : c.op # "other"
    BY SendDoes DEF Sends
<1>4. d.op = op /\ d.set = Keep
    BY <1>1 DEF Fresh
<1>5. Users' \subseteq Users \cup {d} /\ (op = "other" => Users' = Users)
    BY <1>1, <1>4 DEF Users
<1>6. ASSUME Shared PROVE Shared'
    BY <1>1, <1>2, <1>4, <1>5, <1>6, NoToken DEF Shared, Held
<1>7. ASSUME Alone, ~past'.raced PROVE Alone'
    <2>1. Users = {}
        BY <1>3, <1>7 DEF Users
    <2>2. Users' \subseteq {d} /\ Held(cookie)
        BY <1>5, <1>7, <2>1 DEF Alone
    <2> QED BY <1>1, <1>2, <1>4, <2>2, NoToken DEF Alone, Held
<1> QED BY <1>2, <1>3, <1>6, <1>7 DEF SurviveInv

LEMMA EndSurvives ==
    ASSUME TypeInv, SurviveInv, NEW c \in calls, EndSession(c)
    PROVE  SurviveInv'
<1>1. PICK d \in Requests : Becomes(c, d) /\ Further(c, d) /\ d.set = NoSession /\ d.op = "signout"
    BY EndSessionDoes
<1>2. c \in Users /\ Users' = (Users \ {c}) \cup {d} /\ d.sent = c.sent
    BY <1>1 DEF Users, Becomes, Further
<1>3. cookie' = cookie /\ provider' = provider /\ past' = past
    BY DEF EndSession
<1>4. ASSUME Shared PROVE Shared'
    BY <1>1, <1>2, <1>3, <1>4, NoToken DEF Shared, Held
<1>5. ASSUME Alone PROVE Alone'
    BY <1>1, <1>2, <1>3, <1>5, NoToken DEF Alone, Held
<1> QED BY <1>3, <1>4, <1>5 DEF SurviveInv

LEMMA GuardSurvives ==
    ASSUME TypeInv, SurviveInv, NEW c \in calls, Guard(c)
    PROVE  SurviveInv'
<1>1. PICK d \in Requests : Becomes(c, d) /\ Further(c, d) /\ d.set = c.set
    BY GuardDoes
<1>2. c.op = d.op /\ d.sent = c.sent
    BY <1>1 DEF Further
<1>3. cookie' = cookie /\ provider' = provider /\ past' = past
    BY DEF Guard
<1>4. \/ Users' = Users /\ c \notin Users
      \/ c \in Users /\ Users' = (Users \ {c}) \cup {d}
    BY <1>1, <1>2 DEF Users, Becomes
<1>5. ASSUME Shared PROVE Shared'
    BY <1>1, <1>2, <1>3, <1>4, <1>5 DEF Shared, Held
<1>6. ASSUME Alone PROVE Alone'
    BY <1>1, <1>2, <1>3, <1>4, <1>6 DEF Alone, Held
<1> QED BY <1>3, <1>5, <1>6 DEF SurviveInv

LEMMA CallbackSurvives ==
    ASSUME TypeInv, SurviveInv, NEW c \in calls, Callback(c)
    PROVE  SurviveInv'
<1>1. PICK d \in Requests :
        /\ Becomes(c, d) /\ Further(c, d)
        /\ \/ d.set = c.set /\ UNCHANGED <<provider, row>>
           \/ /\ d.op = "callback" /\ d.set \in Tokens /\ d.set.rt = provider.next
              /\ provider' = [provider EXCEPT !.live = @ \cup {provider.next}, !.next = @ + 1]
    BY CallbackDoes
<1>2. c.op = d.op /\ d.sent = c.sent
    BY <1>1 DEF Further
<1>3. cookie' = cookie /\ past' = past
    BY DEF Callback
<1>4. \/ Users' = Users /\ c \notin Users
      \/ c \in Users /\ Users' = (Users \ {c}) \cup {d}
    BY <1>1, <1>2 DEF Users, Becomes
<1>5. /\ provider'.rotates = provider.rotates /\ provider.live \subseteq provider'.live
      /\ d.set = c.set \/ (d.set \in Tokens /\ d.set.rt \in provider'.live)
    <2>1. CASE d.set = c.set /\ UNCHANGED <<provider, row>>
        BY <2>1
    <2>2. CASE /\ d.op = "callback" /\ d.set \in Tokens /\ d.set.rt = provider.next
               /\ provider' = [provider EXCEPT !.live = @ \cup {provider.next}, !.next = @ + 1]
        <3> DEFINE live == provider.live \cup {provider.next}
        <3>1. provider' = [provider EXCEPT !.live = live, !.next = provider.next + 1] /\ provider \in Providers
            BY <2>2 DEF TypeInv
        <3>2. provider.live \subseteq live /\ provider.next \in live
            OBVIOUS
        <3> HIDE DEF live
        <3>3. provider'.live = live /\ provider'.rotates = provider.rotates
            BY <3>1 DEF Providers
        <3> QED BY <2>2, <3>2, <3>3
    <2> QED BY <1>1, <2>1, <2>2
<1>6. Held(d.set)' \/ d.set = c.set
    BY <1>5 DEF Held
<1>7. ASSUME Shared PROVE Shared'
    BY <1>2, <1>3, <1>4, <1>5, <1>6, <1>7 DEF Shared, Held
<1>8. ASSUME Alone PROVE Alone'
    <2>1. d.set = c.set \/ d.set # Keep
        BY <1>5, NoToken
    <2> QED BY <1>2, <1>3, <1>4, <1>5, <1>6, <1>8, <2>1 DEF Alone, Held
<1> QED BY <1>3, <1>5, <1>7, <1>8 DEF SurviveInv

LEMMA AnswerSurvives ==
    ASSUME TypeInv, SurviveInv, NEW c \in calls, Answer(c)
    PROVE  SurviveInv'
<1>1. /\ cookie' = (IF c.set = Keep THEN cookie ELSE c.set) /\ provider' = provider
      /\ past'.lost = past.lost /\ past'.ended = past.ended /\ past'.raced = past.raced
    BY ArriveDoes
<1>2. c \in Requests /\ Staged(c)
    BY RequestFields
<1>3. \/ c.op \in Moves /\ \E d : calls' = (calls \ {c}) \cup {d} /\ Fresh(d, "nav", c.go) /\ d.sent = cookie'
      \/ calls' = calls \ {c}
    BY FollowDoes
<1>4. CASE c.op = "other"
    <2>1. calls' = calls \ {c} /\ cookie' = cookie
        BY <1>1, <1>2, <1>3, <1>4 DEF Moves, Staged
    <2>2. Users' = Users
        BY <1>4, <2>1 DEF Users
    <2> QED BY <1>1, <2>1, <2>2, QuietlySurvives
<1>5. CASE c.op # "other"
    <2>1. c \in Users
        BY <1>5 DEF Users
    <2>2. \/ Users' = Users \ {c}
          \/ \E d : Users' = (Users \ {c}) \cup {d} /\ d.set = Keep /\ d.sent = cookie'
        BY <1>3 DEF Users, Fresh
    <2>3. ASSUME Shared PROVE Shared'
        <3>1. Held(cookie)'
            BY <1>1, <2>1, <2>3 DEF Shared, Held
        <3> QED BY <1>1, <2>2, <2>3, <3>1, NoToken DEF Shared, Held
    <2>4. ASSUME Alone PROVE Alone'
        <3>1. Held(cookie)' /\ Users \ {c} = {}
            BY <1>1, <2>1, <2>4 DEF Alone, Held
        <3> QED BY <2>2, <3>1, NoToken DEF Alone, Held
    <2> QED BY <1>1, <2>3, <2>4 DEF SurviveInv
<1> QED BY <1>4, <1>5

LEMMA NextSurvives == TypeInv /\ SurviveInv /\ [Next]_vars => SurviveInv'
<1> SUFFICES ASSUME TypeInv, SurviveInv, [Next]_vars PROVE SurviveInv'
    OBVIOUS
<1>1. ASSUME NEW op, NEW path, NEW theme, NEW next, Sends(op, path, theme, next) PROVE SurviveInv'
    BY <1>1, SendSurvives
<1>2. ASSUME NEW t \in Themes, Elsewhere(t) PROVE SurviveInv'
    BY <1>2, ElsewhereDoes, QuietlySurvives DEF Users
<1>3. CASE ServerStep
    <2>1. PICK c \in calls : \/ Middleware(c) \/ Render(c) \/ ServeApi(c) \/ PutTheme(c) \/ EndSession(c)
                             \/ Guard(c) \/ Callback(c) \/ Answer(c)
        BY <1>3 DEF ServerStep
    <2>2. CASE Middleware(c)
        BY <2>2, MiddlewareDoes, AskSurvives DEF Middleware
    <2>3. CASE Render(c)
        <3>1. PICK s \in Sessions(c.sent), d \in Requests :
                Ask(s, FALSE) /\ Becomes(c, d) /\ Further(c, d) /\ d.set = c.set
            BY <2>3, RenderDoes
        <3> QED BY <2>3, <3>1, AskSurvives DEF Render
    <2>4. CASE ServeApi(c)
        <3>1. PICK s \in Sessions(c.sent), d \in Requests :
                Ask(s, FALSE) /\ Becomes(c, d) /\ Further(c, d) /\ d.set = c.set
            BY <2>4, ServeApiDoes
        <3> QED BY <2>4, <3>1, AskSurvives DEF ServeApi
    <2>5. CASE PutTheme(c)
        <3>1. PICK s \in Sessions(c.sent), d \in Requests :
                Ask(s, FALSE) /\ Becomes(c, d) /\ Further(c, d) /\ d.set = c.set
            BY <2>5, PutThemeDoes
        <3> QED BY <2>5, <3>1, AskSurvives DEF PutTheme
    <2> QED BY <2>1, <2>2, <2>3, <2>4, <2>5, EndSurvives, GuardSurvives, CallbackSurvives, AnswerSurvives
<1>4. CASE Tick
    BY <1>4, QuietlySurvives DEF Tick, Users
<1>5. CASE ProviderTrouble
    <2>1. /\ provider'.rotates = provider.rotates /\ past'.lost = past.lost /\ past'.raced = past.raced
          /\ past'.ended \/ (provider'.live = provider.live /\ past' = past)
          /\ cookie' = cookie /\ calls' = calls
        BY <1>5, ProviderTroubleDoes
    <2>2. CASE past'.ended
        BY <2>2 DEF SurviveInv
    <2>3. CASE provider'.live = provider.live /\ past' = past
        BY <2>1, <2>3, QuietlySurvives DEF Users
    <2> QED BY <2>1, <2>2, <2>3
<1>6. ASSUME NEW c \in calls, Lose(c) PROVE SurviveInv'
    BY <1>6, LoseDoes DEF SurviveInv
<1>7. CASE UNCHANGED vars
    BY <1>7, QuietlySurvives DEF vars, Users
<1> QED BY <1>1, <1>2, <1>3, <1>4, <1>5, <1>6, <1>7, UserSends DEF Next

LEMMA InitSurvives == Init => SurviveInv
<1> SUFFICES ASSUME Init PROVE SurviveInv
    OBVIOUS
<1>1. Users = {} /\ Held(cookie)
    <2>1. provider.live = {0} /\ calls = {}
        BY DEF Init
    <2>2. cookie = NoSession \/ cookie.rt = 0
        BY DEF Init, Token
    <2> QED BY <2>1, <2>2, NoToken DEF Users, Held
<1> QED BY <1>1 DEF SurviveInv, Shared, Alone

\* With nothing under way the browser holds a refresh token the provider takes,
\* but for the exceptions the property names (config.ts:153-164).
THEOREM SessionIsKept == Spec => []SessionSurvives
<1>1. TypeInv /\ SurviveInv => SessionSurvives
    <2> SUFFICES ASSUME TypeInv, SurviveInv, cookie # NoSession, ~past.lost, ~past.ended,
                        \A c \in calls : ~Carries(c), provider.rotates => ~past.raced
                 PROVE  cookie.rt \in provider.live
        BY DEF SessionSurvives
    <2>1. cookie \in Tokens
        BY DEF TypeInv
    <2>2. \A c \in Users : c.sent = NoSession
        BY DEF Users, Carries
    <2>3. Held(cookie)
        BY <2>2 DEF SurviveInv, Shared, Alone
    <2> QED BY <2>1, <2>3 DEF Held
<1> QED BY <1>1, InitTypes, NextTypes, InitSurvives, NextSurvives, PTL DEF Spec

-----------------------------------------------------------------------------
(* The theme. *)

\* The browser is on its way to one page at most.
MoveInv ==
  /\ \A c, d \in calls : c.op \in Moves /\ d.op \in Moves => c = d
  /\ \A c \in calls : c.op \in Moves => tab.loading

\* Whoever has a session has a row.
RowInv ==
  /\ cookie \in Tokens \/ tab.at = "settings" => row # NoRow
  /\ \A c \in calls : /\ c.sent \in Tokens \/ c.set \in Tokens => row # NoRow
                      /\ c.go = "settings" => c.sent \in Tokens

Stored == \E c \in Puts : c.go = "ok"

ThemeInv ==
  ~past.crossed /\ ~past.lost =>
    /\ \A c, d \in Puts : c = d
    /\ \A c \in Puts : tab.at = "settings" => tab.put = c.n
    /\ \A c \in calls : c.op = "nav" /\ c.path = "settings" => Puts = {}
    /\ \A c \in calls : c.go = "settings" => c.card = row
    /\ \A c \in Puts : c.go = "ok" => c.theme = row
    /\ ~Stored => /\ look # NoTheme => look = row
                  /\ tab.at = "settings" => tab.active = row

\* What the server does to a request and to the row, short of answering.
LEMMA ServerDoes ==
    ASSUME TypeInv, NEW c \in calls,
           \/ Middleware(c) \/ Render(c) \/ ServeApi(c) \/ PutTheme(c) \/ EndSession(c) \/ Guard(c) \/ Callback(c)
    PROVE  \E d \in Requests :
             /\ Becomes(c, d) /\ Further(c, d) /\ UNCHANGED <<cookie, look, tab>>
             /\ past'.crossed = past.crossed /\ past'.quiet = past.quiet /\ (past.lost => past'.lost)
             /\ d.set \in Tokens => c.sent \in Tokens \/ c.set \in Tokens \/ (d.op = "callback" /\ row' # NoRow)
             /\ d.go = "settings" => c.sent \in Tokens /\ (row # NoRow => d.card = row)
             /\ d.op = "put" /\ d.go = "ok" => d.theme \in Themes /\ row' = d.theme
             /\ row' = row \/ (d.op = "put" /\ d.go = "ok") \/ (row = NoRow /\ row' # NoRow)
<1>1. c.sent \in Tokens \cup {NoSession}
    BY RequestFields
<1>2. ASSUME NEW s \in Sessions(c.sent), NEW kept \in BOOLEAN, Ask(s, kept)
      PROVE  past'.crossed = past.crossed /\ past'.quiet = past.quiet /\ (past.lost => past'.lost)
    BY <1>1, <1>2, AskDoes
<1>3. CASE Middleware(c)
    <2>1. PICK s \in Sessions(c.sent), d \in Requests :
             /\ Ask(s, TRUE) /\ Becomes(c, d) /\ Further(c, d)
             /\ d.set = IF s.token = NoSession THEN Keep ELSE s.token
             /\ d.op = "put" => d.go # "ok"
             /\ d.go # "settings"
        BY <1>3, MiddlewareDoes
    <2>2. s.token = NoSession <=> c.sent = NoSession
        BY <1>1, SessionsGive
    <2>3. UNCHANGED <<cookie, look, tab>> /\ row' = row
        BY <1>3 DEF Middleware
    <2>4. d.set \in Tokens => c.sent \in Tokens
        BY <1>1, <2>1, <2>2, NoToken
    <2> QED BY <1>2, <2>1, <2>3, <2>4
<1>4. CASE Render(c)
    <2>1. PICK s \in Sessions(c.sent), d \in Requests :
             /\ Ask(s, FALSE) /\ Becomes(c, d) /\ Further(c, d) /\ d.set = c.set /\ d.op = "nav"
             /\ d.go = "settings" => c.sent # NoSession /\ (row # NoRow => d.card = row)
        BY <1>4, RenderDoes
    <2>2. UNCHANGED <<cookie, look, tab>> /\ row' = row
        BY <1>4 DEF Render
    <2> QED BY <1>1, <1>2, <2>1, <2>2
<1>5. CASE ServeApi(c)
    <2>1. PICK s \in Sessions(c.sent), d \in Requests :
             /\ Ask(s, FALSE) /\ Becomes(c, d) /\ Further(c, d) /\ d.set = c.set /\ d.op = "api"
        BY <1>5, ServeApiDoes
    <2>2. d.go # "settings"
        BY <2>1 DEF Further, Staged
    <2>3. UNCHANGED <<cookie, look, tab>> /\ row' = row
        BY <1>5 DEF ServeApi
    <2> QED BY <1>2, <2>1, <2>2, <2>3
<1>6. CASE PutTheme(c)
    <2>1. PICK s \in Sessions(c.sent), d \in Requests :
             /\ Ask(s, FALSE) /\ Becomes(c, d) /\ Further(c, d) /\ d.set = c.set /\ d.op = "put"
             /\ \/ d.go = "ok" /\ row' = d.theme /\ d.theme \in Themes
                \/ d.go # "ok" /\ row' = row
        BY <1>6, PutThemeDoes
    <2>2. d.go # "settings"
        BY <2>1 DEF Further, Staged
    <2>3. UNCHANGED <<cookie, look, tab>>
        BY <1>6 DEF PutTheme
    <2> QED BY <1>2, <2>1, <2>2, <2>3
<1>7. CASE EndSession(c)
    <2>1. PICK d \in Requests :
             Becomes(c, d) /\ Further(c, d) /\ d.set = NoSession /\ d.op = "signout" /\ d.go = "home"
        BY <1>7, EndSessionDoes
    <2>2. UNCHANGED <<cookie, look, tab>> /\ row' = row /\ past' = past
        BY <1>7 DEF EndSession
    <2> QED BY <2>1, <2>2, NoToken
<1>8. CASE Guard(c)
    <2>1. PICK d \in Requests : Becomes(c, d) /\ Further(c, d) /\ d.set = c.set /\ d.go = ""
        BY <1>8, GuardDoes
    <2>2. UNCHANGED <<cookie, look, tab>> /\ row' = row /\ past' = past
        BY <1>8 DEF Guard
    <2> QED BY <2>1, <2>2
<1>9. CASE Callback(c)
    <2>1. PICK d \in Requests :
             /\ Becomes(c, d) /\ Further(c, d) /\ d.op \in {"callback", "other"} /\ d.go # "settings"
             /\ \/ d.set = c.set /\ UNCHANGED <<provider, row>>
                \/ d.op = "callback" /\ row' = IF row = NoRow THEN Default ELSE row
        BY <1>9, CallbackDoes
    <2>2. UNCHANGED <<cookie, look, tab>> /\ past' = past
        BY <1>9 DEF Callback
    <2>3. (d.set = c.set /\ row' = row) \/ (d.op = "callback" /\ row' # NoRow /\ (row # NoRow => row' = row))
        BY <2>1, SessionAssumption
    <2> QED BY <2>1, <2>2, <2>3
<1> QED BY <1>3, <1>4, <1>5, <1>6, <1>7, <1>8, <1>9

LEMMA ServerTheme ==
    ASSUME TypeInv, MoveInv, RowInv, ThemeInv, NEW c \in calls,
           \/ Middleware(c) \/ Render(c) \/ ServeApi(c) \/ PutTheme(c) \/ EndSession(c) \/ Guard(c) \/ Callback(c)
    PROVE  MoveInv' /\ RowInv' /\ ThemeInv'
<1>1. PICK d \in Requests :
             /\ Becomes(c, d) /\ Further(c, d) /\ UNCHANGED <<cookie, look, tab>>
             /\ past'.crossed = past.crossed /\ past'.quiet = past.quiet /\ (past.lost => past'.lost)
             /\ d.set \in Tokens => c.sent \in Tokens \/ c.set \in Tokens \/ (d.op = "callback" /\ row' # NoRow)
             /\ d.go = "settings" => c.sent \in Tokens /\ (row # NoRow => d.card = row)
             /\ d.op = "put" /\ d.go = "ok" => d.theme \in Themes /\ row' = d.theme
             /\ row' = row \/ (d.op = "put" /\ d.go = "ok") \/ (row = NoRow /\ row' # NoRow)
    BY ServerDoes
<1>2. /\ d.op = c.op /\ d.n = c.n /\ d.path = c.path /\ d.sent = c.sent /\ Staged(d)
      /\ calls' = (calls \ {c}) \cup {d} /\ c.go = ""
    <2>1. Staged(c) /\ c.stage # "done"
        BY <1>1, RequestFields DEF Further
    <2>2. c.go = ""
        BY <2>1 DEF Staged
    <2> QED BY <1>1, <2>2 DEF Becomes, Further
<1>3. MoveInv'
    <2>1. tab' = tab /\ c.op = d.op /\ calls' = (calls \ {c}) \cup {d}
        BY <1>1, <1>2
    <2> QED BY <2>1 DEF MoveInv
<1>4. row # NoRow => row' # NoRow
    BY <1>1, SessionAssumption
<1>5. RowInv'
    BY <1>1, <1>2, <1>4 DEF RowInv
<1>6. ASSUME ~past'.crossed, ~past'.lost PROVE ThemeInv'
    <2>1. /\ \A e, f \in Puts : e = f
          /\ \A e \in Puts : tab.at = "settings" => tab.put = e.n
          /\ \A e \in calls : e.op = "nav" /\ e.path = "settings" => Puts = {}
          /\ \A e \in calls : e.go = "settings" => e.card = row
          /\ \A e \in Puts : e.go = "ok" => e.theme = row
          /\ ~Stored => /\ look # NoTheme => look = row
                        /\ tab.at = "settings" => tab.active = row
        BY <1>1, <1>6 DEF ThemeInv
    <2>2. IF d.op = "put" THEN c \in Puts /\ Puts' = (Puts \ {c}) \cup {d} ELSE Puts' = Puts
        BY <1>2 DEF Puts
    <2>3. /\ \A e, f \in Puts' : e = f
          /\ \A e \in Puts' : tab'.at = "settings" => tab'.put = e.n
        BY <1>1, <1>2, <2>1, <2>2
    <2>4. \A e \in calls' : e.op = "nav" /\ e.path = "settings" => Puts' = {}
        BY <1>2, <2>1, <2>2
    <2>5. row # NoRow /\ ~(d.op = "put" /\ d.go = "ok") => row' = row
        BY <1>1
    <2>6. ASSUME NEW e \in calls', e.go = "settings" PROVE e.card = row'
        <3>1. Staged(e)
            BY <1>2, <2>6 DEF TypeInv
        <3>2. e.op = "nav" /\ e.path = "settings"
            BY <2>6, <3>1 DEF Staged
        <3>3. Puts' = {}
            BY <2>4, <2>6, <3>2
        <3>4. d.op # "put"
            BY <2>2, <3>3
        <3>5. row # NoRow
            BY <1>1, <1>2, <2>6 DEF RowInv
        <3> QED BY <1>1, <1>2, <2>1, <2>5, <2>6, <3>4, <3>5
    <2>7. ASSUME NEW e \in Puts', e.go = "ok" PROVE e.theme = row'
        <3>1. CASE e = d /\ d.op = "put"
            BY <1>1, <2>7, <3>1
        <3>2. CASE d.op # "put" \/ e # d
            <4>1. e \in Puts /\ d.op # "put" /\ e.theme = row
                BY <2>1, <2>2, <2>7, <3>2
            <4>2. e.theme \in Themes
                BY <4>1 DEF Puts, TypeInv, Requests
            <4> QED BY <2>5, <4>1, <4>2, SessionAssumption
        <3> QED BY <3>1, <3>2
    <2>8. ASSUME ~Stored'
          PROVE  /\ look' # NoTheme => look' = row'
                 /\ tab'.at = "settings" => tab'.active = row'
        <3>1. ~(d.op = "put" /\ d.go = "ok")
            BY <1>2, <2>2, <2>8 DEF Stored
        <3>2. ~Stored
            BY <1>2, <2>2, <2>8 DEF Stored
        <3>3. look # NoTheme => row # NoRow /\ look = row
            BY <2>1, <3>2, SessionAssumption DEF TypeInv
        <3>4. tab.at = "settings" => row # NoRow /\ tab.active = row
            BY <2>1, <3>2 DEF RowInv
        <3> QED BY <1>1, <2>5, <3>1, <3>3, <3>4
    <2> QED BY <2>3, <2>4, <2>6, <2>7, <2>8 DEF ThemeInv
<1> QED BY <1>3, <1>5, <1>6 DEF ThemeInv

LEMMA SendTheme ==
    ASSUME TypeInv, MoveInv, RowInv, ThemeInv, NEW op, NEW path, NEW theme, NEW next, Sends(op, path, theme, next)
    PROVE  MoveInv' /\ RowInv' /\ ThemeInv'
<1>1. /\ op \in {"nav", "api", "put", "callback", "signout", "other"} /\ path \in Pages \cup {""}
      /\ op = "nav" => path \in Pages
      /\ theme \in Themes /\ next \in TabSet /\ Send(op, path, theme, next)
    BY DEF Sends
<1>2. PICK d : calls' = calls \cup {d} /\ Fresh(d, op, path) /\ d.sent = cookie /\ d.n = left.sends
    BY <1>1, SendDoes, Zenon
<1>3. tab' = next /\ row' = row /\ cookie' = cookie /\ look' = look
    BY <1>1 DEF Send
<1>4. past'.lost = past.lost /\ (past'.crossed <=> past.crossed \/ (Puts # {} /\ (op = "put" \/ path = "settings")))
    BY <1>1, SendDoes
<1>5. d.op = op /\ d.path = path /\ d.set = Keep /\ d.go = ""
    BY <1>2 DEF Fresh
<1>6. tab \in TabSet
    BY DEF TypeInv, TabSet
<1>7. /\ tab'.at = tab.at /\ tab'.active = tab.active
      /\ tab'.loading = (IF op \in Moves THEN TRUE ELSE tab.loading)
      /\ tab'.put = (IF op = "put" THEN left.sends ELSE tab.put)
    BY <1>1, <1>3, <1>6 DEF Sends, Moves, TabSet
<1>8. op \in Moves \cup {"put"} => \A c \in calls : c.op \notin Moves
    BY DEF Sends, MoveInv, Moves
<1>9. MoveInv'
    BY <1>2, <1>5, <1>7, <1>8 DEF MoveInv
<1>10. RowInv'
    BY <1>2, <1>3, <1>5, <1>7, NoToken DEF RowInv
<1>11. ASSUME ~past'.crossed, ~past'.lost PROVE ThemeInv'
    <2>1. /\ \A e, f \in Puts : e = f
          /\ \A e \in Puts : tab.at = "settings" => tab.put = e.n
          /\ \A e \in calls : e.op = "nav" /\ e.path = "settings" => Puts = {}
          /\ \A e \in calls : e.go = "settings" => e.card = row
          /\ \A e \in Puts : e.go = "ok" => e.theme = row
          /\ ~Stored => /\ look # NoTheme => look = row
                        /\ tab.at = "settings" => tab.active = row
        BY <1>4, <1>11 DEF ThemeInv
    <2>2. IF op = "put" THEN Puts = {} /\ Puts' = {d} ELSE Puts' = Puts
        BY <1>2, <1>4, <1>5, <1>11 DEF Puts
    <2>3. /\ \A e, f \in Puts' : e = f
          /\ \A e \in Puts' : tab'.at = "settings" => tab'.put = e.n
        BY <1>2, <1>7, <2>1, <2>2
    <2>4. \A e \in calls' : e.op = "nav" /\ e.path = "settings" => Puts' = {}
        <3>1. CASE op = "put"
            BY <1>2, <1>5, <1>8, <3>1 DEF Moves
        <3>2. CASE op # "put"
            BY <1>2, <1>4, <1>5, <1>11, <2>1, <2>2, <3>2
        <3> QED BY <3>1, <3>2
    <2>5. \A e \in calls' : e.go = "settings" => e.card = row'
        BY <1>2, <1>3, <1>5, <2>1
    <2>6. \A e \in Puts' : e.go = "ok" => e.theme = row'
        BY <1>3, <1>5, <2>1, <2>2
    <2>7. Stored' <=> Stored
        BY <1>5, <2>2 DEF Stored
    <2> QED BY <1>3, <1>7, <2>1, <2>3, <2>4, <2>5, <2>6, <2>7 DEF ThemeInv
<1> QED BY <1>9, <1>10, <1>11 DEF ThemeInv

LEMMA AnswerTheme ==
    ASSUME TypeInv, MoveInv, RowInv, ThemeInv, NEW c \in calls, Answer(c)
    PROVE  MoveInv' /\ RowInv' /\ ThemeInv'
<1>1. /\ cookie' = (IF c.set = Keep THEN cookie ELSE c.set) /\ row' = row
      /\ look' = (IF c.setLook = Keep THEN look ELSE c.setLook)
      /\ past'.lost = past.lost /\ past'.crossed = past.crossed
    BY ArriveDoes
<1>2. c \in Requests /\ Staged(c) /\ tab \in TabSet
    BY RequestFields DEF TypeInv, TabSet
<1>3. look' = IF c.op = "put" /\ c.go = "ok" THEN c.theme ELSE look
    BY <1>1, <1>2 DEF Staged
<1>4. CASE /\ c.op \in Moves /\ c.go # "settings" /\ tab' = tab
           /\ \E d : calls' = (calls \ {c}) \cup {d} /\ Fresh(d, "nav", c.go) /\ d.sent = cookie'
    <2>1. PICK d : calls' = (calls \ {c}) \cup {d} /\ Fresh(d, "nav", c.go) /\ d.sent = cookie'
        BY <1>4
    <2>2. d.op = "nav" /\ d.path = c.go /\ d.set = Keep /\ d.go = ""
        BY <2>1 DEF Fresh
    <2>3. MoveInv'
        BY <1>4, <2>1, <2>2 DEF MoveInv, Moves
    <2>4. RowInv'
        BY <1>1, <1>4, <2>1, <2>2, NoToken DEF RowInv
    <2>5. Puts' = Puts /\ look' = look /\ row' = row
        BY <1>1, <1>3, <1>4, <2>1, <2>2 DEF Puts, Moves
    <2>6. Stored' <=> Stored
        BY <2>5 DEF Stored
    <2>7. ThemeInv'
        BY <1>1, <1>4, <2>1, <2>2, <2>5, <2>6 DEF ThemeInv
    <2> QED BY <2>3, <2>4, <2>7
<1>5. CASE /\ calls' = calls \ {c}
           /\ \/ c.op = "nav" /\ tab'.at = c.path /\ tab'.active = c.card /\ c.go = c.path
              \/ c.op \in {"callback", "signout"} /\ tab'.at = "login"
              \/ /\ c.op = "put" /\ c.go = "ok" /\ tab'.at = tab.at /\ tab'.loading = tab.loading
                 /\ tab.put = c.n => tab'.active = c.theme
              \/ /\ c.op \notin Moves /\ tab'.at = tab.at /\ tab'.loading = tab.loading
                 /\ tab'.active = tab.active /\ (c.op = "put" => c.go # "ok")
           /\ c.op \notin Moves /\ c.op # "put" => tab'.put = tab.put
    <2>1. MoveInv'
        BY <1>5 DEF MoveInv, Moves
    <2>2. RowInv'
        BY <1>1, <1>5, NoToken DEF RowInv
    <2>3. ASSUME ~past'.crossed, ~past'.lost PROVE ThemeInv'
        <3>1. /\ \A e, f \in Puts : e = f
              /\ \A e \in Puts : tab.at = "settings" => tab.put = e.n
              /\ \A e \in calls : e.op = "nav" /\ e.path = "settings" => Puts = {}
              /\ \A e \in calls : e.go = "settings" => e.card = row
              /\ \A e \in Puts : e.go = "ok" => e.theme = row
              /\ ~Stored => /\ look # NoTheme => look = row
                            /\ tab.at = "settings" => tab.active = row
            BY <1>1, <2>3 DEF ThemeInv
        <3>2. IF c.op = "put" THEN c \in Puts /\ Puts' = {} ELSE Puts' = Puts
            BY <1>5, <3>1 DEF Puts
        <3>3. CASE c.op = "put"
            <4>1. tab'.at = tab.at /\ Puts = {c}
                BY <1>5, <3>1, <3>2, <3>3 DEF Moves
            <4>2. look' # NoTheme => look' = row
                BY <1>3, <3>1, <3>3, <4>1 DEF Stored
            <4>3. tab'.at = "settings" => tab'.active = row
                BY <1>5, <3>1, <3>3, <4>1 DEF Stored, Moves
            <4> QED BY <1>1, <1>5, <3>1, <3>2, <3>3, <4>2, <4>3 DEF ThemeInv
        <3>4. CASE c.op # "put"
            <4>1. Puts' = Puts /\ (Stored' <=> Stored) /\ look' = look
                BY <1>3, <3>2, <3>4 DEF Stored
            <4>2. tab'.at = "settings" => \/ Puts = {} /\ tab'.active = row
                                          \/ tab.at = "settings" /\ tab'.put = tab.put /\ tab'.active = tab.active
                BY <1>5, <3>1, <3>4 DEF Moves
            <4>3. /\ \A e \in Puts : tab'.at = "settings" => tab'.put = e.n
                  /\ ~Stored /\ tab'.at = "settings" => tab'.active = row
                BY <3>1, <4>2
            <4> QED BY <1>1, <1>5, <3>1, <4>1, <4>3 DEF ThemeInv
        <3> QED BY <3>3, <3>4
    <2> QED BY <2>1, <2>2, <2>3 DEF ThemeInv
<1> QED BY <1>4, <1>5, FollowDoes

LEMMA NextTheme ==
    TypeInv /\ MoveInv /\ RowInv /\ ThemeInv /\ [Next]_vars => MoveInv' /\ RowInv' /\ ThemeInv'
<1> SUFFICES ASSUME TypeInv, MoveInv, RowInv, ThemeInv, [Next]_vars PROVE MoveInv' /\ RowInv' /\ ThemeInv'
    OBVIOUS
<1>1. ASSUME NEW op, NEW path, NEW theme, NEW next, Sends(op, path, theme, next)
      PROVE  MoveInv' /\ RowInv' /\ ThemeInv'
    BY <1>1, SendTheme
<1>2. ASSUME NEW t \in Themes, Elsewhere(t) PROVE MoveInv' /\ RowInv' /\ ThemeInv'
    <2>1. past'.crossed /\ row' # NoRow /\ UNCHANGED <<cookie, tab, calls>>
        BY <1>2, ElsewhereDoes, SessionAssumption
    <2> QED BY <2>1 DEF MoveInv, RowInv, ThemeInv
<1>3. CASE ServerStep
    BY <1>3, ServerTheme, AnswerTheme DEF ServerStep
<1>4. ASSUME UNCHANGED <<row, cookie, look, tab, calls>>, past'.lost = past.lost, past'.crossed = past.crossed
      PROVE  MoveInv' /\ RowInv' /\ ThemeInv'
    <2>1. MoveInv' /\ RowInv'
        BY <1>4 DEF MoveInv, RowInv
    <2>2. ThemeInv'
        BY <1>4 DEF ThemeInv, Stored, Puts
    <2> QED BY <2>1, <2>2
<1>5. CASE Tick
    BY <1>4, <1>5 DEF Tick
<1>6. CASE ProviderTrouble
    BY <1>4, <1>6, ProviderTroubleDoes
<1>7. ASSUME NEW c \in calls, Lose(c) PROVE MoveInv' /\ RowInv' /\ ThemeInv'
    <2>1. /\ calls' = calls \ {c} /\ past'.lost /\ row' = row /\ cookie' = cookie
          /\ tab'.at \in {"login", tab.at}
          /\ c.op \in Moves \/ (tab'.at = tab.at /\ tab'.loading = tab.loading)
        BY <1>7, LoseDoes
    <2>2. MoveInv'
        BY <2>1 DEF MoveInv
    <2>3. RowInv'
        BY <2>1 DEF RowInv
    <2> QED BY <2>1, <2>2, <2>3 DEF ThemeInv
<1>8. CASE UNCHANGED vars
    BY <1>4, <1>8 DEF vars
<1> QED BY <1>1, <1>2, <1>3, <1>5, <1>6, <1>7, <1>8, UserSends DEF Next

LEMMA InitTheme == Init => MoveInv /\ RowInv /\ ThemeInv
<1> SUFFICES ASSUME Init PROVE MoveInv /\ RowInv /\ ThemeInv
    OBVIOUS
<1>1. calls = {} /\ tab.at = "home" /\ look = NoTheme
    BY DEF Init
<1>2. cookie \in Tokens => row # NoRow
    BY NoToken, SessionAssumption DEF Init
<1> QED BY <1>1, <1>2 DEF MoveInv, RowInv, ThemeInv, Puts

\* Once a change of theme is over, and none crossed another, was lost or came from
\* elsewhere, cookie and settings page show what is stored (theme/route.ts:35-55,
\* ThemeCardGrid.tsx:28-47).
THEOREM ThemeComesToRest == Spec => []RestingThemeIsStored
<1>1. ThemeInv => RestingThemeIsStored
    BY DEF ThemeInv, RestingThemeIsStored, Stored
<1> QED BY <1>1, InitTypes, NextTypes, InitTheme, NextTheme, PTL DEF Spec

-----------------------------------------------------------------------------
(* A sign-out is final. *)

\* It brings no session, unless it is a sign-in.
Silent(c) == c.op = "other" \/ (c.sent = NoSession /\ (c.op # "callback" => c.set \notin Tokens))

QuietInv == past.quiet => cookie = NoSession /\ \A c \in calls : Silent(c)

LEMMA NextQuiet == TypeInv /\ QuietInv /\ [Next]_vars => QuietInv'
<1> SUFFICES ASSUME TypeInv, QuietInv, [Next]_vars PROVE QuietInv'
    OBVIOUS
<1>1. ASSUME NEW op, NEW path, NEW theme, NEW next, Sends(op, path, theme, next) PROVE QuietInv'
    <2>1. /\ op \in {"nav", "api", "put", "callback", "signout", "other"} /\ path \in Pages \cup {""}
          /\ op = "nav" => path \in Pages
          /\ theme \in Themes /\ next \in TabSet /\ Send(op, path, theme, next)
        BY <1>1 DEF Sends
    <2>2. PICK d : calls' = calls \cup {d} /\ Fresh(d, op, path) /\ d.sent = cookie
        BY <2>1, SendDoes, Zenon
    <2>3. past'.quiet = past.quiet /\ cookie' = cookie
        BY <2>1, SendDoes DEF Send
    <2> QED BY <2>2, <2>3, NoToken DEF QuietInv, Silent, Fresh
<1>2. ASSUME NEW c \in calls,
             \/ Middleware(c) \/ Render(c) \/ ServeApi(c) \/ PutTheme(c) \/ EndSession(c) \/ Guard(c) \/ Callback(c)
      PROVE  QuietInv'
    <2>1. PICK d \in Requests :
             /\ Becomes(c, d) /\ Further(c, d) /\ UNCHANGED <<cookie, look, tab>> /\ past'.quiet = past.quiet
             /\ d.set \in Tokens => c.sent \in Tokens \/ c.set \in Tokens \/ d.op = "callback"
        BY <1>2, ServerDoes
    <2>2. calls' = (calls \ {c}) \cup {d} /\ d.op = c.op /\ d.sent = c.sent
        BY <2>1 DEF Becomes, Further
    <2>3. Silent(c) => Silent(d)
        BY <2>1, <2>2, NoToken DEF Silent
    <2> QED BY <2>1, <2>2, <2>3 DEF QuietInv
<1>3. ASSUME NEW c \in calls, Answer(c) PROVE QuietInv'
    <2>1. c \in Requests /\ Staged(c)
        BY RequestFields
    <2>2. /\ cookie' = (IF c.set = Keep THEN cookie ELSE c.set)
          /\ cookie' \in Tokens \cup {NoSession}
          /\ past'.quiet => /\ c.op # "callback"
                            /\ past.quiet \/ (c.op = "signout" /\ c.go = "home" /\ \A d \in calls \ {c} : ~Carries(d))
        BY <1>3, ArriveDoes
    <2>3. ASSUME past'.quiet PROVE cookie' = NoSession /\ \A e \in calls \ {c} : Silent(e)
        <3>1. CASE past.quiet
            <4>1. cookie = NoSession /\ Silent(c) /\ c.op # "callback" /\ \A e \in calls : Silent(e)
                BY <2>2, <2>3, <3>1 DEF QuietInv
            <4> QED BY <2>1, <2>2, <4>1, NoToken DEF Silent, Staged
        <3>2. CASE c.op = "signout" /\ c.go = "home" /\ \A d \in calls \ {c} : ~Carries(d)
            <4>1. cookie' = NoSession
                BY <2>1, <2>2, <3>2, NoToken DEF Staged
            <4>2. \A e \in calls \ {c} : Silent(e)
                BY <3>2, NoToken DEF Carries, Silent
            <4> QED BY <4>1, <4>2
        <3> QED BY <2>2, <2>3, <3>1, <3>2
    <2>4. calls' = calls \ {c} \/ \E d : calls' = (calls \ {c}) \cup {d} /\ Fresh(d, "nav", c.go) /\ d.sent = cookie'
        BY <1>3, FollowDoes
    <2> QED BY <2>3, <2>4, NoToken DEF QuietInv, Silent, Fresh
<1>4. ASSUME cookie' = cookie, calls' \subseteq calls, past'.quiet = past.quiet PROVE QuietInv'
    BY <1>4 DEF QuietInv, Silent
<1>5. ASSUME NEW t \in Themes, Elsewhere(t) PROVE QuietInv'
    BY <1>4, <1>5, ElsewhereDoes
<1>6. CASE Tick
    BY <1>4, <1>6 DEF Tick
<1>7. CASE ProviderTrouble
    BY <1>4, <1>7, ProviderTroubleDoes
<1>8. ASSUME NEW c \in calls, Lose(c) PROVE QuietInv'
    BY <1>4, <1>8, LoseDoes
<1>9. CASE UNCHANGED vars
    BY <1>4, <1>9 DEF vars
<1> QED BY <1>1, <1>2, <1>3, <1>5, <1>6, <1>7, <1>8, <1>9, UserSends DEF Next, ServerStep

LEMMA InitQuiet == Init => QuietInv
BY DEF Init, QuietInv

\* After a sign-out with no other request under way the browser has no session
\* until the next sign-in (middleware.ts:26-53, user-menu-actions.ts:6-8).
THEOREM SignOutIsFinal == Spec => []QuietSignOutIsFinal
<1>1. QuietInv => QuietSignOutIsFinal
    BY DEF QuietInv, QuietSignOutIsFinal
<1> QED BY <1>1, InitTypes, NextTypes, InitQuiet, NextQuiet, PTL DEF Spec
=============================================================================
