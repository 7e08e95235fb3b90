------------------------------- MODULE Session -------------------------------
(***************************************************************************)
(* Signing in and staying signed in (packages/auth/src/config.ts; apps/web:*)
(* middleware.ts, api/auth/[...nextauth]/route.ts, the login, dashboard,   *)
(* settings and notes pages, lib/api/responses.ts), and the preference     *)
(* that travels in a cookie next to the session: the theme                 *)
(* (api/users/me/theme/route.ts, lib/theme, ThemeCardGrid.tsx).            *)
(*                                                                         *)
(* The session is a cookie: a request carries the copy the browser had     *)
(* when it was sent, and the answer replaces whatever it has by then.      *)
(* Each request asks for the session twice, in the middleware and in its   *)
(* handler, both times with the cookie it came with; only what the         *)
(* middleware returns is set in the answer.  Either may refresh the access *)
(* token, at a provider that takes a refresh token any number of times, or *)
(* only once.  One browser with one tab; its address is shared by others.  *)
(***************************************************************************)
EXTENDS RateLimit

CONSTANTS Themes, Default,
          NoSession,  \* no session cookie
          NoTheme,    \* no theme cookie
          NoRow,      \* the user has never signed in
          Keep,       \* an answer that sets no cookie
          Life,       \* seconds an access token is good for
          Margin,     \* seconds before its end when it is refreshed
          MaxTime, MaxSends, MaxTrouble   \* bounds

ASSUME SessionAssumption ==
  /\ Default \in Themes /\ Life \in Nat /\ Margin \in Nat /\ Margin < Life
  /\ {MaxTime, MaxSends, MaxTrouble} \subseteq Nat
  /\ {NoTheme, NoRow, Keep} \cap Themes = {} /\ Keep # NoSession
  /\ {NoSession, Keep} \cap [rt : Nat, exp : Nat, err : BOOLEAN] = {}

VARIABLES now,
          provider,  \* is it up, refresh tokens it takes, the next one, does it rotate them
          row,       \* the theme in the user's row
          limiter,   \* the window of auth.flow for the address
          cookie,    \* the session cookie
          look,      \* the theme cookie
          tab,       \* the page and its theme, the card that is active, the change it waits for
          calls,     \* requests under way
          past,      \* what has happened, for the properties
          left       \* what is left of the bounds

vars == <<now, provider, row, limiter, cookie, look, tab, calls, past, left>>

Pages == {"home", "login", "loginError", "dashboard", "settings", "notes"}
Public == {"home", "login", "loginError"}

Token(rt, exp) == [rt |-> rt, exp |-> exp, err |-> FALSE]

Call(n, op, path, theme) ==
  [n |-> n, op |-> op, path |-> path, theme |-> theme, sent |-> cookie, look |-> look,
   stage |-> "sent", set |-> Keep, setLook |-> Keep, go |-> "", card |-> Default, stamp |-> 0]

Init ==
  /\ now = 0 /\ limiter = NoAttempts /\ look = NoTheme /\ calls = {}
  /\ \E rotates \in BOOLEAN :
       provider = [up |-> TRUE, live |-> {0}, next |-> 1, rotates |-> rotates]
  /\ \/ row = NoRow /\ cookie = NoSession
     \/ row = Default /\ cookie = Token(0, Life)
  /\ tab = [at |-> "home", loading |-> FALSE, theme |-> Default, active |-> Default, put |-> 0]
  /\ past = [lost |-> FALSE, ended |-> FALSE, raced |-> FALSE, crossed |-> FALSE, quiet |-> FALSE]
  /\ left = [sends |-> MaxSends, trouble |-> MaxTrouble]

-----------------------------------------------------------------------------
(***************************************************************************)
(* The jwt callback.                                                       *)
(***************************************************************************)
Valid(t) == now + Margin < t.exp

\* What the provider makes of a refresh token it takes.
Issue(rt) ==
  [provider EXCEPT !.live = (IF provider.rotates THEN @ \ {rt} ELSE @) \cup {provider.next},
                   !.next = @ + 1]

\* Mutant: the new access token is stored without the refresh token that came with it.
RefreshedKeepsOld(t) == [t EXCEPT !.exp = now + Life, !.err = FALSE]

Refreshed(t) == [t EXCEPT !.rt = provider.next, !.exp = now + Life, !.err = FALSE]

\* What asking for the session may give: the token, the provider after it, and
\* how much trouble it took (the answer to a refresh may be lost).
Sessions(t) ==
  IF t = NoSession \/ (t # NoSession /\ Valid(t))
    THEN {[token |-> t, provider |-> provider, trouble |-> 0]}
  ELSE IF provider.up /\ t.rt \in provider.live
    THEN {[token |-> Refreshed(t), provider |-> Issue(t.rt), trouble |-> 0]} \cup
         (IF left.trouble = 0 THEN {}
          ELSE {[token |-> [t EXCEPT !.err = TRUE], provider |-> Issue(t.rt), trouble |-> 1]})
    ELSE {[token |-> [t EXCEPT !.err = TRUE], provider |-> provider, trouble |-> 0]}

\* Only the middleware's token gets into the answer: what a handler refreshes
\* is used once and forgotten.
Ask(s, kept) ==
  /\ provider' = s.provider
  /\ left' = [left EXCEPT !.trouble = @ - s.trouble]
  /\ past' = [past EXCEPT !.lost = @ \/ s.trouble > 0,
                          !.raced = @ \/ (~kept /\ s.provider # provider)]

-----------------------------------------------------------------------------
(***************************************************************************)
(* The browser.                                                            *)
(***************************************************************************)
Puts == {c \in calls : c.op = "put"}

Send(op, path, theme, tabNow) ==
  /\ left.sends > 0 /\ left' = [left EXCEPT !.sends = @ - 1]
  /\ calls' = calls \cup {Call(left.sends, op, path, theme)}
  /\ tab' = tabNow
  /\ past' = [past EXCEPT !.raced = @ \/ \E c \in calls : c.op # "other",
                          !.crossed = @ \/ (Puts # {} /\ (op = "put" \/ path = "settings"))]
  /\ UNCHANGED <<now, provider, row, limiter, cookie, look>>

Navigate(path) == ~tab.loading /\ Send("nav", path, Default, [tab EXCEPT !.loading = TRUE])

\* A fetch of the page in the background.
CallApi == tab.at = "notes" /\ Send("api", "", Default, tab)

SelectTheme(t) ==
  /\ tab.at = "settings" /\ ~tab.loading /\ tab.put = 0 /\ t # tab.active
  /\ Send("put", "", t, [tab EXCEPT !.put = left.sends])

\* The provider has let the user in and sends the browser back.
SignIn ==
  /\ tab.at \in {"login", "loginError"} /\ ~tab.loading /\ provider.up
  /\ Send("callback", "", Default, [tab EXCEPT !.loading = TRUE])

SignOut ==
  /\ tab.at \in {"dashboard", "settings", "notes"} /\ ~tab.loading
  /\ Send("signout", tab.at, Default, [tab EXCEPT !.loading = TRUE])

\* Somebody else behind the same address signs in.
OtherClient == Send("other", "", Default, tab)

-----------------------------------------------------------------------------
(***************************************************************************)
(* The server.                                                             *)
(***************************************************************************)
Becomes(c, d) == calls' = (calls \ {c}) \cup {d}
Done(c, go) == [c EXCEPT !.stage = "done", !.go = go]

\* Mutant: nobody who is signed in sees the sign-in page.
BounceAlways(path) == path \in {"login", "loginError"}
Bounce(path) == path = "login"

\* The middleware on a request, given its session.
Routed(c, token) ==
  LET d == [c EXCEPT !.set = IF token = NoSession THEN Keep ELSE token]
  IN  IF c.op \in {"nav", "signout"} /\ token = NoSession /\ c.path \notin Public THEN Done(d, "login")
      ELSE IF c.op = "nav" /\ token # NoSession /\ Bounce(c.path) THEN Done(d, "dashboard")
      ELSE IF c.op \in {"api", "put"} /\ token = NoSession THEN Done(d, "refused")
      ELSE [d EXCEPT !.stage = "handler"]

Middleware(c) ==
  /\ c.stage = "sent" /\ c.op # "other"
  /\ \E s \in Sessions(c.sent) : Ask(s, TRUE) /\ Becomes(c, Routed(c, s.token))
  /\ UNCHANGED <<now, row, limiter, cookie, look, tab>>

\* Where a page leads, given the session it was rendered with.
Shows(path, token) ==
  IF path \notin {"dashboard", "settings"} THEN path
  ELSE IF token = NoSession THEN "login"
  ELSE IF token.err THEN "loginError" ELSE path

\* resolveTheme.
ThemeOf(c, token) ==
  IF c.look # NoTheme THEN c.look
  ELSE IF token # NoSession /\ row # NoRow THEN row ELSE Default

Render(c) ==
  /\ c.stage = "handler" /\ c.op = "nav"
  /\ \E s \in Sessions(c.sent) :
       /\ Ask(s, FALSE)
       /\ Becomes(c, [Done(c, Shows(c.path, s.token)) EXCEPT
                        !.theme = ThemeOf(c, s.token), !.card = IF row = NoRow THEN Default ELSE row])
  /\ UNCHANGED <<now, row, limiter, cookie, look, tab>>

\* Any other route: requireSession, and its work.
ServeApi(c) ==
  /\ c.stage = "handler" /\ c.op = "api"
  /\ \E s \in Sessions(c.sent) : Ask(s, FALSE) /\ Becomes(c, Done(c, "ok"))
  /\ UNCHANGED <<now, row, limiter, cookie, look, tab>>

\* Mutant: the cookie is set before the row is written, which fails.
PutCookieFirst(c) ==
  /\ c.stage = "handler" /\ c.op = "put"
  /\ \E s \in Sessions(c.sent) :
       /\ Ask(s, FALSE)
       /\ Becomes(c, [Done(c, "failed") EXCEPT !.setLook = c.theme])
  /\ UNCHANGED <<now, row, limiter, cookie, look, tab>>

\* PUT /api/users/me/theme: the row, then the cookie; the write may fail.
PutTheme(c) ==
  /\ c.stage = "handler" /\ c.op = "put"
  /\ \E s \in Sessions(c.sent) :
       /\ Ask(s, FALSE)
       /\ \/ row' = c.theme /\ Becomes(c, [Done(c, "ok") EXCEPT !.setLook = c.theme])
          \/ UNCHANGED row /\ Becomes(c, Done(c, "failed"))
  /\ UNCHANGED <<now, limiter, cookie, look, tab>>

\* Mutant: the session cookie stays.
EndSessionKeeps(c) ==
  /\ c.stage = "handler" /\ c.op = "signout"
  /\ Becomes(c, Done(c, "home"))
  /\ UNCHANGED <<now, provider, row, limiter, cookie, look, tab, past, left>>
EndSession(c) ==
  /\ c.stage = "handler" /\ c.op = "signout"
  /\ Becomes(c, [Done(c, "home") EXCEPT !.set = NoSession])
  /\ UNCHANGED <<now, provider, row, limiter, cookie, look, tab, past, left>>

\* The guard of the auth routes reads the clock ...
Guard(c) ==
  /\ \/ c.stage = "handler" /\ c.op = "callback"
     \/ c.stage = "sent" /\ c.op = "other"
  /\ Becomes(c, [c EXCEPT !.stage = "guard", !.stamp = now])
  /\ UNCHANGED <<now, provider, row, limiter, cookie, look, tab, past, left>>

\* ... and then the window is updated; whoever gets through is signed in, with
\* a row in the user table.
Callback(c) ==
  /\ c.stage = "guard"
  /\ limiter' = Attempt(limiter, c.stamp)
  /\ IF ~Admits(limiter, c.stamp) \/ c.op = "other"
       THEN /\ Becomes(c, [Done(c, "limited") EXCEPT !.stamp = 0])
            /\ UNCHANGED <<provider, row>>
     ELSE IF ~provider.up
       THEN /\ Becomes(c, [Done(c, "loginError") EXCEPT !.stamp = 0])
            /\ UNCHANGED <<provider, row>>
     ELSE /\ Becomes(c, [Done(c, "dashboard") EXCEPT
                           !.stamp = 0, !.set = Token(provider.next, now + Life)])
          /\ provider' = [provider EXCEPT !.live = @ \cup {provider.next}, !.next = @ + 1]
          /\ row' = IF row = NoRow THEN Default ELSE row
  /\ UNCHANGED <<now, cookie, look, tab, past, left>>

-----------------------------------------------------------------------------
(***************************************************************************)
(* Answers.                                                                *)
(***************************************************************************)
Carries(c) == c.op # "other" /\ (c.sent # NoSession \/ c.set \notin {Keep, NoSession})

\* The browser stores the cookies, then follows or shows what came.
Arrive(c) ==
  /\ cookie' = IF c.set = Keep THEN cookie ELSE c.set
  /\ look' = IF c.setLook = Keep THEN look ELSE c.setLook
  /\ past' = [past EXCEPT !.quiet =
       IF c.op = "callback" THEN FALSE
       ELSE @ \/ (c.op = "signout" /\ c.go = "home" /\ \A d \in calls \ {c} : ~Carries(d))]

Follow(c) ==
  IF c.op \in {"nav", "callback", "signout"} /\ c.go \in Pages /\ (c.op # "nav" \/ c.go # c.path)
    THEN \* a redirect: the next request leaves with the cookies just stored
         /\ calls' = (calls \ {c}) \cup
              {[Call(c.n, "nav", c.go, Default) EXCEPT !.sent = cookie', !.look = look']}
         /\ UNCHANGED tab
    ELSE /\ calls' = calls \ {c}
         /\ tab' = CASE c.op = "nav" -> [at |-> c.path, loading |-> FALSE, theme |-> c.theme,
                                          active |-> c.card, put |-> 0]
                     [] c.op \in {"callback", "signout"} -> [tab EXCEPT !.at = "login", !.loading = FALSE]
                     [] c.op = "put" /\ c.go = "ok" ->
                          IF tab.put = c.n THEN [tab EXCEPT !.theme = c.theme, !.active = c.theme, !.put = 0]
                          ELSE [tab EXCEPT !.theme = c.theme]
                     [] c.op = "put" /\ c.go # "ok" /\ tab.put = c.n -> [tab EXCEPT !.put = 0]
                     [] OTHER -> tab

Answer(c) ==
  /\ c.stage = "done"
  /\ Arrive(c) /\ Follow(c)
  /\ UNCHANGED <<now, provider, row, limiter, left>>

-----------------------------------------------------------------------------
(***************************************************************************)
(* Time and trouble.                                                       *)
(***************************************************************************)
Tick ==
  /\ now < MaxTime /\ now' = now + 1
  /\ UNCHANGED <<provider, row, limiter, cookie, look, tab, calls, past, left>>

Trouble == left.trouble > 0 /\ left' = [left EXCEPT !.trouble = @ - 1]

\* An answer never arrives.
Lose(c) ==
  /\ Trouble /\ c.op # "other"
  /\ calls' = calls \ {c}
  /\ tab' = IF c.op \in {"nav", "callback", "signout"} THEN [tab EXCEPT !.at = "login", !.loading = FALSE, !.put = 0]
            ELSE IF c.op = "put" /\ tab.put = c.n THEN [tab EXCEPT !.put = 0] ELSE tab
  /\ past' = [past EXCEPT !.lost = TRUE]
  /\ UNCHANGED <<now, provider, row, limiter, cookie, look>>

\* The provider stops answering, answers again, or ends the user's session.
ProviderTrouble ==
  /\ Trouble
  /\ \/ provider' = [provider EXCEPT !.up = ~@] /\ UNCHANGED past
     \/ provider' = [provider EXCEPT !.live = {}] /\ past' = [past EXCEPT !.ended = TRUE]
  /\ UNCHANGED <<now, row, limiter, cookie, look, tab, calls>>

\* The user changes the theme on another device.
Elsewhere(t) ==
  /\ Trouble /\ row \notin {NoRow, t}
  /\ row' = t /\ past' = [past EXCEPT !.crossed = TRUE]
  /\ UNCHANGED <<now, provider, limiter, cookie, look, tab, calls>>

ServerStep ==
  \E c \in calls : Middleware(c) \/ Render(c) \/ ServeApi(c) \/ PutTheme(c) \/ EndSession(c)
                   \/ Guard(c) \/ Callback(c) \/ Answer(c)

Next ==
  \/ \E p \in Pages \ {"home", "loginError"} : Navigate(p)
  \/ CallApi \/ SignIn \/ SignOut \/ OtherClient
  \/ \E t \in Themes : SelectTheme(t) \/ Elsewhere(t)
  \/ ServerStep
  \/ Tick \/ ProviderTrouble \/ \E c \in calls : Lose(c)

Spec == Init /\ [][Next]_vars

\* The server answers; nothing is assumed of the user, the clock or the provider.
FairSpec == Spec /\ WF_vars(ServerStep)

-----------------------------------------------------------------------------
(***************************************************************************)
(* Properties                                                              *)
(***************************************************************************)
\* Whatever the session, the provider and the clock do meanwhile, following the
\* redirects of a page ends: the sign-in page and the pages that send a user
\* with a failed refresh there do not pass him back and forth for ever
\* (middleware.ts:45-51, dashboard/page.tsx:18).
NavigationSettles == tab.loading ~> ~tab.loading

\* With nothing under way the browser holds a refresh token the provider takes,
\* unless the provider ended the session or an answer was lost - with a provider
\* that takes each token once, also unless requests overlapped, or the token ran
\* out between the middleware and the handler (config.ts:153-164).
SessionSurvives ==
  /\ cookie # NoSession /\ ~past.lost /\ ~past.ended /\ \A c \in calls : ~Carries(c)
  /\ provider.rotates => ~past.raced
  => cookie.rt \in provider.live

\* After a sign-out with no other request under way nothing brings the session
\* back but a sign-in (middleware.ts:26-53, user-menu-actions.ts:6-8).
QuietSignOutIsFinal == past.quiet => cookie = NoSession

\* No more sign-ins than the limit in any window, however the attempts of one
\* address interleave, as long as they reach Redis in the order of their
\* stamps (rate-limit.ts:40-67).
LimitHolds == Within(limiter)

\* With no change of theme under way, and none that crossed another, was lost
\* or came from elsewhere, the cookie and the settings page show the theme in
\* the database (theme/route.ts:35-55, ThemeCardGrid.tsx:28-47).
RestingThemeIsStored ==
  Puts = {} /\ ~past.crossed /\ ~past.lost =>
    /\ look # NoTheme => look = row
    /\ tab.at = "settings" /\ ~tab.loading => tab.active = row
=============================================================================
