----------------------------- MODULE CommandBar -----------------------------
(***************************************************************************)
(* The search and command input of the sidebar                             *)
(* (components/notes/Sidebar/CommandBar.tsx, lib/notes/debounce.ts,        *)
(* lib/notes/command.ts).  Its text is the filter in the URL, so others    *)
(* change it too; a text that is no command is searched for once the user  *)
(* has stopped typing.  Answers carry no number: each replaces the hits.   *)
(***************************************************************************)
EXTENDS Naturals, FiniteSets

CONSTANTS Texts,    \* what is searched for
          Folders,  \* folder ids; as a text, the path of the folder
          Nothing   \* no text, no hits, no timer

ASSUME CommandBarAssumption == Texts \cap Folders = {} /\ Nothing \notin Texts \cup Folders

VARIABLES bar,       \* the input: text, dropdown, hits and what they are for, timer
          searches,  \* requests under way
          overlapped \* two of them were under way at once since the last one that was alone

barVars == <<bar, searches, overlapped>>

BarInit ==
  /\ bar = [value |-> Nothing, open |-> FALSE, hits |-> Nothing, busy |-> FALSE,
            timer |-> Nothing]
  /\ searches = {} /\ overlapped = FALSE

\* A number for one more of a set of requests.
Unused(S) == CHOOSE n \in 1 .. Cardinality(S) + 1 : \A c \in S : c.n # n

Input(b) == bar' = b /\ UNCHANGED <<searches, overlapped>>

\* change: the text goes to the URL, and the timer starts again.
Type(v) == v # bar.value /\ Input([bar EXCEPT !.value = v, !.open = TRUE, !.timer = v])

\* The timer fires; busy before the request, the hits of a command at once.
Fire ==
  /\ bar.timer # Nothing
  /\ IF bar.timer \in Texts
       THEN /\ bar' = [bar EXCEPT !.timer = Nothing, !.busy = TRUE]
            /\ searches' = searches \cup {[n |-> Unused(searches), q |-> bar.timer]}
            /\ overlapped' = (searches # {})
       ELSE Input([bar EXCEPT !.timer = Nothing, !.hits = Nothing])

\* Mutant: a search that fails leaves the hits of the one before.
SearchAnswerKeeps(s, ok) ==
  /\ bar' = [bar EXCEPT !.hits = IF ok THEN s.q ELSE @, !.busy = FALSE]
  /\ searches' = searches \ {s} /\ UNCHANGED overlapped
SearchAnswer(s, ok) ==
  /\ bar' = [bar EXCEPT !.hits = IF ok THEN s.q ELSE Nothing, !.busy = FALSE]
  /\ searches' = searches \ {s} /\ UNCHANGED overlapped

\* applyFolder: a suggestion replaces the text; the timer goes on.  Enter takes
\* the first one, whether the dropdown shows it or not.
ApplyFolder(f) ==
  /\ bar.value \in Folders
  /\ Input([bar EXCEPT !.value = f, !.hits = Nothing, !.open = FALSE])

ShowsHits == bar.open /\ bar.value \in Texts /\ bar.hits # Nothing

\* openHit: a click on a hit, or Enter for the first one, shown or not.
OpenHit ==
  /\ bar.value \in Texts /\ bar.hits # Nothing
  /\ Input([bar EXCEPT !.hits = Nothing, !.open = FALSE])

Clear ==
  /\ bar.value # Nothing
  /\ Input([bar EXCEPT !.value = Nothing, !.hits = Nothing, !.open = FALSE, !.timer = Nothing])

\* Escape, or the focus goes elsewhere.
Close == bar.open /\ Input([bar EXCEPT !.open = FALSE])

\* The filter in the URL changes from outside, with the focus elsewhere.
Follow(v) == Input([bar EXCEPT !.value = v, !.open = FALSE])

\* Unless searches overlapped, the input is marked as busy exactly while one is
\* under way, and once the user has stopped and the answer is there the hits shown
\* are those for the text in the input: a failed search, a command or a cleared
\* input leaves no hits of an earlier text behind (CommandBar.tsx:67-119).
SettledBarIsAccurate ==
  ~overlapped =>
    /\ bar.busy <=> searches # {}
    /\ ShowsHits /\ bar.timer = Nothing /\ searches = {} => bar.hits = bar.value
=============================================================================
