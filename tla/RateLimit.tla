------------------------------ MODULE RateLimit ------------------------------
(***************************************************************************)
(* The sliding window of apps/web/src/lib/rate-limit.ts: one sorted set of *)
(* time stamps for each scope and address.  An attempt reads the clock and *)
(* then runs one transaction in Redis, so that attempts may be carried out *)
(* in another order than that of their stamps.                             *)
(***************************************************************************)
EXTENDS Naturals, FiniteSets

CONSTANTS MaxAttempts, \* attempts per window
          Window       \* its length

ASSUME RateLimitAssumption == MaxAttempts \in Nat \ {0} /\ Window \in Nat \ {0}

\* The members of the set (each is told apart from the others, and has its stamp
\* as score), the attempts that were let through, and whether they were carried
\* out in the order of their stamps.
NoAttempts == [entries |-> {}, admitted |-> {}, count |-> 0, last |-> 0, ordered |-> TRUE]

\* zremrangebyscore: stamps up to the cutoff go.
Kept(l, stamp) == {e \in l.entries : e.at + Window > stamp}

\* Mutant: one attempt too many.
AdmitsOneMore(l, stamp) == Cardinality(Kept(l, stamp)) <= MaxAttempts
Admits(l, stamp) == Cardinality(Kept(l, stamp)) < MaxAttempts

\* zadd comes before the answer: a refused attempt counts as well.
Attempt(l, stamp) ==
  LET this == [no |-> l.count, at |-> stamp]
  IN  [entries |-> Kept(l, stamp) \cup {this},
       admitted |-> l.admitted \cup (IF Admits(l, stamp) THEN {this} ELSE {}),
       count |-> l.count + 1,
       last |-> IF stamp > l.last THEN stamp ELSE l.last,
       ordered |-> l.ordered /\ stamp >= l.last]

\* Any window, as long as the attempts came in order.
InWindow(l, stamp) == {b \in l.admitted : b.at <= stamp /\ b.at + Window > stamp}
Within(l) == l.ordered => \A a \in l.admitted : Cardinality(InWindow(l, a.at)) <= MaxAttempts
=============================================================================
