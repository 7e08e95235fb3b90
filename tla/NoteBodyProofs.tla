--------------------------- MODULE NoteBodyProofs ---------------------------
(***************************************************************************)
(* Proofs about NoteBody, for any sets of tabs, updates and assets, any    *)
(* grace period, and with slow, failing and lost requests allowed or not.  *)
(*                                                                         *)
(* The argument: a version stands for one text, wherever it is noted - in  *)
(* the row, in a request that was written, in an editor that shows "saved" *)
(* - and an editor gets to "saved" only with the request it has under way, *)
(* whose text is what it shows as long as it is "saving".                  *)
(***************************************************************************)
EXTENDS NoteBody, TLAPS

-----------------------------------------------------------------------------
(* The invariant *)

\* A request that was accepted carries the version its text was given.
Written(p) == p.stage \in {"written", "ok"}

\* An editor that never had two saves under way: while it waits it has not
\* been told "saved" yet, and while it is saving it shows what it has sent.
WaitingOK ==
    \A p \in puts : p.waiting /\ p.tab \notin overlapped =>
        /\ state[p.tab] # "saved"
        /\ state[p.tab] = "saving" => doc[p.tab] = p.text
        /\ \A q \in puts : q.waiting /\ q.tab = p.tab => q = p

\* Versions name texts.
PutsOK ==
    \A p \in puts : Written(p) =>
        /\ p.ver <= version
        /\ p.ver = version => p.text = body
        /\ \A q \in puts : Written(q) /\ q.ver = p.ver => q.text = p.text

SavedOK ==
    \A t \in Tab \ overlapped : state[t] = "saved" =>
        \A p \in puts : Written(p) /\ p.ver = base[t] => p.text = doc[t]

\* A stored asset has been without a reference no longer than its stamp says.
StampOK == \A a \in stored : mark[a] > 0 => reported[a] + 1 >= mark[a]

Inv ==
    /\ TypeOK
    /\ WaitingOK
    /\ PutsOK
    /\ SavedOK
    /\ SavedMeansStored
    /\ VersionNamesBody

LEMMA ReduceType ==
    ASSUME NEW s \in SaveState \cup {"closed"},
           NEW e \in {"edit", "save-start", "save-ok", "save-conflict", "save-network-error"}
    PROVE  /\ Reduce(s, e) \in SaveState \cup {"closed"}
           /\ e = "edit" => Reduce(s, e) \in {"conflict", "dirty"}
           /\ e = "save-start" /\ s = "dirty" => Reduce(s, e) = "saving"
           /\ e = "save-ok" => Reduce(s, e) # "saving"
           /\ e = "save-ok" /\ Reduce(s, e) = "saved" => s \in {"saving", "saved"}
           /\ e = "save-conflict" => Reduce(s, e) = "conflict"
           /\ e = "save-network-error" => Reduce(s, e) = "offline"
BY DEF Reduce, SaveState

LEMMA InitInv == Init => Inv
BY GraceAssumption DEF Init, Inv, TypeOK, WaitingOK, PutsOK, SavedOK, SavedMeansStored,
   VersionNamesBody, SaveState

-----------------------------------------------------------------------------
(* The steps of a tab. *)

LEMMA OpenInv == ASSUME Inv, NEW t \in Tab, Open(t) PROVE Inv'
<1> USE DEF Open, Inv, TypeOK, noteVars, assetVars, IsOpen, SaveState
<1>1. TypeOK' OBVIOUS
<1>2. WaitingOK' BY DEF WaitingOK, Put
<1>3. PutsOK' BY DEF PutsOK, Written
<1>4. SavedOK' /\ SavedMeansStored' /\ VersionNamesBody'
    BY DEF SavedOK, SavedMeansStored, VersionNamesBody, Written
<1> QED BY <1>1, <1>2, <1>3, <1>4

LEMMA CloseInv == ASSUME Inv, NEW t \in Tab, Close(t) PROVE Inv'
<1> USE DEF Close, Inv, TypeOK, noteVars, assetVars, SaveState
<1>1. TypeOK'
    <2>1. puts' \subseteq Put
        <3>1. SUFFICES ASSUME NEW p \in puts
                       PROVE  [p EXCEPT !.waiting = p.waiting /\ p.tab # t] \in Put
            OBVIOUS
        <3>2. p \in Put /\ (p.waiting /\ p.tab # t) \in BOOLEAN
            BY DEF Put
        <3> QED BY <3>2 DEF Put
    <2>2. state' \in [Tab -> SaveState \cup {"closed"}]
        OBVIOUS
    <2> QED BY <2>1, <2>2
<1>2. WaitingOK' BY DEF WaitingOK, Put
<1>3. PutsOK' BY DEF PutsOK, Written, Put
<1>4. SavedOK' /\ SavedMeansStored' /\ VersionNamesBody'
    BY DEF SavedOK, SavedMeansStored, VersionNamesBody, Written, Put
<1> QED BY <1>1, <1>2, <1>3, <1>4

LEMMA UploadInv == ASSUME Inv, NEW t \in Tab, NEW a \in Asset, Upload(t, a) PROVE Inv'
<1> USE DEF Upload, Inv, TypeOK, tabVars, noteVars
<1>1. TypeOK' BY GraceAssumption
<1>2. WaitingOK' BY DEF WaitingOK
<1>3. PutsOK' BY DEF PutsOK, Written
<1>4. SavedOK' /\ SavedMeansStored' /\ VersionNamesBody'
    BY DEF SavedOK, SavedMeansStored, VersionNamesBody, Written
<1> QED BY <1>1, <1>2, <1>3, <1>4

\* An editor whose document changes is dirty or in conflict.
LEMMA ChangeInv ==
    ASSUME Inv, NEW t \in Tab, NEW u \in Update,
           made' \subseteq Update,
           doc' = [doc EXCEPT ![t] = @ \cup {u}],
           state' = [state EXCEPT ![t] = Reduce(state[t], "edit")],
           UNCHANGED <<base, overlapped, puts, noteVars, assetVars>>
    PROVE  Inv'
<1> USE DEF Inv, TypeOK, noteVars, assetVars
<1>1. state'[t] \in {"conflict", "dirty"} /\ state' \in [Tab -> SaveState \cup {"closed"}]
    BY ReduceType DEF SaveState
<1>2. TypeOK' BY <1>1
<1>3. WaitingOK' BY <1>1 DEF WaitingOK
<1>4. PutsOK' BY DEF PutsOK, Written
<1>5. SavedOK' /\ SavedMeansStored' /\ VersionNamesBody'
    BY <1>1 DEF SavedOK, SavedMeansStored, VersionNamesBody, Written
<1> QED BY <1>2, <1>3, <1>4, <1>5

LEMMA StartSaveInv == ASSUME Inv, NEW t \in Tab, StartSave(t) PROVE Inv'
<1> USE DEF StartSave, Inv, TypeOK, noteVars, assetVars, Dispatch
<1> DEFINE p == [tab |-> t, text |-> doc[t], base |-> base[t], ver |-> 0,
                 stage |-> "sent", waiting |-> TRUE]
<1>1. state' = [state EXCEPT ![t] = "saving"]
    BY ReduceType DEF SaveState
<1>2. p \in Put /\ puts' = puts \cup {p}
    BY DEF Put, Stage
<1>3. TypeOK' BY <1>1, <1>2 DEF SaveState
\* Either p is the only request this tab waits for, or the tab is exempt.
<1>4. WaitingOK'
    <2> SUFFICES ASSUME NEW q \in puts', q.waiting, q.tab \notin overlapped'
                 PROVE  /\ state'[q.tab] # "saved"
                        /\ state'[q.tab] = "saving" => doc'[q.tab] = q.text
                        /\ \A r \in puts' : r.waiting /\ r.tab = q.tab => r = q
        BY DEF WaitingOK
    <2>1. q.tab \in Tab /\ \A r \in puts : r.waiting /\ r.tab = t => overlapped' = overlapped \cup {t}
        BY <1>2 DEF Put, Waiting
    <2>2. CASE q.tab = t
        <3>1. q = p /\ \A r \in puts : ~(r.waiting /\ r.tab = t)
            BY <1>2, <2>1, <2>2
        <3> QED BY <1>1, <1>2, <3>1
    <2>3. CASE q.tab # t
        <3>1. q \in puts /\ q.tab \notin overlapped
            BY <1>2, <2>3
        <3> QED BY <1>1, <1>2, <2>1, <2>3, <3>1 DEF WaitingOK
    <2> QED BY <2>2, <2>3
<1>5. PutsOK' BY <1>2 DEF PutsOK, Written
<1>6. SavedOK' /\ SavedMeansStored' /\ VersionNamesBody'
    BY <1>1, <1>2 DEF SavedOK, SavedMeansStored, VersionNamesBody, Written
<1> QED BY <1>3, <1>4, <1>5, <1>6

LEMMA ResponseInv == ASSUME Inv, NEW p \in puts, Response(p) PROVE Inv'
<1> USE DEF Response, Inv, TypeOK, noteVars, assetVars
<1>1. CASE ~p.waiting
    <2>1. TypeOK' BY <1>1
    <2>2. WaitingOK' BY <1>1 DEF WaitingOK
    <2>3. PutsOK' BY <1>1 DEF PutsOK, Written
    <2>4. SavedOK' /\ SavedMeansStored' /\ VersionNamesBody'
        BY <1>1 DEF SavedOK, SavedMeansStored, VersionNamesBody, Written
    <2> QED BY <2>1, <2>2, <2>3, <2>4
<1>2. CASE p.waiting /\ p.stage = "ok"
    <2>1. /\ state' = [state EXCEPT ![p.tab] = Reduce(state[p.tab], "save-ok")]
          /\ base' = [base EXCEPT ![p.tab] = p.ver]
          /\ p.tab \in Tab
        BY <1>2 DEF Dispatch, Put
    <2>2. /\ state'[p.tab] \in SaveState \cup {"closed"}
          /\ state'[p.tab] # "saving"
          /\ state'[p.tab] = "saved" => state[p.tab] \in {"saving", "saved"}
        BY <2>1, ReduceType
    <2>3. p.ver \in 0 .. version'
        BY <1>2 DEF PutsOK, Written, Put
    <2>4. TypeOK' BY <2>1, <2>2, <2>3
    <2>5. WaitingOK' BY <1>2, <2>1, <2>2 DEF WaitingOK
    <2>6. PutsOK' BY DEF PutsOK, Written
    \* The text the version stands for is the one shown.
    <2>7. p.tab \notin overlapped /\ state'[p.tab] = "saved" => doc'[p.tab] = p.text
        BY <1>2, <2>2 DEF WaitingOK
    <2>8. SavedOK'
        BY <1>2, <2>1, <2>7 DEF SavedOK, PutsOK, Written
    <2>9. SavedMeansStored'
        BY <1>2, <2>1, <2>7 DEF SavedMeansStored, PutsOK, Written
    <2>10. VersionNamesBody'
        BY <1>2, <2>1, <2>7 DEF VersionNamesBody, SavedOK, PutsOK, Written
    <2> QED BY <2>4, <2>5, <2>6, <2>8, <2>9, <2>10
<1>3. CASE p.waiting /\ p.stage # "ok"
    <2>1. p.tab \in Tab /\ state[p.tab] \in SaveState \cup {"closed"}
        BY DEF Put
    <2>2. PICK s \in {"conflict", "offline"} : state' = [state EXCEPT ![p.tab] = s]
        BY <1>3, <2>1, ReduceType DEF Dispatch
    <2>3. base' = base
        BY <1>3
    <2> HIDE DEF Response
    <2> USE <2>1, <2>2, <2>3
    <2>4. puts' = puts \ {p} /\ UNCHANGED <<doc, made, overlapped, noteVars, assetVars>>
        BY DEF Response
    <2> USE <2>4
    <2>5. TypeOK' BY DEF SaveState
    <2>6. WaitingOK' BY DEF WaitingOK, Put
    <2>7. PutsOK' BY DEF PutsOK, Written
    <2>8. SavedOK' /\ SavedMeansStored' /\ VersionNamesBody'
        BY DEF SavedOK, SavedMeansStored, VersionNamesBody, Written
    <2> QED BY <2>5, <2>6, <2>7, <2>8
<1> QED BY <1>1, <1>2, <1>3

LEMMA LoseResponseInv == ASSUME Inv, NEW p \in puts, LoseResponse(p) PROVE Inv'
<1> USE DEF LoseResponse, Inv, TypeOK, noteVars, assetVars
<1> p.tab \in Tab /\ state[p.tab] \in SaveState \cup {"closed"}
    BY DEF Put
<1> Reduce(state[p.tab], "save-network-error") = "offline"
    BY ReduceType
<1>1. state' = [state EXCEPT ![p.tab] = "offline"]
    BY DEF Dispatch
<1>2. TypeOK' BY <1>1 DEF SaveState, Put
<1>3. WaitingOK' BY <1>1 DEF WaitingOK, Put
<1>4. PutsOK' BY DEF PutsOK, Written, Put
<1>5. SavedOK' /\ SavedMeansStored' /\ VersionNamesBody'
    BY <1>1 DEF SavedOK, SavedMeansStored, VersionNamesBody, Written, Put
<1> QED BY <1>2, <1>3, <1>4, <1>5

-----------------------------------------------------------------------------
(* The steps of the route, and of time. *)

\* A request moves on without being written, or with the text it was written with.
LEMMA AdvanceInv ==
    ASSUME Inv, NEW p \in puts, NEW stage \in Stage, Advance(p, stage),
           stage \in {"written", "ok"} => Written(p),
           stored' \subseteq Asset, mark' \in [Asset -> 0 .. Grace + 1],
           reported' \in [Asset -> 0 .. Grace],
           UNCHANGED <<tabVars, noteVars>>
    PROVE  Inv'
<1> USE DEF Advance, Inv, TypeOK, tabVars, noteVars
<1>1. TypeOK' BY DEF Put
<1>2. WaitingOK' BY DEF WaitingOK, Put
<1>3. PutsOK' BY DEF PutsOK, Written, Put
<1>4. SavedOK' /\ SavedMeansStored' /\ VersionNamesBody'
    BY DEF SavedOK, SavedMeansStored, VersionNamesBody, Written, Put
<1> QED BY <1>1, <1>2, <1>3, <1>4

LEMMA WriteBodyInv == ASSUME Inv, NEW p \in puts, WriteBody(p) PROVE Inv'
<1> DEFINE r == [p EXCEPT !.stage = "written", !.ver = version + 1]
<1> USE DEF Inv, TypeOK, tabVars, assetVars
<1>1. /\ r \in Put /\ r.tab = p.tab /\ r.text = p.text /\ r.waiting = p.waiting
      /\ r.ver = version + 1
    <2>1. p \in Put /\ "written" \in Stage /\ version + 1 \in Nat
        BY DEF Stage
    <2> QED BY <2>1 DEF Put
<1>2. /\ puts' = (puts \ {p}) \cup {r} /\ body' = p.text /\ version' = version + 1
      /\ UNCHANGED <<tabVars, assetVars>> /\ p.text \in SUBSET Update
    BY DEF WriteBody, Put
<1> HIDE DEF r
<1>3. TypeOK'
    <2>1. \A t \in Tab : base[t] \in 0 .. version + 1
        OBVIOUS
    <2> QED BY <1>1, <1>2, <2>1
<1>4. WaitingOK'
    BY <1>1, <1>2 DEF WaitingOK
\* Every version noted so far is smaller than the new one.
<1>5. \A q \in puts' : q = r \/ (q \in puts /\ (Written(q) => q.ver < version'))
    BY <1>2 DEF PutsOK, Put
<1>6. \A t \in Tab : base'[t] < version'
    BY <1>2
<1>7. PutsOK'
    <2> SUFFICES ASSUME NEW q \in puts', Written(q)
                 PROVE  /\ q.ver <= version'
                        /\ q.ver = version' => q.text = body'
                        /\ \A q2 \in puts' : Written(q2) /\ q2.ver = q.ver => q2.text = q.text
        BY DEF PutsOK, Written
    <2>1. q.ver \in Nat
        BY <1>1, <1>5 DEF Put
    <2>2. CASE q = r
        BY <1>1, <1>2, <1>5, <2>2
    <2>3. CASE q # r
        BY <1>1, <1>2, <1>5, <2>1, <2>3 DEF PutsOK
    <2> QED BY <2>2, <2>3
<1>8. SavedOK'
    <2> SUFFICES ASSUME NEW t \in Tab \ overlapped', state'[t] = "saved", NEW q \in puts',
                        Written(q), q.ver = base'[t]
                 PROVE  q.text = doc'[t]
        BY DEF SavedOK, Written
    <2>1. q \in puts
        BY <1>1, <1>2, <1>5, <1>6
    <2> QED BY <1>2, <2>1 DEF SavedOK
<1>9. SavedMeansStored' /\ VersionNamesBody'
    BY <1>2, <1>6 DEF SavedMeansStored, VersionNamesBody
<1> QED BY <1>3, <1>4, <1>7, <1>8, <1>9

LEMMA ServerStepInv == ASSUME Inv, NEW p \in puts, ServerStep(p) PROVE Inv'
<1> USE DEF Inv, TypeOK
<1>1. CASE CheckVersion(p)
    BY <1>1, AdvanceInv DEF CheckVersion, assetVars, Stage
<1>2. CASE WriteBody(p)
    BY <1>2, WriteBodyInv
<1>3. CASE Reconcile(p)
    BY <1>3, AdvanceInv, GraceAssumption DEF Reconcile, Written, Stage
<1>4. CASE FailPut(p)
    BY <1>4, AdvanceInv DEF FailPut, assetVars, Stage
<1> QED BY <1>1, <1>2, <1>3, <1>4 DEF ServerStep

LEMMA DaysInv == ASSUME Inv, DayPasses \/ Sweep PROVE Inv'
<1> USE DEF DayPasses, Sweep, Inv, TypeOK, tabVars, noteVars
<1>1. TypeOK' BY GraceAssumption
<1>2. WaitingOK' BY DEF WaitingOK
<1>3. PutsOK' BY DEF PutsOK, Written
<1>4. SavedOK' /\ SavedMeansStored' /\ VersionNamesBody'
    BY DEF SavedOK, SavedMeansStored, VersionNamesBody, Written
<1> QED BY <1>1, <1>2, <1>3, <1>4

LEMMA StepInv == Inv /\ [Next]_vars => Inv'
<1> SUFFICES ASSUME Inv, [Next]_vars PROVE Inv'
    OBVIOUS
<1>1. CASE UNCHANGED vars
    BY <1>1 DEF vars, tabVars, noteVars, assetVars, Inv, TypeOK, WaitingOK, PutsOK, SavedOK,
       SavedMeansStored, VersionNamesBody, Written
<1>2. ASSUME NEW t \in Tab, NEW u \in Update, Edit(t, u) \/ Deliver(t, u) PROVE Inv'
    <2>1. /\ doc' = [doc EXCEPT ![t] = @ \cup {u}]
          /\ state' = [state EXCEPT ![t] = Reduce(state[t], "edit")]
          /\ made' \subseteq Update
          /\ UNCHANGED <<base, overlapped, puts, noteVars, assetVars>>
        BY <1>2 DEF Edit, Deliver, Dispatch, noteVars, assetVars, Inv, TypeOK
    <2> QED BY <2>1, ChangeInv
<1> QED
    BY <1>1, <1>2, OpenInv, CloseInv, UploadInv, StartSaveInv, ServerStepInv, ResponseInv,
       LoseResponseInv, DaysInv DEF Next

LEMMA Invariance == Spec => []Inv
BY InitInv, StepInv, PTL DEF Spec

-----------------------------------------------------------------------------
(* Theorems *)

\* Tabs, requests, versions and stamps stay in their ranges; an editor's base
\* version is never ahead of the note.
THEOREM TypeCorrect == Spec => []TypeOK
<1>1. Inv => TypeOK
    BY DEF Inv
<1> QED BY Invariance, <1>1, PTL

\* The indicator says "saved" only for text that is stored, as long as nobody
\* has saved since and the editor had one save under way at a time, however
\* many editors race and whatever fails.  (save-state.ts:41-45)
THEOREM SavedIsStored == Spec => []SavedMeansStored
<1>1. Inv => SavedMeansStored
    BY DEF Inv
<1> QED BY Invariance, <1>1, PTL

\* A version is the name of one text.  (body/route.ts:67-71)
THEOREM VersionsNameTexts == Spec => []VersionNamesBody
<1>1. Inv => VersionNamesBody
    BY DEF Inv
<1> QED BY Invariance, <1>1, PTL

\* The sweep takes no asset within the grace period after a save listed it.
\* (body/route.ts:76-88, assets-sweep.ts:11-24)
THEOREM SweepWaits == Spec => ListedSurvivesGrace
<1> DEFINE Spared == \A a \in stored \ stored' : reported[a] >= Grace
<1>1. Init => StampOK
    BY DEF Init, StampOK
<1>2. TypeOK /\ StampOK /\ [Next]_vars => StampOK'
    <2> SUFFICES ASSUME TypeOK, StampOK, [Next]_vars PROVE StampOK'
        OBVIOUS
    <2> USE DEF TypeOK, StampOK
    <2>1. CASE UNCHANGED <<stored, mark, reported>>
        BY <2>1
    <2>2. ASSUME NEW t \in Tab, NEW a \in Asset, Upload(t, a) PROVE StampOK'
        BY <2>2 DEF Upload
    <2>3. ASSUME NEW p \in puts, Reconcile(p) PROVE StampOK'
        BY <2>3 DEF Reconcile
    <2>4. CASE DayPasses
        BY <2>4, GraceAssumption DEF DayPasses
    <2>5. CASE Sweep
        BY <2>5 DEF Sweep
    <2> QED
        BY <2>1, <2>2, <2>3, <2>4, <2>5 DEF Next, vars, Open, Close, StartSave, Edit, Deliver,
           ServerStep, CheckVersion, WriteBody, FailPut, Response, LoseResponse, assetVars
<1>3. TypeOK /\ StampOK /\ [Next]_vars => [Spared]_vars
    <2> SUFFICES ASSUME TypeOK, StampOK, Next, NEW a \in stored \ stored'
                 PROVE  reported[a] >= Grace
        BY DEF vars
    <2>1. Sweep
        BY DEF Next, Open, Close, Upload, StartSave, Edit, Deliver, ServerStep, CheckVersion,
           WriteBody, Reconcile, FailPut, Response, LoseResponse, DayPasses, assetVars
    <2> QED BY <2>1, GraceAssumption DEF Sweep, TypeOK, StampOK
<1> QED BY TypeCorrect, <1>1, <1>2, <1>3, PTL DEF Spec, ListedSurvivesGrace

=============================================================================
