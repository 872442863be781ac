---------------------------- MODULE EvalsProofs ----------------------------
(* Proofs about Evals, for any case file, gate, cutoff and judge.           *)
EXTENDS Evals, FiniteSetTheorems, TLAPS

USE DEF caseVars, caseOnly

----------------------------------------------------------------------------
\* The inductive invariant: what is known of one case, and what of the run.

\* The judge's reply is taken only if it can be used, and a case that passed or
\* failed was given just the outcome its evidence earns.
Scored(c) ==
    /\ Usable(line[c], reply[c])
    /\ line[c].documents <=> chunks[c] # "unscored"
    /\ outcome[c] = Graded(c, chunks[c])

CaseInv(c) ==
    /\ at[c] \in {"queued", "answering", "judging"} => tries[c] < 2
    /\ at[c] \in {"queued", "answering"} => reply[c] = NoReply
    /\ at[c] = "scoring" => Usable(line[c], reply[c])
    /\ at[c] = "graded" <=> outcome[c] # "none"
    /\ outcome[c] \in {"pass", "fail"} => Scored(c)

RunInv ==
    /\ phase = "idle" => \A c \in CASES : at[c] = "queued"
    /\ phase = "over" => \A c \in CASES : at[c] \in {"queued", "graded"}
    /\ phase # "over" => flips = NoFlips
    /\ phase = "over" =>
         /\ \A c \in flips.broke : outcome[c] = "fail"
         /\ \A c \in flips.fixed : outcome[c] = "pass"
    /\ phase = "over" /\ exit = 0 =>
         \A c \in CASES :
            /\ outcome[c] \in {"pass", "fail"}
            /\ line[c].tier = "must" => outcome[c] = "pass"

IInv == TypeOK /\ (\A c \in CASES : CaseInv(c)) /\ RunInv

----------------------------------------------------------------------------
\* Facts about the data.

LEMMA NoReplyTyped == NoReply \in Reply
  <1>1. <<>> \in [1 .. 0 -> Entry]
    OBVIOUS
  <1>2. 0 \in 0 .. MaxPoints
    BY EvalBoundsAssumption
  <1>3. <<>> \in UNION {[1 .. n -> Entry] : n \in 0 .. MaxPoints}
    BY <1>1, <1>2
  <1> QED
    BY <1>3 DEF NoReply, Reply, Verdict

LEMMA FilesTyped == Files \subseteq [CASES -> Line]
  BY LinesAssumption DEF Files

\* No reply is needed where none is asked for.
LEMMA NothingAsked ==
  ASSUME NEW spec \in Line, spec.points = 0, ~spec.grounded
  PROVE Usable(spec, NoReply)
  BY DEF Usable, NoReply, Conflicting, Line

LEMMA PointsTyped ==
  ASSUME NEW said \in Reply
  PROVE \E n \in Nat : said.points \in [1 .. n -> Entry]
  BY EvalBoundsAssumption DEF Reply

\* Without a conflict, the entry kept for a point is what every entry says.
LEMMA KeptAgrees ==
  ASSUME NEW said \in Reply, ~Conflicting(said.points),
         NEW entry \in Kept(said.points), Sound(entry.verdict)
  PROVE /\ \E e \in DOMAIN said.points : said.points[e].index = entry.index
        /\ \A e \in DOMAIN said.points :
             said.points[e].index = entry.index => Says(said.points[e].verdict) = entry.verdict
  <1>1. PICK i \in DOMAIN said.points : entry = said.points[i]
    BY DEF Kept
  <1>2. Says(entry.verdict) = entry.verdict
    BY DEF Says, Sound
  <1> QED
    BY <1>1, <1>2 DEF Conflicting

----------------------------------------------------------------------------
\* Nothing outside a case's own state decides what is known of it.

Untouched(c) ==
    /\ line'[c] = line[c] /\ at'[c] = at[c] /\ searches'[c] = searches[c]
    /\ satisfied'[c] = satisfied[c] /\ tries'[c] = tries[c] /\ reply'[c] = reply[c]
    /\ chunks'[c] = chunks[c] /\ outcome'[c] = outcome[c]

LEMMA Elsewhere ==
  ASSUME NEW c \in CASES, CaseInv(c), Untouched(c)
  PROVE CaseInv(c)'
  BY DEF CaseInv, Untouched, Scored, Graded, StackFault, Checks, Judged, Passes

LEMMA FreshIsInv ==
  ASSUME line \in Files, NEW c \in CASES,
         at[c] = "queued", tries[c] = 0, reply[c] = NoReply, outcome[c] = "none"
  PROVE CaseInv(c)
  BY DEF CaseInv

LEMMA InFlightFinite == IsFiniteSet(InFlight) /\ Cardinality(InFlight) \in Nat
  BY CasesAssumption, FS_Subset, FS_CardinalityType DEF InFlight

\* Only the gate lets a case in.
LEMMA GateHolds ==
  ASSUME TypeOK, InFlight' \subseteq InFlight
  PROVE Cardinality(InFlight') <= IN_FLIGHT
  <1>1. Cardinality(InFlight') <= Cardinality(InFlight) /\ Cardinality(InFlight') \in Nat
    BY InFlightFinite, FS_Subset, FS_CardinalityType
  <1> QED
    BY <1>1, InFlightFinite, GateAssumption DEF TypeOK

LEMMA NoneInFlight ==
  ASSUME \A c \in CASES : at[c] = "queued"
  PROVE Cardinality(InFlight) <= IN_FLIGHT
  <1>1. InFlight = {}
    BY DEF InFlight
  <1> QED
    BY <1>1, FS_EmptySet, GateAssumption

LEMMA InitInv == Init => IInv
  <1> SUFFICES ASSUME Init PROVE IInv
    OBVIOUS
  <1>1. \A c \in CASES : CaseInv(c)
    BY FreshIsInv DEF Init
  <1>2. Cardinality(InFlight) <= IN_FLIGHT
    BY NoneInFlight DEF Init
  <1>3. TypeOK
    BY <1>2, FilesTyped, NoReplyTyped DEF Init, TypeOK, NoBaseline, NoFlips, Outcome
  <1>4. RunInv
    BY DEF Init, RunInv
  <1> QED
    BY <1>1, <1>3, <1>4 DEF IInv

----------------------------------------------------------------------------
\* A step of one case.

\* What a step of case c must show: its types, its own invariant, and that the
\* case was in flight, or is let in by the gate.
CaseStep(c) ==
    /\ caseOnly
    /\ \E w \in {"answering", "judging", "scoring", "graded"} : at' = [at EXCEPT ![c] = w]
    /\ at[c] \in {"queued", "answering", "judging", "scoring"}
    /\ at[c] = "queued" => phase = "running"
    /\ \A d \in CASES \ {c} : Untouched(d)
    /\ searches' \in [CASES -> SUBSET Trouble] /\ satisfied' \in [CASES -> BOOLEAN]
    /\ tries' \in [CASES -> 0 .. 2] /\ reply' \in [CASES -> Reply]
    /\ chunks' \in [CASES -> {"unscored", "found", "empty"}] /\ outcome' \in [CASES -> Outcome]
    /\ Cardinality(InFlight') <= IN_FLIGHT
    /\ CaseInv(c)'

LEMMA CaseStepKeeps ==
  ASSUME IInv, NEW c \in CASES, CaseStep(c)
  PROVE IInv'
  <1>1. TypeOK'
    <2>1. at' \in [CASES -> {"queued", "answering", "judging", "scoring", "graded"}]
      BY DEF IInv, TypeOK, CaseStep
    <2>2. UNCHANGED <<baseline, phase, line, flips, exit>>
      BY DEF CaseStep
    <2>3. /\ line \in [CASES -> Line]
          /\ baseline.there => baseline.line \in [CASES -> Line] /\ baseline.outcome \in [CASES -> Outcome]
          /\ phase \in {"idle", "running", "over"}
          /\ flips \in [broke : SUBSET CASES, fixed : SUBSET CASES] /\ exit \in 0 .. 2
      BY DEF IInv, TypeOK
    <2> QED
      BY <2>1, <2>2, <2>3, Zenon DEF TypeOK, CaseStep
  <1>2. \A d \in CASES : CaseInv(d)'
    BY Elsewhere DEF IInv, CaseStep
  <1>3. phase = "running"
    <2>1. phase # "idle"
      BY DEF IInv, RunInv, CaseStep
    <2>2. phase # "over"
      BY DEF IInv, RunInv, CaseStep
    <2> QED
      BY <2>1, <2>2 DEF IInv, TypeOK
  <1>4. RunInv'
    BY <1>3 DEF IInv, RunInv, CaseStep
  <1> QED
    BY <1>1, <1>2, <1>4 DEF IInv

LEMMA AdmitStep ==
  ASSUME IInv, NEW c \in CASES, Admit(c)
  PROVE CaseStep(c)
  <1>1. InFlight' = InFlight \cup {c} /\ c \notin InFlight
    BY DEF Admit, InFlight, IInv, TypeOK
  <1>2. Cardinality(InFlight') = Cardinality(InFlight) + 1
    BY <1>1, InFlightFinite, FS_AddElement
  <1>3. Cardinality(InFlight') <= IN_FLIGHT
    BY <1>2, InFlightFinite, GateAssumption DEF Admit
  <1>4. \A d \in CASES \ {c} : Untouched(d)
    BY DEF Admit, Untouched, IInv, TypeOK
  <1>5. CaseInv(c)'
    BY DEF Admit, IInv, TypeOK, CaseInv
  <1> QED
    BY <1>3, <1>4, <1>5 DEF CaseStep, Admit, IInv, TypeOK

\* A step from inside the gate lets nobody in.
LEMMA GateKeeps ==
  ASSUME IInv, NEW c \in InFlight, NEW w, at' = [at EXCEPT ![c] = w]
  PROVE Cardinality(InFlight') <= IN_FLIGHT
  <1>1. InFlight' \subseteq InFlight
    BY DEF InFlight, IInv, TypeOK
  <1> QED
    BY <1>1, GateHolds DEF IInv

LEMMA AnswerStep ==
  ASSUME IInv, NEW c \in CASES, NEW told \in SUBSET Trouble, NEW meets \in BOOLEAN,
         Answer(c, told, meets)
  PROVE CaseStep(c)
  <1>1. Cardinality(InFlight') <= IN_FLIGHT
    BY GateKeeps DEF Answer, InFlight
  <1>2. \A d \in CASES \ {c} : Untouched(d)
    BY DEF Answer, Untouched, IInv, TypeOK
  <1>3. CaseInv(c)'
    <2>1. at[c] = "answering" /\ reply[c] = NoReply /\ outcome[c] = "none" /\ tries[c] < 2
      BY DEF Answer, IInv, CaseInv
    <2>2. ~Judged(c) => Usable(line[c], NoReply)
      BY NothingAsked DEF Judged, IInv, TypeOK, Line
    <2>3. at'[c] = IF Judged(c) THEN "judging" ELSE "scoring"
      BY DEF Answer, IInv, TypeOK
    <2>4. /\ line' = line /\ reply'[c] = NoReply /\ outcome'[c] = "none" /\ tries'[c] < 2
      BY <2>1 DEF Answer
    <2> QED
      BY <2>2, <2>3, <2>4 DEF CaseInv
  <1> QED
    BY <1>1, <1>2, <1>3 DEF CaseStep, Answer, IInv, TypeOK

LEMMA FailsInv ==
  ASSUME IInv, NEW c \in InFlight, Fails(c)
  PROVE CaseInv(c)'
  BY DEF Fails, IInv, TypeOK, CaseInv, InFlight

LEMMA RaisesStep ==
  ASSUME IInv, NEW c \in CASES, Raises(c)
  PROVE CaseStep(c)
  <1>1. Cardinality(InFlight') <= IN_FLIGHT
    BY GateKeeps DEF Raises, Fails
  <1>2. \A d \in CASES \ {c} : Untouched(d)
    BY DEF Raises, Fails, Untouched, IInv, TypeOK
  <1>3. CaseInv(c)'
    BY FailsInv DEF Raises
  <1> QED
    BY <1>1, <1>2, <1>3 DEF CaseStep, Raises, Fails, IInv, TypeOK, InFlight, Outcome

LEMMA GradeStep ==
  ASSUME IInv, NEW c \in CASES, NEW said \in Reply, Grade(c, said)
  PROVE CaseStep(c)
  <1>1. Cardinality(InFlight') <= IN_FLIGHT
    BY GateKeeps DEF Grade, InFlight
  <1>2. \A d \in CASES \ {c} : Untouched(d)
    BY DEF Grade, Counted, Untouched, IInv, TypeOK
  <1>3. at[c] = "judging" /\ tries[c] < 2 /\ outcome[c] = "none" /\ tries[c] \in Nat
    BY DEF Grade, IInv, TypeOK, CaseInv
  <1>4. CaseInv(c)'
    <2>1. at'[c] = "scoring" /\ reply'[c] = said /\ line' = line /\ outcome'[c] = "none"
      BY <1>3 DEF Grade, IInv, TypeOK
    <2>2. Usable(line[c], said)
      BY DEF Grade
    <2> QED
      BY <2>1, <2>2 DEF CaseInv
  <1>5. tries' \in [CASES -> 0 .. 2]
    BY <1>3 DEF Grade, Counted, IInv, TypeOK
  <1> QED
    BY <1>1, <1>2, <1>3, <1>4, <1>5 DEF CaseStep, Grade, IInv, TypeOK

LEMMA UnusableStep ==
  ASSUME IInv, NEW c \in CASES, Unusable(c)
  PROVE CaseStep(c)
  <1>1. at[c] = "judging" /\ tries[c] < 2 /\ outcome[c] = "none" /\ tries[c] \in Nat
    BY DEF Unusable, IInv, TypeOK, CaseInv
  <1>2. \A d \in CASES \ {c} : Untouched(d)
    BY DEF Unusable, Counted, Fails, Untouched, IInv, TypeOK
  <1>3. tries' = [tries EXCEPT ![c] = @ + 1] /\ tries' \in [CASES -> 0 .. 2]
    BY <1>1 DEF Unusable, Counted, IInv, TypeOK
  <1>4. CASE AsksAgain(c) /\ UNCHANGED <<at, outcome>>
    <2>1. at' = [at EXCEPT ![c] = "judging"]
      BY <1>1, <1>4 DEF IInv, TypeOK
    <2>2. CaseInv(c)'
      BY <1>1, <1>3, <1>4 DEF AsksAgain, CaseInv, IInv, TypeOK
    <2>3. Cardinality(InFlight') <= IN_FLIGHT
      BY <1>4, GateHolds DEF InFlight, IInv
    <2> QED
      BY <1>1, <1>2, <1>3, <1>4, <2>1, <2>2, <2>3 DEF CaseStep, Unusable, IInv, TypeOK
  <1>5. CASE Fails(c)
    <2>1. CaseInv(c)' /\ Cardinality(InFlight') <= IN_FLIGHT
      BY <1>1, <1>5, FailsInv, GateKeeps DEF InFlight, Fails
    <2> QED
      BY <1>1, <1>2, <1>3, <1>5, <2>1 DEF CaseStep, Unusable, Fails, IInv, TypeOK, Outcome
  <1> QED
    BY <1>4, <1>5 DEF Unusable

LEMMA JudgeFailsStep ==
  ASSUME IInv, NEW c \in CASES, JudgeFails(c)
  PROVE CaseStep(c)
  <1>1. at[c] = "judging" /\ tries[c] < 2 /\ tries[c] \in Nat
    BY DEF JudgeFails, IInv, TypeOK, CaseInv
  <1>2. CaseInv(c)' /\ Cardinality(InFlight') <= IN_FLIGHT
    BY <1>1, FailsInv, GateKeeps DEF JudgeFails, InFlight, Fails
  <1>3. \A d \in CASES \ {c} : Untouched(d)
    BY DEF JudgeFails, Counted, Fails, Untouched, IInv, TypeOK
  <1>4. tries' \in [CASES -> 0 .. 2]
    BY <1>1 DEF JudgeFails, Counted, IInv, TypeOK
  <1> QED
    BY <1>1, <1>2, <1>3, <1>4 DEF CaseStep, JudgeFails, Fails, IInv, TypeOK, Outcome

LEMMA ScoreStep ==
  ASSUME IInv, NEW c \in CASES, NEW found \in {"unscored", "found", "empty"}, Score(c, found)
  PROVE CaseStep(c)
  <1>1. at[c] = "scoring" /\ Usable(line[c], reply[c])
    BY DEF Score, IInv, CaseInv
  <1>2. Cardinality(InFlight') <= IN_FLIGHT
    BY <1>1, GateKeeps DEF Score, InFlight
  <1>3. \A d \in CASES \ {c} : Untouched(d)
    BY DEF Score, Untouched, IInv, TypeOK
  <1>4. Graded(c, found) \in {"error", "pass", "fail"}
    BY DEF Graded
  <1>5. /\ at'[c] = "graded" /\ chunks'[c] = found /\ outcome'[c] = Graded(c, found)
        /\ line' = line /\ reply' = reply /\ searches' = searches /\ satisfied' = satisfied
    BY DEF Score, IInv, TypeOK
  <1>6. CaseInv(c)'
    <2>1. Graded(c, chunks[c])' = Graded(c, found)
      BY <1>5 DEF Graded, StackFault, Checks, Judged, Passes
    <2>2. Scored(c)'
      BY <1>1, <1>5, <2>1 DEF Scored, Score
    <2> QED
      BY <1>4, <1>5, <2>2 DEF CaseInv
  <1> QED
    BY <1>1, <1>2, <1>3, <1>4, <1>6 DEF CaseStep, Score, IInv, TypeOK, Outcome

----------------------------------------------------------------------------
\* A step of the run.

LEMMA SameCases ==
  ASSUME IInv, UNCHANGED caseVars
  PROVE (\A c \in CASES : CaseInv(c)') /\ InFlight' = InFlight
  BY Elsewhere DEF IInv, Untouched, InFlight

LEMMA StartKeeps == ASSUME IInv, Start \/ StartError PROVE IInv'
  <1>1. TypeOK'
    BY SameCases DEF Start, StartError, IInv, TypeOK
  <1>2. RunInv'
    BY DEF Start, StartError, IInv, RunInv, NoFlips
  <1> QED
    BY <1>1, <1>2, SameCases DEF IInv, Start, StartError

LEMMA FlipsTyped ==
  /\ Flips \in [broke : SUBSET CASES, fixed : SUBSET CASES]
  /\ \A c \in Flips.broke : outcome[c] = "fail"
  /\ \A c \in Flips.fixed : outcome[c] = "pass"
  BY DEF Flips, Flipped, NoFlips

LEMMA ReportKeeps == ASSUME IInv, Report PROVE IInv'
  <1>1. TypeOK'
    BY SameCases, FlipsTyped DEF Report, IInv, TypeOK, ExitCode
  <1>2. \A c \in CASES : outcome[c] \in {"pass", "fail", "error"}
    BY DEF Report, IInv, TypeOK, CaseInv, Outcome
  <1>3. RunInv'
    BY <1>2, FlipsTyped DEF Report, RunInv, ExitCode
  <1> QED
    BY <1>1, <1>3, SameCases DEF IInv, Report

LEMMA MaintainKeeps == ASSUME IInv, Maintain PROVE IInv'
  <1>1. \A c \in CASES : CaseInv(c)'
    BY DEF Maintain, Fresh, CaseInv
  <1>2. Cardinality(InFlight') <= IN_FLIGHT
    <2>1. InFlight' = {}
      BY DEF Maintain, Fresh, InFlight
    <2> QED
      BY <2>1, FS_EmptySet, GateAssumption
  <1>3. TypeOK'
    BY <1>2, FilesTyped, NoReplyTyped
    DEF Maintain, Fresh, IInv, TypeOK, NoBaseline, Snapshot, NoFlips, Outcome
  <1>4. RunInv'
    BY DEF Maintain, Fresh, RunInv
  <1> QED
    BY <1>1, <1>3, <1>4 DEF IInv

LEMMA StepInv == IInv /\ [Next]_vars => IInv'
  <1> SUFFICES ASSUME IInv, [Next]_vars PROVE IInv'
    OBVIOUS
  <1>1. CASE UNCHANGED vars
    <2>1. RunInv' /\ TypeOK'
      BY <1>1, SameCases DEF vars, IInv, RunInv, TypeOK
    <2> QED
      BY <1>1, <2>1, SameCases DEF vars, IInv
  <1>2. CASE Start \/ StartError
    BY <1>2, StartKeeps
  <1>3. CASE Report
    BY <1>3, ReportKeeps
  <1>4. CASE Maintain
    BY <1>4, MaintainKeeps
  <1>5. ASSUME NEW c \in CASES, Admit(c) \/ Agent(c) \/ Raises(c) PROVE IInv'
    BY <1>5, AdmitStep, AnswerStep, RaisesStep, CaseStepKeeps DEF Agent
  <1>6. ASSUME NEW c \in CASES, Judge(c) PROVE IInv'
    BY <1>6, GradeStep, UnusableStep, JudgeFailsStep, CaseStepKeeps DEF Judge
  <1>7. ASSUME NEW c \in CASES, NEW found \in {"unscored", "found", "empty"}, Score(c, found)
        PROVE IInv'
    BY <1>7, ScoreStep, CaseStepKeeps
  <1> QED
    BY <1>1, <1>2, <1>3, <1>4, <1>5, <1>6, <1>7 DEF Next

\* The invariant holds of every run of the runner.
THEOREM InvHolds == Spec => []IInv
  BY InitInv, StepInv, PTL DEF Spec

\* Every reachable state has its type: no more cases are in flight than the gate
\* admits, and the judge is called at most twice for an answer.
THEOREM TypeCorrect == Spec => []TypeOK
  <1>1. IInv => TypeOK
    BY DEF IInv
  <1> QED
    BY <1>1, InvHolds, PTL

----------------------------------------------------------------------------
\* What an outcome says.

LEMMA StackWorkedFor ==
  ASSUME IInv, NEW c \in CASES, outcome[c] \in {"pass", "fail"}
  PROVE StackWorked(c) /\ Checks(c) /\ Usable(line[c], reply[c])
        /\ (outcome[c] = "pass" <=> Passes(c))
  <1>1. Scored(c)
    BY DEF IInv, CaseInv
  <1>2. ~StackFault(c, chunks[c]) /\ Checks(c) /\ (outcome[c] = "pass" <=> Passes(c))
    BY <1>1 DEF Scored, Graded
  <1>3. chunks[c] \in {"unscored", "found", "empty"}
    BY DEF IInv, TypeOK
  <1> QED
    BY <1>1, <1>2, <1>3 DEF Scored, StackFault, StackWorked

\* A point that a usable reply decides is decided by every entry about it.
LEMMA Decided ==
  ASSUME IInv, NEW c \in CASES, Usable(line[c], reply[c]), NEW n \in 1 .. line[c].points,
         NEW entry \in Kept(reply[c].points), entry.index = n, Sound(entry.verdict)
  PROVE Agreed(c, n, entry.verdict)
  BY KeptAgrees DEF Agreed, Usable, IInv, TypeOK

LEMMA PassIsEarned ==
  ASSUME IInv, NEW c \in CASES, outcome[c] = "pass"
  PROVE Earned(c)
  <1>1. Passes(c) /\ Usable(line[c], reply[c])
    BY StackWorkedFor
  <1>2. ASSUME NEW n \in 1 .. line[c].points PROVE Agreed(c, n, "yes")
    <2>1. PICK entry \in Kept(reply[c].points) : entry.index = n /\ entry.verdict = "yes"
      BY <1>1 DEF Passes, Affirmed
    <2> QED
      BY <1>1, <2>1, Decided DEF Sound
  <1> QED
    BY <1>1, <1>2 DEF Earned, Passes, Affirmed

LEMMA FailIsBlamed ==
  ASSUME IInv, NEW c \in CASES, outcome[c] = "fail"
  PROVE Blamed(c)
  <1>1. ~Passes(c) /\ Usable(line[c], reply[c])
    BY StackWorkedFor
  <1>2. CASE line[c].code /\ ~satisfied[c]
    BY <1>2 DEF Blamed
  <1>3. CASE line[c].grounded /\ reply[c].grounded # "yes"
    BY <1>1, <1>3 DEF Blamed, Usable, Sound
  <1>4. CASE \E n \in 1 .. line[c].points :
               ~\E entry \in Kept(reply[c].points) : entry.index = n /\ entry.verdict = "yes"
    <2>1. PICK n \in 1 .. line[c].points :
               ~\E entry \in Kept(reply[c].points) : entry.index = n /\ entry.verdict = "yes"
      BY <1>4
    <2>2. PICK entry \in Kept(reply[c].points) : entry.index = n /\ Sound(entry.verdict)
      BY <1>1 DEF Usable
    <2>3. entry.verdict = "no"
      BY <2>1, <2>2 DEF Sound
    <2> QED
      BY <1>1, <2>2, <2>3, Decided DEF Blamed
  <1> QED
    BY <1>1, <1>2, <1>3, <1>4 DEF Passes, Affirmed

\* run.py:10-11 and run.py:267: an exit of 0 and every pass are earned by the
\* answers, and every failure and broken flip is the answer's own, whatever the
\* judge sent, the stack did and the baseline held.
THEOREM ReportsAreHonest == Spec => []ReportIsHonest
  <1>1. ASSUME IInv PROVE GreenIsEarned
    BY <1>1, StackWorkedFor, PassIsEarned
    DEF IInv, RunInv, GreenIsEarned, Checks, Judged, TypeOK, Line
  <1>2. ASSUME IInv PROVE BlameIsEarned
    <2>1. \A c \in CASES : outcome[c] = "fail" => StackWorked(c) /\ Blamed(c)
      BY <1>2, StackWorkedFor, FailIsBlamed
    <2>2. \A c \in CASES : outcome[c] = "pass" => StackWorked(c) /\ Earned(c)
      BY <1>2, StackWorkedFor, PassIsEarned
    <2>3. flips.broke \subseteq CASES /\ flips.fixed \subseteq CASES
      BY <1>2 DEF IInv, TypeOK
    <2> QED
      BY <1>2, <2>1, <2>2, <2>3 DEF BlameIsEarned, IInv, RunInv
  <1>3. IInv => ReportIsHonest
    BY <1>1, <1>2 DEF ReportIsHonest
  <1> QED
    BY <1>3, InvHolds, PTL
=============================================================================
