-------------------------------- MODULE Evals --------------------------------
(***************************************************************************)
(* The eval runner (src/evals): a run loads the case file, drives the agent *)
(* over every case, at most IN_FLIGHT of them at once (run.py), has a model *)
(* judge each answer (judge.py), and ends with a report, the flips against  *)
(* the committed baseline (report.py) and an exit code.                     *)
(*                                                                         *)
(* A case is known by its place in the file.  `at` is where run_case waits: *)
(*   "queued"     at the gate                                              *)
(*   "answering"  for the agent's answer                                   *)
(*   "judging"    for the judge's reply                                    *)
(*   "scoring"    for the retrieval that scores the case                   *)
(*   "graded"     it has its outcome                                       *)
(***************************************************************************)
EXTENDS Naturals, Sequences, FiniteSets

CONSTANTS
    CASES,        \* the places of the cases
    LINES,        \* what the line of each case may say, over its edits
    IN_FLIGHT,    \* EVAL_CONCURRENCY
    CUTOFF,       \* whether retrieval has a MAX_DISTANCE
    Index,        \* the indexes the judge may name,
    MaxPoints     \* and a bound on its verdicts

Line == [tier : {"must", "probe"}, documents : BOOLEAN, code : BOOLEAN,
         points : Nat, grounded : BOOLEAN]

ASSUME CasesAssumption == CASES \subseteq Nat /\ IsFiniteSet(CASES)
ASSUME LinesAssumption == \A c \in CASES : LINES[c] # {} /\ LINES[c] \subseteq Line
\* concurrency() refuses 0, which would admit no case.
ASSUME GateAssumption == IN_FLIGHT \in Nat \ {0}
ASSUME EvalBoundsAssumption == MaxPoints \in Nat

VARIABLES
    baseline,     \* evals/baseline.json: each case's line and outcome
    phase,        \* of the run: "idle", "running", "over"
    line,         \* the case file, as a run loads it
    at,
    searches,     \* what went wrong with the case's searches
    satisfied,    \* the answer meets the line's code checks
    tries,        \* calls of the judge
    reply,        \* the reply whose verdicts were taken
    chunks,       \* what the retrieval score found
    outcome,
    flips,
    exit

caseVars == <<line, at, searches, satisfied, tries, reply, chunks, outcome>>
vars == <<baseline, phase, caseVars, flips, exit>>

----------------------------------------------------------------------------
\* What the judge may send, and what a case keeps.

\* A verdict is yes or no with a reason; "bare" is a yes without one, and
\* "other" has no boolean at all.
Verdict == {"yes", "no", "bare", "other"}
Entry == [index : Index, verdict : Verdict]
Reply == [points : UNION {[1 .. n -> Entry] : n \in 0 .. MaxPoints}, grounded : Verdict]
NoReply == [points |-> <<>>, grounded |-> "other"]

Trouble == {"nothing", "unavailable"}
Outcome == {"none", "pass", "fail", "error"}
NoFlips == [broke |-> {}, fixed |-> {}]

\* A missing or broken baseline is none.
NoBaseline == [there |-> FALSE, line |-> <<>>, outcome |-> <<>>]
Snapshot == [there |-> TRUE, line |-> line, outcome |-> outcome]

Files == {f \in [CASES -> UNION {LINES[c] : c \in CASES}] : \A c \in CASES : f[c] \in LINES[c]}

Fresh ==
    /\ at' = [c \in CASES |-> "queued"]
    /\ searches' = [c \in CASES |-> {}]
    /\ satisfied' = [c \in CASES |-> FALSE]
    /\ tries' = [c \in CASES |-> 0]
    /\ reply' = [c \in CASES |-> NoReply]
    /\ chunks' = [c \in CASES |-> "unscored"]
    /\ outcome' = [c \in CASES |-> "none"]

Init ==
    /\ line \in Files
    /\ baseline = NoBaseline
    /\ phase = "idle"
    /\ at = [c \in CASES |-> "queued"]
    /\ searches = [c \in CASES |-> {}]
    /\ satisfied = [c \in CASES |-> FALSE]
    /\ tries = [c \in CASES |-> 0]
    /\ reply = [c \in CASES |-> NoReply]
    /\ chunks = [c \in CASES |-> "unscored"]
    /\ outcome = [c \in CASES |-> "none"]
    /\ flips = NoFlips
    /\ exit = 0

----------------------------------------------------------------------------
\* Between runs the process is gone: the maintainer edits the case file, and may
\* move the baseline to the last report or leave it unreadable.

Maintain ==
    /\ phase = "over"
    /\ phase' = "idle"
    /\ \/ exit # 2 /\ baseline' = Snapshot
       \/ baseline' \in {baseline, NoBaseline}
    /\ line' \in Files
    /\ Fresh
    /\ flips' = NoFlips /\ exit' = 0

\* Loaded, set up, ingested and past the preflight; or exit 2, nothing graded.
Start ==
    /\ phase = "idle"
    /\ phase' = "running"
    /\ UNCHANGED <<baseline, caseVars, flips, exit>>

StartError ==
    /\ phase = "idle"
    /\ phase' = "over" /\ exit' = 2
    /\ UNCHANGED <<baseline, caseVars, flips>>

----------------------------------------------------------------------------
\* run_case: the answer.

InFlight == {c \in CASES : at[c] \in {"answering", "judging", "scoring"}}
caseOnly == UNCHANGED <<baseline, phase, line, flips, exit>>

\* The semaphore admits in the order of the file.
Admit(c) ==
    /\ phase = "running" /\ at[c] = "queued"
    /\ Cardinality(InFlight) < IN_FLIGHT
    /\ \A d \in CASES : at[d] = "queued" => c <= d
    /\ at' = [at EXCEPT ![c] = "answering"]
    /\ UNCHANGED <<searches, satisfied, tries, reply, chunks, outcome>> /\ caseOnly

\* A case without key points or grounding has no judge, and one without
\* documents no score.
Judged(c) == line[c].points > 0 \/ line[c].grounded

Answer(c, told, meets) ==
    /\ at[c] = "answering"
    /\ line[c].code \/ meets
    /\ searches' = [searches EXCEPT ![c] = told]
    /\ satisfied' = [satisfied EXCEPT ![c] = meets]
    /\ at' = [at EXCEPT ![c] = IF Judged(c) THEN "judging" ELSE "scoring"]
    /\ UNCHANGED <<tries, reply, chunks, outcome>> /\ caseOnly

\* An error of one case does not end the run.
Fails(c) ==
    /\ at' = [at EXCEPT ![c] = "graded"]
    /\ outcome' = [outcome EXCEPT ![c] = "error"]

\* Any call raises: the agent, the database, the retrieval score.
Raises(c) ==
    /\ c \in InFlight
    /\ Fails(c)
    /\ UNCHANGED <<searches, satisfied, tries, reply, chunks>> /\ caseOnly

----------------------------------------------------------------------------
\* judge.py.

Says(verdict) == IF verdict = "bare" THEN "yes" ELSE verdict
Sound(verdict) == verdict \in {"yes", "no"}

\* Two entries of one index that differ.
\* Mutant: the first is taken.
ConflictingNever(points) == FALSE
Conflicting(points) ==
    \E i, j \in DOMAIN points :
        /\ points[i].index = points[j].index
        /\ Says(points[i].verdict) # Says(points[j].verdict)

\* by_index: the first entry of each index.
Kept(points) ==
    {points[i] : i \in {k \in DOMAIN points : \A j \in 1 .. k - 1 : points[j].index # points[k].index}}

\* check_verdict: a verdict on every key point, and on grounding if asked.
Usable(spec, said) ==
    /\ ~Conflicting(said.points)
    /\ \A n \in 1 .. spec.points :
         \E entry \in Kept(said.points) : entry.index = n /\ Sound(entry.verdict)
    /\ spec.grounded => Sound(said.grounded)

\* The checks it makes all pass.
Affirmed(spec, said) ==
    /\ \A n \in 1 .. spec.points :
         \E entry \in Kept(said.points) : entry.index = n /\ entry.verdict = "yes"
    /\ spec.grounded => said.grounded = "yes"

\* AnthropicJudge.grade: a reply that cannot be used is asked for once more.
\* Mutant: twice more.
AsksTwiceMore(c) == tries[c] < 2
AsksAgain(c) == tries[c] < 1

Counted(c) == tries' = [tries EXCEPT ![c] = @ + 1]

Grade(c, said) ==
    /\ at[c] = "judging"
    /\ Usable(line[c], said)
    /\ reply' = [reply EXCEPT ![c] = said]
    /\ at' = [at EXCEPT ![c] = "scoring"]
    /\ Counted(c)
    /\ UNCHANGED <<searches, satisfied, chunks, outcome>> /\ caseOnly

\* No tool call, an input that is no object, or one that check_verdict refuses.
Unusable(c) ==
    /\ at[c] = "judging"
    /\ Counted(c)
    /\ \/ AsksAgain(c) /\ UNCHANGED <<at, outcome>>
       \/ ~AsksAgain(c) /\ Fails(c)
    /\ UNCHANGED <<searches, satisfied, reply, chunks>> /\ caseOnly

\* An API error, a refusal, a reply cut off: the same request ends the same way.
JudgeFails(c) ==
    /\ at[c] = "judging"
    /\ Counted(c)
    /\ Fails(c)
    /\ UNCHANGED <<searches, satisfied, reply, chunks>> /\ caseOnly

----------------------------------------------------------------------------
\* The score, the outcome and the report.

\* _stack_fault: nothing found for the corpus owner is the stack's failure.
StackFault(c, found) ==
    \/ "unavailable" \in searches[c]
    \/ /\ line[c].documents /\ ~CUTOFF
       /\ "nothing" \in searches[c] \/ found = "empty"

Checks(c) == line[c].code \/ Judged(c)
Passes(c) == (line[c].code => satisfied[c]) /\ Affirmed(line[c], reply[c])

\* A case that checks nothing is an error: all([]) would pass any answer.
Graded(c, found) ==
    IF StackFault(c, found) \/ ~Checks(c) THEN "error"
    ELSE IF Passes(c) THEN "pass" ELSE "fail"

Score(c, found) ==
    /\ at[c] = "scoring"
    /\ line[c].documents <=> found # "unscored"
    /\ chunks' = [chunks EXCEPT ![c] = found]
    /\ outcome' = [outcome EXCEPT ![c] = Graded(c, found)]
    /\ at' = [at EXCEPT ![c] = "graded"]
    /\ UNCHANGED <<searches, satisfied, tries, reply>> /\ caseOnly

\* compare: a case flips only where its line is unchanged and both runs graded it.
Flipped(was, is) ==
    {c \in CASES :
        /\ baseline.line[c] = line[c]
        /\ baseline.outcome[c] = was /\ outcome[c] = is}
Flips ==
    IF baseline.there
    THEN [broke |-> Flipped("pass", "fail"), fixed |-> Flipped("fail", "pass")]
    ELSE NoFlips

ExitCode ==
    IF \/ \E c \in CASES : outcome[c] = "error"
       \/ \E c \in CASES : line[c].tier = "must" /\ outcome[c] # "pass"
    THEN 1 ELSE 0

Report ==
    /\ phase = "running"
    /\ \A c \in CASES : at[c] = "graded"
    /\ flips' = Flips
    /\ exit' = ExitCode
    /\ phase' = "over"
    /\ UNCHANGED <<baseline, caseVars>>

----------------------------------------------------------------------------
Agent(c) == \E told \in SUBSET Trouble, meets \in BOOLEAN : Answer(c, told, meets)
Judge(c) == (\E said \in Reply : Grade(c, said)) \/ Unusable(c) \/ JudgeFails(c)

Next ==
    \/ Start \/ StartError \/ Report
    \/ Maintain
    \/ \E c \in CASES :
         \/ Admit(c) \/ Agent(c) \/ Raises(c) \/ Judge(c)
         \/ \E found \in {"unscored", "found", "empty"} : Score(c, found)

Spec == Init /\ [][Next]_vars

----------------------------------------------------------------------------
\* Properties.

TypeOK ==
    /\ line \in [CASES -> Line]
    /\ baseline.there => baseline.line \in [CASES -> Line] /\ baseline.outcome \in [CASES -> Outcome]
    /\ phase \in {"idle", "running", "over"}
    /\ at \in [CASES -> {"queued", "answering", "judging", "scoring", "graded"}]
    /\ Cardinality(InFlight) <= IN_FLIGHT
    /\ searches \in [CASES -> SUBSET Trouble]
    /\ satisfied \in [CASES -> BOOLEAN]
    /\ tries \in [CASES -> 0 .. 2]
    /\ reply \in [CASES -> Reply]
    /\ chunks \in [CASES -> {"unscored", "found", "empty"}]
    /\ outcome \in [CASES -> Outcome]
    /\ flips \in [broke : SUBSET CASES, fixed : SUBSET CASES]
    /\ exit \in 0 .. 2

\* What the world showed of a case, whatever was made of it.
StackWorked(c) ==
    /\ "unavailable" \notin searches[c]
    /\ line[c].documents /\ ~CUTOFF => "nothing" \notin searches[c] /\ chunks[c] = "found"

\* The judge said one thing of the point, however often it said it.
Agreed(c, n, word) ==
    /\ \E e \in DOMAIN reply[c].points : reply[c].points[e].index = n
    /\ \A e \in DOMAIN reply[c].points :
         reply[c].points[e].index = n => Says(reply[c].points[e].verdict) = word

Earned(c) ==
    /\ line[c].code => satisfied[c]
    /\ \A n \in 1 .. line[c].points : Agreed(c, n, "yes")
    /\ line[c].grounded => reply[c].grounded = "yes"

Blamed(c) ==
    \/ line[c].code /\ ~satisfied[c]
    \/ \E n \in 1 .. line[c].points : Agreed(c, n, "no")
    \/ line[c].grounded /\ reply[c].grounded = "no"

\* run.py:10-11: exit 0 says that every must case passed and nothing errored. It
\* is given only when the stack answered every case, every case named a check,
\* and every must case earned its pass from a judge that did not contradict itself.
GreenIsEarned ==
    phase = "over" /\ exit = 0 =>
        \A c \in CASES :
            /\ StackWorked(c)
            /\ line[c].code \/ line[c].points > 0 \/ line[c].grounded
            /\ line[c].tier = "must" => Earned(c)

\* run.py:267: a fault is an error, never a failure. A case fails, and a flip
\* breaks, only on the answer itself.
BlameIsEarned ==
    /\ \A c \in CASES : outcome[c] = "fail" => StackWorked(c) /\ Blamed(c)
    /\ phase = "over" =>
         /\ \A c \in flips.broke : StackWorked(c) /\ Blamed(c)
         /\ \A c \in flips.fixed : StackWorked(c) /\ Earned(c)

\* What a report says of the model under test is the model's own doing, for
\* better and for worse, whatever the judge, the stack or the baseline did.
ReportIsHonest == GreenIsEarned /\ BlameIsEarned
=============================================================================
