---------------------------- MODULE TitlesProofs ----------------------------
(* Proofs about Titles, for any conversations, requests, limits and faults.  *)
EXTENDS Titles, FiniteSetTheorems, TLAPS

USE DEF turnVars, poolVars, bounds, NULL

----------------------------------------------------------------------------
\* Types.

\* The backlog stays finite and within its limit.
Backlog == IsFiniteSet(pending)
Typed == TypeOK /\ Backlog

LEMMA InitTyped == Init => Typed
  <1> SUFFICES ASSUME Init PROVE Typed
    OBVIOUS
  <1>1. IsFiniteSet(pending) /\ Cardinality(pending) = 0
    BY FS_EmptySet DEF Init
  <1>2. NoJob \in Job
    BY LimitsAssumption DEF NoJob, Job, JobStates, Title
  <1> QED
    BY <1>1, <1>2, LimitsAssumption DEF Init, Typed, TypeOK, Backlog, Title

LEMMA JobMoves ==
  ASSUME TypeOK, NEW j \in JOBS, NEW where \in JobStates
  PROVE Moved(j, where) \in [JOBS -> Job]
  BY DEF TypeOK, Moved, Job

LEMMA JobsEnd ==
  ASSUME TypeOK, NEW js
  PROVE Over(js) \in [JOBS -> Job] /\ Loses(js) \in [CONVERSATIONS -> BOOLEAN]
  BY LimitsAssumption DEF TypeOK, Over, Loses, Job, NoJob, JobStates, Title

LEMMA JobStarts ==
  ASSUME TypeOK, NEW j \in JOBS, NEW about \in Kinds
  PROVE [job EXCEPT ![j] = Handed(about)] \in [JOBS -> Job]
  BY LimitsAssumption DEF TypeOK, Handed, Job, JobStates, Title

LEMMA NewIsFree == ASSUME Free # {} PROVE New \in Free
  BY DEF New

LEMMA FireTyped ==
  ASSUME Typed, NEW about \in Kinds, FireAndForget(about)
  PROVE /\ job' \in [JOBS -> Job] /\ lost' \in [CONVERSATIONS -> BOOLEAN]
        /\ pending' \subseteq JOBS /\ IsFiniteSet(pending')
        /\ Cardinality(pending') <= MAX_PENDING /\ pool' \in Seq(JOBS)
  <1>1. CASE Full /\ UNCHANGED <<poolVars, job>>
    BY <1>1 DEF FireAndForget, Typed, TypeOK, Backlog
  <1>2. CASE ~Full /\ Free # {} /\ pending' = pending \cup {New} /\ UNCHANGED lost
    <2>1. New \in JOBS /\ New \notin pending
      BY <1>2, NewIsFree DEF Free
    <2>2. IsFiniteSet(pending') /\ Cardinality(pending') = Cardinality(pending) + 1
      BY <1>2, <2>1, FS_AddElement DEF Typed, Backlog
    <2>3. Cardinality(pending) \in Nat
      BY FS_CardinalityType DEF Typed, Backlog
    <2>4. job' = [job EXCEPT ![New] = Handed(about)] /\ pool' = Append(pool, New)
      BY <1>2 DEF FireAndForget
    <2>5. job' \in [JOBS -> Job]
      BY <2>1, <2>4, JobStarts DEF Typed
    <2> QED
      BY <1>2, <2>1, <2>2, <2>3, <2>4, <2>5, LimitsAssumption DEF Typed, TypeOK, Full
  <1> QED
    BY <1>1, <1>2 DEF FireAndForget

LEMMA RetryTyped ==
  ASSUME TypeOK, NEW j \in JOBS, j \in Running
  PROVE /\ Retries(j) => Again(j) \in [JOBS -> Job]
        /\ Requeued(j, job[j].tries) \in [JOBS -> Job]
  BY LimitsAssumption DEF TypeOK, Again, Requeued, Retries, Job, JobStates, Title

LEMMA HoldingTyped ==
  ASSUME TypeOK, NEW j \in JOBS, NEW where \in JobStates, NEW text \in Title
  PROVE Holding(j, where, text) \in [JOBS -> Job]
  BY DEF TypeOK, Holding, Job

\* What a title's WHERE clause leaves of the types.
LEMMA TitleTyped ==
  ASSUME TypeOK, NEW j \in JOBS
  PROVE SetTitleIfUnset(job[j].about, job[j].text) \in [CONVERSATIONS -> Title]
  BY DEF TypeOK, SetTitleIfUnset, Job

LEMMA TypedStep == Typed /\ [Next]_vars => Typed'
  <1> SUFFICES ASSUME Typed, [Next]_vars PROVE Typed'
    OBVIOUS
  <1> USE DEF Typed
  <1>1. ASSUME NEW r \in REQUESTS, NEW c \in CONVERSATIONS, BeginFirst(r, c) \/ Ask(r, c)
        PROVE Typed'
    BY <1>1 DEF BeginFirst, Ask, TypeOK, Backlog
  <1>2. ASSUME NEW r \in REQUESTS,
               \/ CommitFirst(r) \/ SaveReply(r) \/ NothingSaved(r)
               \/ FirstUnacknowledged(r) \/ SaveUnacknowledged(r)
        PROVE Typed'
    <2>1. CASE CommitFirst(r)
      BY <2>1 DEF CommitFirst, StoresFirst, TypeOK, Backlog
    <2>2. CASE SaveReply(r)
      BY <2>2 DEF SaveReply, TypeOK, Backlog
    <2>3. CASE NothingSaved(r)
      BY <2>3, LimitsAssumption DEF NothingSaved, TypeOK, Backlog
    <2>4. CASE FirstUnacknowledged(r) \/ SaveUnacknowledged(r)
      <3>1. Unqueued(r)
        BY <2>4 DEF FirstUnacknowledged, SaveUnacknowledged
      <3>2. /\ at' \in [REQUESTS -> {"idle", "creating", "created", "answering", "untitled"}]
            /\ lost' \in [CONVERSATIONS -> BOOLEAN]
            /\ faults' \in 0 .. MaxFaults
        BY <3>1, LimitsAssumption DEF Unqueued, Fault, TypeOK
      <3>3. /\ conversation' \in [CONVERSATIONS -> {"absent", "stored", "deleted"}]
            /\ asked' \in [CONVERSATIONS -> 0 .. 2]
        BY <2>4 DEF FirstUnacknowledged, SaveUnacknowledged, StoresFirst, TypeOK
      <3> QED
        BY <3>1, <3>2, <3>3 DEF Unqueued, Fault, TypeOK, Backlog
    <2> QED
      BY <1>2, <2>1, <2>2, <2>3, <2>4
  <1>3. ASSUME NEW r \in REQUESTS, EnqueueTitle(r) PROVE Typed'
    <2>1. on[r] \in Kinds
      BY DEF TypeOK, Kinds
    <2> QED
      BY <1>3, <2>1, FireTyped DEF EnqueueTitle, TypeOK, Backlog
  <1>4. ASSUME NEW c \in CONVERSATIONS, DeleteConversation(c) PROVE Typed'
    BY <1>4 DEF DeleteConversation, TypeOK, Backlog
  <1>5. ASSUME NEW j \in JOBS, Publishing(j) PROVE Typed'
    <2>1. "queued" \in JobStates
      BY DEF JobStates
    <2> QED
      BY <1>5, <2>1, JobMoves, JobsEnd, LimitsAssumption
      DEF Publishing, Sent, SendFails, Queued, Fault, TypeOK, Backlog
  <1>6. ASSUME NEW j \in JOBS, Discard(j) PROVE Typed'
    <2>1. /\ IsFiniteSet(pending') /\ Cardinality(pending') = Cardinality(pending) - 1
          /\ Cardinality(pending) \in Nat
      BY <1>6, FS_RemoveElement, FS_CardinalityType DEF Discard, Backlog
    <2> QED
      BY <1>6, <2>1, LimitsAssumption DEF Discard, TypeOK, Backlog
  <1>7. ASSUME NEW j \in JOBS, Cancel(j) PROVE Typed'
    <2>1. pool' \in Seq(JOBS)
      BY <1>7 DEF Cancel, TypeOK
    <2> QED
      BY <1>7, <2>1, JobsEnd DEF Cancel, TypeOK, Backlog
  <1>8. ASSUME NEW j \in JOBS, Receive(j) \/ Attempt(j) \/ NoTitle(j) PROVE Typed'
    <2>1. {"received", "asking", "writing"} \subseteq JobStates
      BY DEF JobStates
    <2>2. CASE Receive(j) \/ SendEmail(j) \/ NotNeeded(j)
      BY <2>1, <2>2, JobMoves, JobsEnd DEF Receive, SendEmail, NotNeeded, workerUnchanged, TypeOK, Backlog
    <2>3. CASE ReadMessage(j)
      <3>1. [of |-> FirstUserMessage(job[j].about), words |-> 0] \in Title
        BY DEF FirstUserMessage, Title
      <3> QED
        BY <2>3, <3>1, <2>1, HoldingTyped DEF ReadMessage, workerUnchanged, TypeOK, Backlog
    <2>4. ASSUME NEW words \in 1 .. 2, SuggestTitle(j, words) PROVE Typed'
      <3>1. [of |-> job[j].text.of, words |-> words] \in Title
        BY DEF TypeOK, Job, Title
      <3> QED
        BY <2>4, <3>1, <2>1, HoldingTyped DEF SuggestTitle, workerUnchanged, TypeOK, Backlog
    <2>5. CASE WriteTitle(j)
      BY <2>5, TitleTyped, JobsEnd DEF WriteTitle, workerUnchanged, TypeOK, Backlog
    <2>6. CASE NoTitle(j)
      BY <2>6, JobsEnd, LimitsAssumption DEF NoTitle, Fault, workerUnchanged, TypeOK, Backlog
    <2> QED
      BY <1>8, <2>2, <2>3, <2>4, <2>5, <2>6 DEF Attempt
  <1>9. ASSUME NEW j \in JOBS, RetryTransient(j) \/ GiveUp(j) \/ CommitLost(j) \/ Redeliver(j)
        PROVE Typed'
    <2>1. j \in Running
      BY <1>9 DEF RetryTransient, GiveUp, CommitLost, Redeliver, Running
    <2>2. /\ job' \in [JOBS -> Job]
          /\ lost' \in [CONVERSATIONS -> BOOLEAN]
          /\ title' \in [CONVERSATIONS -> Title]
      <3>1. CASE RetryTransient(j)
        BY <3>1, <2>1, RetryTyped DEF RetryTransient, TypeOK
      <3>2. CASE GiveUp(j)
        BY <3>2, JobsEnd DEF GiveUp, workerUnchanged, TypeOK
      <3>3. CASE CommitLost(j)
        BY <3>3, <2>1, RetryTyped, JobsEnd, TitleTyped DEF CommitLost, TypeOK
      <3>4. CASE Redeliver(j)
        BY <3>4, <2>1, RetryTyped DEF Redeliver, TypeOK
      <3> QED
        BY <1>9, <3>1, <3>2, <3>3, <3>4
    <2>3. Fault /\ workerUnchanged
      BY <1>9 DEF RetryTransient, GiveUp, CommitLost, Redeliver
    <2> QED
      BY <2>2, <2>3, LimitsAssumption DEF Fault, workerUnchanged, TypeOK, Backlog
  <1>10. CASE Mail
    <2>1. "email" \in Kinds
      BY DEF Kinds
    <2> QED
      BY <1>10, <2>1, FireTyped, LimitsAssumption DEF Mail, TypeOK, Backlog
  <1>11. CASE Publish
    <2>1. New \in JOBS /\ "upload" \in Kinds
      BY <1>11, NewIsFree DEF Publish, Free, Kinds
    <2> QED
      BY <1>11, <2>1, JobStarts, LimitsAssumption DEF Publish, TypeOK, Backlog
  <1>12. CASE StartSend
    <2>1. Head(pool) \in JOBS /\ Tail(pool) \in Seq(JOBS) /\ "sending" \in JobStates
      BY <1>12 DEF StartSend, TypeOK, JobStates
    <2> QED
      BY <1>12, <2>1, JobMoves DEF StartSend, TypeOK, Backlog
  <1>13. CASE Crash
    <2>1. IsFiniteSet({}) /\ Cardinality({}) = 0
      BY FS_EmptySet
    <2>2. job' \in [JOBS -> Job] /\ lost' \in [CONVERSATIONS -> BOOLEAN]
      <3>1. PICK arrived \in SUBSET {j \in Sending : job[j].about # "upload"} :
              /\ job' = [j \in JOBS |-> IF j \in arrived THEN [job[j] EXCEPT !.at = "queued"]
                                         ELSE Over(InProcess)[j]]
              /\ lost' = [c \in CONVERSATIONS |->
                             \/ Loses(InProcess \ arrived)[c]
                             \/ \E r \in REQUESTS : Owes(r) /\ on[r] = c]
        BY <1>13 DEF Crash
      <3>2. \A j \in JOBS : Over(InProcess)[j] \in Job
        BY JobsEnd
      <3>3. ASSUME NEW j \in JOBS PROVE [job[j] EXCEPT !.at = "queued"] \in Job
        <4>1. job[j] \in Job /\ "queued" \in JobStates
          BY DEF TypeOK, JobStates
        <4> QED
          BY ONLY <4>1 DEF Job
      <3>4. job' \in [JOBS -> Job]
        BY <3>1, <3>2, <3>3
      <3>5. \A c \in CONVERSATIONS : Loses(InProcess \ arrived)[c] \in BOOLEAN
        BY JobsEnd
      <3>6. lost' \in [CONVERSATIONS -> BOOLEAN]
        BY ONLY <3>1, <3>5
      <3> QED
        BY <3>4, <3>6
    <2> QED
      BY <1>13, <2>1, <2>2, LimitsAssumption DEF Crash, Fault, TypeOK, Backlog
  <1>14. CASE UNCHANGED vars
    BY <1>14 DEF vars, TypeOK, Backlog
  <1> QED
    BY <1>1, <1>2, <1>3, <1>4, <1>5, <1>6, <1>7, <1>8, <1>9, <1>10, <1>11, <1>12, <1>13, <1>14
    DEF Next, Goes

\* The types of every reachable state, for every value of the constants.
THEOREM TypeCorrect == Spec => []TypeOK
  <1>1. Spec => []Typed
    BY InitTyped, TypedStep, PTL DEF Spec
  <1> QED
    BY <1>1, PTL DEF Typed

----------------------------------------------------------------------------
\* What a title's attempt may rely on: a stored conversation has a first
\* message, and an attempt past its reads holds that message's text.
Asked == \A c \in CONVERSATIONS : conversation[c] = "stored" => asked[c] # 0
Idle == \A j \in JOBS : job[j].at = "none" => job[j].about = "nothing"
FromFirst ==
    \A j \in JOBS : job[j].at \in {"asking", "writing"} =>
        job[j].about \in CONVERSATIONS /\ job[j].text.of = 1
Inv == Typed /\ Asked /\ Idle /\ FromFirst

LEMMA AskedStep == Inv /\ [Next]_vars => Asked'
  <1> SUFFICES ASSUME Inv, [Next]_vars PROVE Asked'
    OBVIOUS
  <1> USE DEF Inv, Typed
  <1>1. ASSUME NEW r \in REQUESTS, NEW c \in CONVERSATIONS, BeginFirst(r, c) \/ Ask(r, c)
        PROVE Asked'
    BY <1>1 DEF BeginFirst, Ask, TypeOK, Asked
  <1>2. ASSUME NEW r \in REQUESTS, StoresFirst(r) PROVE Asked'
    BY <1>2 DEF StoresFirst, TypeOK, Asked
  <1>3. ASSUME NEW c \in CONVERSATIONS, DeleteConversation(c) PROVE Asked'
    BY <1>3 DEF DeleteConversation, TypeOK, Asked
  <1>4. CASE UNCHANGED <<conversation, asked>>
    BY <1>4 DEF Asked
  <1>5. \/ \E r \in REQUESTS, c \in CONVERSATIONS : BeginFirst(r, c) \/ Ask(r, c)
        \/ \E r \in REQUESTS : StoresFirst(r)
        \/ \E c \in CONVERSATIONS : DeleteConversation(c)
        \/ UNCHANGED <<conversation, asked>>
    BY DEF Next, Goes, CommitFirst, FirstUnacknowledged, SaveUnacknowledged, EnqueueTitle, SaveReply,
           NothingSaved, Publishing, Sent, SendFails, Discard,
           Cancel, Receive, Attempt, SendEmail, NotNeeded, ReadMessage, SuggestTitle, WriteTitle,
           NoTitle, RetryTransient, GiveUp, CommitLost, Redeliver, workerUnchanged, Mail, Publish,
           StartSend, Crash, vars
  <1> QED
    BY <1>1, <1>2, <1>3, <1>4, <1>5

\* A job after a step: as it was, ended, on its way to an attempt, or further
\* in its attempt.
Between == {"pool", "sending", "queued", "received"}
Advances(j) == ReadMessage(j) \/ \E words \in 1 .. 2 : SuggestTitle(j, words)
JobStep(i) == \/ job'[i] = job[i]
              \/ job'[i] = NoJob
              \/ job'[i].at \in Between
              \/ Advances(i)

LEMMA FireSteps ==
  ASSUME Inv, NEW about, FireAndForget(about), NEW i \in JOBS
  PROVE JobStep(i)
  <1>1. CASE Full /\ UNCHANGED <<poolVars, job>>
    BY <1>1 DEF JobStep
  <1>2. CASE Free # {} /\ job' = [job EXCEPT ![New] = Handed(about)]
    <2>1. New \in JOBS
      BY <1>2, NewIsFree DEF Free
    <2> QED
      BY <1>2, <2>1 DEF JobStep, Handed, Between, Inv, Typed, TypeOK
  <1> QED
    BY <1>1, <1>2 DEF FireAndForget

LEMMA JobsStep == Inv /\ [Next]_vars => \A i \in JOBS : JobStep(i)
  <1> SUFFICES ASSUME Inv, [Next]_vars, NEW i \in JOBS PROVE JobStep(i)
    OBVIOUS
  <1>0. job \in [JOBS -> Job]
    BY DEF Inv, Typed, TypeOK
  <1>1. CASE UNCHANGED job
    BY <1>1 DEF JobStep
  <1>2. ASSUME NEW about, FireAndForget(about) PROVE JobStep(i)
    BY <1>2, FireSteps
  <1>3. ASSUME NEW j \in JOBS, Publishing(j) \/ Cancel(j) \/ Receive(j) PROVE JobStep(i)
    BY <1>0, <1>3 DEF Publishing, Sent, SendFails, Queued, Cancel, Receive, Moved, Over, JobStep, Between, Job
  <1>4. ASSUME NEW j \in JOBS, Attempt(j) \/ NoTitle(j) PROVE JobStep(i)
    <2>1. CASE Advances(j)
      BY <1>0, <2>1 DEF Advances, ReadMessage, SuggestTitle, Holding, JobStep
    <2>2. CASE job' = Over({j})
      BY <2>2 DEF Over, JobStep
    <2> QED
      BY <1>4, <2>1, <2>2 DEF Attempt, Advances, SendEmail, NotNeeded, WriteTitle, NoTitle
  <1>5. ASSUME NEW j \in JOBS, RetryTransient(j) \/ GiveUp(j) \/ CommitLost(j) \/ Redeliver(j)
        PROVE JobStep(i)
    <2>1. CASE job' = Over({j})
      BY <2>1 DEF Over, JobStep
    <2>2. CASE job' = Again(j) \/ job' = Requeued(j, job[j].tries)
      BY <1>0, <2>2 DEF Again, Requeued, JobStep, Between
    <2> QED
      BY <1>5, <2>1, <2>2 DEF RetryTransient, GiveUp, CommitLost, Redeliver
  <1>6. CASE Publish
    <2>1. New \in JOBS
      BY <1>6, NewIsFree DEF Publish, Free
    <2> QED
      BY <1>0, <1>6, <2>1 DEF Publish, Handed, JobStep, Between
  <1>7. CASE StartSend
    <2>1. Head(pool) \in JOBS
      BY <1>7 DEF StartSend, Inv, Typed, TypeOK
    <2> QED
      BY <1>0, <1>7, <2>1 DEF StartSend, Moved, JobStep, Between, Job
  <1>8. CASE Crash
    BY <1>0, <1>8 DEF Crash, Over, JobStep, Between, Job
  <1> QED
    BY <1>1, <1>2, <1>3, <1>4, <1>5, <1>6, <1>7, <1>8
    DEF Next, Goes, BeginFirst, Ask, CommitFirst, EnqueueTitle, SaveReply, NothingSaved,
        FirstUnacknowledged, SaveUnacknowledged, Unqueued,
        DeleteConversation, Discard, Mail, vars

LEMMA InvInit == Init => Inv
  <1> SUFFICES ASSUME Init PROVE Inv
    OBVIOUS
  <1> QED
    BY InitTyped DEF Init, Inv, Asked, Idle, FromFirst, NoJob

LEMMA InvStep == Inv /\ [Next]_vars => Inv'
  <1> SUFFICES ASSUME Inv, [Next]_vars PROVE Inv'
    OBVIOUS
  <1>1. Typed' /\ Asked'
    BY TypedStep, AskedStep DEF Inv
  <1>2. ASSUME NEW i \in JOBS
        PROVE /\ job'[i].at = "none" => job'[i].about = "nothing"
              /\ job'[i].at \in {"asking", "writing"} =>
                   job'[i].about \in CONVERSATIONS /\ job'[i].text.of = 1
    <2>0. job[i] \in Job /\ job \in [JOBS -> Job]
      BY DEF Inv, Typed, TypeOK
    <2>1. CASE job'[i] = job[i]
      BY <2>1 DEF Inv, Idle, FromFirst
    <2>2. CASE job'[i] = NoJob
      BY <2>2 DEF NoJob
    <2>3. CASE job'[i].at \in Between
      BY <2>3 DEF Between
    <2>4. CASE ReadMessage(i)
      <3>1. FirstUserMessage(job[i].about) = 1
        BY <2>4 DEF ReadMessage, ofTitle, Needed, FirstUserMessage, Inv, Typed, TypeOK
      <3> QED
        BY <2>0, <2>4, <3>1 DEF ReadMessage, ofTitle, Holding, Job
    <2>5. ASSUME NEW words \in 1 .. 2, SuggestTitle(i, words)
          PROVE job'[i].at = "writing" /\ job'[i].about \in CONVERSATIONS /\ job'[i].text.of = 1
      BY <2>0, <2>5 DEF SuggestTitle, Holding, Job, Inv, FromFirst
    <2> QED
      BY <2>1, <2>2, <2>3, <2>4, <2>5, JobsStep DEF JobStep, Advances
  <1> QED
    BY <1>1, <1>2 DEF Inv, Idle, FromFirst

THEOREM InvHolds == Spec => []Inv
  BY InvInit, InvStep, PTL DEF Spec

----------------------------------------------------------------------------
\* Only two steps write a title, and they write it through the WHERE clause.
LEMMA Writes ==
  ASSUME Inv, NEW j \in JOBS, job[j].at = "writing",
         title' = SetTitleIfUnset(job[j].about, job[j].text),
         NEW c \in CONVERSATIONS, title'[c] # title[c]
  PROVE title[c] = NULL /\ title'[c].of = 1 /\ conversation[c] = "stored"
  BY DEF SetTitleIfUnset, Writable, Inv, FromFirst, Typed, TypeOK

\* A title is set once, from the first message, and never changes.
THEOREM SetOnce == Spec => TitleSetOnce
  <1>1. ASSUME Inv, [Next]_vars, NEW c \in CONVERSATIONS, title'[c] # title[c]
        PROVE title[c] = NULL /\ title'[c].of = 1 /\ conversation[c] = "stored"
    <2>1. \E j \in JOBS : WriteTitle(j) \/ CommitLost(j)
      BY <1>1 DEF Next, Goes, BeginFirst, Ask, CommitFirst, EnqueueTitle, SaveReply, NothingSaved,
           FirstUnacknowledged, SaveUnacknowledged, Unqueued,
           DeleteConversation, Publishing, Sent, SendFails, Discard,
           Cancel, Receive, Attempt, SendEmail, NotNeeded, ReadMessage, SuggestTitle,
           NoTitle, RetryTransient, GiveUp, Redeliver, Mail, Publish, StartSend, Crash, vars
    <2> QED
      BY <1>1, <2>1, Writes DEF WriteTitle, CommitLost
  <1>2. Inv /\ [Next]_vars =>
          [\A c \in CONVERSATIONS : title'[c] # title[c] =>
             title[c] = NULL /\ title'[c].of = 1 /\ conversation[c] = "stored"]_vars
    BY <1>1
  <1> QED
    BY <1>2, InvHolds, PTL DEF Spec, TitleSetOnce

----------------------------------------------------------------------------
\* The reason an untitled conversation has.
Cause(c) ==
    \/ lost[c]
    \/ \E r \in REQUESTS : on[r] = c /\ Owes(r)
    \/ \E j \in JOBS : job[j].about = c

\* Jobs that end leave the cause, when their loss is noted.
LEMMA EndsNoted ==
  ASSUME Inv, NEW c \in CONVERSATIONS, Cause(c), NEW j \in JOBS,
         job' = Over({j}), lost' = Loses({j}), UNCHANGED <<at, on>>
  PROVE Cause(c)'
  BY DEF Cause, Owes, Over, Loses, Inv, Typed, TypeOK

\* A step that keeps what every job is about keeps the cause.
LEMMA KeepsCause ==
  ASSUME NEW c \in CONVERSATIONS, Cause(c), UNCHANGED <<at, on, lost>>,
         \A i \in JOBS : job[i].about = c => job'[i].about = c
  PROVE Cause(c)'
  BY DEF Cause, Owes

LEMMA FireCause ==
  ASSUME Inv, NEW about, FireAndForget(about)
  PROVE /\ about \in CONVERSATIONS => lost'[about] \/ \E j \in JOBS : job'[j].about = about
        /\ \A c \in CONVERSATIONS : lost[c] => lost'[c]
        /\ \A c \in CONVERSATIONS, i \in JOBS : job[i].about = c => job'[i].about = c
  <1>0. job \in [JOBS -> Job]
    BY DEF Inv, Typed, TypeOK
  <1>1. CASE Full /\ lost' = [c \in CONVERSATIONS |-> lost[c] \/ c = about] /\ UNCHANGED job
    BY <1>1
  <1>2. CASE Free # {} /\ job' = [job EXCEPT ![New] = Handed(about)] /\ UNCHANGED lost
    <2>1. New \in JOBS /\ job[New].about = "nothing"
      BY <1>2, NewIsFree DEF Free, Inv, Idle
    <2> QED
      BY <1>0, <1>2, <2>1, KindsAssumption DEF Handed
  <1> QED
    BY <1>1, <1>2 DEF FireAndForget

LEMMA CauseStep == Inv /\ UntitledForCause /\ [Next]_vars => UntitledForCause'
  <1> SUFFICES ASSUME Inv, UntitledForCause, [Next]_vars,
                      NEW c \in CONVERSATIONS, Untitled(c)'
               PROVE Cause(c)'
    BY DEF UntitledForCause, Cause
  <1>0. Untitled(c) => Cause(c)
    BY DEF UntitledForCause, Cause
  <1>t. TypeOK
    BY DEF Inv, Typed
  <1>1. ASSUME NEW r \in REQUESTS, NEW d \in CONVERSATIONS, BeginFirst(r, d) \/ Ask(r, d)
        PROVE Cause(c)'
    BY <1>0, <1>t, <1>1 DEF BeginFirst, Ask, Untitled, Cause, Owes, TypeOK
  <1>2. ASSUME NEW r \in REQUESTS, CommitFirst(r) PROVE Cause(c)'
    <2>1. CASE c = on[r]
      BY <1>t, <1>2, <2>1 DEF CommitFirst, StoresFirst, Cause, Owes, TypeOK
    <2>2. CASE c # on[r]
      BY <1>0, <1>t, <1>2, <2>2 DEF CommitFirst, StoresFirst, Untitled, Cause, Owes, TypeOK
    <2> QED
      BY <2>1, <2>2
  <1>3. ASSUME NEW r \in REQUESTS, SaveReply(r) PROVE Cause(c)'
    <2>1. Untitled(c)
      BY <1>3 DEF SaveReply, Untitled
    <2>2. CASE c = on[r]
      BY <1>t, <1>3, <2>1, <2>2 DEF SaveReply, Cause, Owes, TypeOK
    <2>3. CASE c # on[r]
      BY <1>0, <1>t, <1>3, <2>1, <2>3 DEF SaveReply, Cause, Owes, TypeOK
    <2> QED
      BY <2>2, <2>3
  <1>u. ASSUME NEW r \in REQUESTS, FirstUnacknowledged(r) \/ SaveUnacknowledged(r)
        PROVE Cause(c)'
    <2>1. Unqueued(r)
      BY <1>u DEF FirstUnacknowledged, SaveUnacknowledged
    <2>2. CASE c = on[r]
      BY <1>t, <2>1, <2>2 DEF Unqueued, Cause, TypeOK
    <2>3. CASE c # on[r]
      <3>1. Untitled(c)
        BY <1>t, <1>u, <2>1, <2>3
        DEF FirstUnacknowledged, StoresFirst, SaveUnacknowledged, Unqueued, Untitled, TypeOK
      <3>2. Cause(c)
        BY <1>0, <3>1
      <3> QED
        BY <1>t, <2>1, <2>3, <3>2 DEF Unqueued, Cause, Owes, TypeOK
    <2> QED
      BY <2>2, <2>3
  <1>4. ASSUME NEW r \in REQUESTS, NothingSaved(r) PROVE Cause(c)'
    BY <1>0, <1>t, <1>4 DEF NothingSaved, Untitled, Cause, Owes, TypeOK
  <1>5. ASSUME NEW r \in REQUESTS, EnqueueTitle(r) PROVE Cause(c)'
    <2>1. Cause(c)
      BY <1>0, <1>5 DEF EnqueueTitle, Untitled
    <2>2. CASE on[r] = c
      BY <1>5, <2>2, FireCause DEF EnqueueTitle, Cause
    <2>3. CASE on[r] # c
      BY <1>t, <1>5, <2>1, <2>3, FireCause DEF EnqueueTitle, Cause, Owes, TypeOK
    <2> QED
      BY <2>2, <2>3
  <1>6. ASSUME NEW d \in CONVERSATIONS, DeleteConversation(d) PROVE Cause(c)'
    BY <1>0, <1>t, <1>6 DEF DeleteConversation, Untitled, Cause, Owes, TypeOK
  <1>7. ASSUME NEW j \in JOBS,
               \/ Sent(j) \/ Cancel(j) \/ Receive(j) \/ SendEmail(j) \/ ReadMessage(j)
               \/ (\E words \in 1 .. 2 : SuggestTitle(j, words))
               \/ RetryTransient(j) \/ Redeliver(j)
        PROVE Cause(c)'
    <2>1. Untitled(c) /\ UNCHANGED <<at, on, lost>>
      BY <1>7 DEF Sent, Cancel, Receive, SendEmail, ReadMessage, SuggestTitle, RetryTransient,
                  Redeliver, workerUnchanged, Untitled
    <2>2. c # "upload" /\ c # "email"
      BY KindsAssumption
    <2>3. ASSUME NEW i \in JOBS, job[i].about = c PROVE job'[i].about = c
      <3>0. job \in [JOBS -> Job]
        BY <1>t DEF TypeOK
      <3>1. CASE Sent(j) \/ Cancel(j) \/ Receive(j) \/ SendEmail(j)
        BY <2>2, <2>3, <3>0, <3>1 DEF Sent, Queued, Cancel, Receive, SendEmail, Moved, Over, Job
      <3>2. CASE ReadMessage(j) \/ \E words \in 1 .. 2 : SuggestTitle(j, words)
        <4>1. ASSUME NEW where, NEW text PROVE Holding(j, where, text)[i].about = job[i].about
          BY <3>0 DEF Holding, Job
        <4> QED
          BY <2>3, <3>2, <4>1 DEF ReadMessage, SuggestTitle
      <3>3. CASE RetryTransient(j) \/ Redeliver(j)
        BY <2>3, <3>0, <3>3 DEF RetryTransient, Redeliver, Again, Requeued, Job
      <3> QED
        BY <1>7, <3>1, <3>2, <3>3
    <2> QED
      BY <1>0, <2>1, <2>3, KeepsCause
  <1>8. ASSUME NEW j \in JOBS, SendFails(j) \/ NoTitle(j) \/ GiveUp(j) PROVE Cause(c)'
    BY <1>0, <1>8, EndsNoted DEF SendFails, NoTitle, GiveUp, workerUnchanged, Untitled
  <1>9. ASSUME NEW j \in JOBS, NotNeeded(j) PROVE Cause(c)'
    <2>1. Untitled(c) /\ asked[c] # 0 /\ UNCHANGED <<at, on, lost>>
      BY <1>9 DEF NotNeeded, workerUnchanged, Untitled, Inv, Asked
    <2>2. job[j].about # c
      BY <1>t, <1>9, <2>1 DEF NotNeeded, Needed, Untitled, TypeOK
    <2>3. \A i \in JOBS : job[i].about = c => job'[i].about = c
      BY <1>9, <2>2 DEF NotNeeded, Over
    <2> QED
      BY <1>0, <2>1, <2>3, KeepsCause
  <1>10. ASSUME NEW j \in JOBS, WriteTitle(j) \/ CommitLost(j) PROVE Cause(c)'
    <2>0. title' = SetTitleIfUnset(job[j].about, job[j].text) /\ job[j].at = "writing"
      BY <1>10 DEF WriteTitle, CommitLost
    <2>1. Untitled(c) /\ UNCHANGED <<at, on, lost>>
      <3>1. UNCHANGED <<at, on, lost, conversation>>
        BY <1>10 DEF WriteTitle, CommitLost, workerUnchanged
      <3>2. title'[c] = NULL /\ conversation[c] = "stored"
        BY <3>1 DEF Untitled
      <3>3. title[c] = NULL
        BY <2>0, <3>2, Writes
      <3> QED
        BY <3>1, <3>2, <3>3 DEF Untitled
    <2>2. job[j].about # c
      <3>1. job[j].text # NULL
        BY <2>0 DEF Inv, FromFirst
      <3>2. SUFFICES ASSUME job[j].about = c PROVE FALSE
        OBVIOUS
      <3>3. title' = [title EXCEPT ![c] = job[j].text]
        BY <2>0, <2>1, <3>2 DEF SetTitleIfUnset, Writable, Untitled
      <3> QED
        BY <1>t, <3>1, <3>3 DEF Untitled, TypeOK
    <2>3. ASSUME NEW i \in JOBS, job[i].about = c PROVE job'[i].about = c
      <3>1. i # j /\ job \in [JOBS -> Job]
        BY <1>t, <2>2, <2>3 DEF TypeOK
      <3>2. CASE job' = Over({j})
        BY <2>3, <3>1, <3>2 DEF Over
      <3>3. CASE job' = Again(j)
        BY <2>3, <3>1, <3>3 DEF Again, Requeued
      <3> QED
        BY <1>10, <3>2, <3>3 DEF WriteTitle, CommitLost
    <2> QED
      BY <1>0, <2>1, <2>3, KeepsCause
  <1>11. CASE Mail
    BY <1>0, <1>11, FireCause DEF Mail, Untitled, Cause, Owes
  <1>12. CASE Publish
    <2>1. New \in JOBS /\ job[New].about = "nothing"
      BY <1>12, NewIsFree DEF Publish, Free, Inv, Idle
    <2>2. \A i \in JOBS : job[i].about = c => job'[i].about = c
      BY <1>12, <2>1, KindsAssumption DEF Publish
    <2> QED
      BY <1>0, <1>12, <2>2, KeepsCause DEF Publish, Untitled
  <1>13. CASE StartSend
    <2>1. \A i \in JOBS : job[i].about = c => job'[i].about = c
      BY <1>t, <1>13 DEF StartSend, Moved, TypeOK, Job
    <2> QED
      BY <1>0, <1>13, <2>1, KeepsCause DEF StartSend, Untitled
  <1>14. CASE Crash
    <2>1. PICK arrived \in SUBSET {j \in Sending : job[j].about # "upload"} :
            /\ job' = [j \in JOBS |-> IF j \in arrived THEN [job[j] EXCEPT !.at = "queued"]
                                       ELSE Over(InProcess)[j]]
            /\ lost' = [d \in CONVERSATIONS |->
                           \/ Loses(InProcess \ arrived)[d]
                           \/ \E r \in REQUESTS : Owes(r) /\ on[r] = d]
      BY <1>14 DEF Crash
    <2>2. Cause(c)
      BY <1>0, <1>14 DEF Crash, Untitled
    <2>3. CASE lost[c] \/ \E r \in REQUESTS : on[r] = c /\ Owes(r)
      BY <2>1, <2>3 DEF Loses, Cause
    <2>4. ASSUME NEW j \in JOBS, job[j].about = c PROVE Cause(c)'
      <3>1. CASE j \in InProcess \ arrived
        BY <2>1, <2>4, <3>1 DEF Loses, Cause
      <3>2. CASE j \in arrived
        BY <1>t, <2>1, <2>4, <3>2 DEF Cause, TypeOK, Job
      <3>3. CASE j \notin InProcess /\ j \notin arrived
        BY <2>1, <2>4, <3>3 DEF Cause, Over
      <3> QED
        BY <3>1, <3>2, <3>3
    <2> QED
      BY <2>2, <2>3, <2>4 DEF Cause
  <1>15. CASE UNCHANGED <<turnVars, title, job, lost>>
    BY <1>0, <1>15 DEF Cause, Owes, Untitled
  <1> QED
    BY <1>1, <1>2, <1>3, <1>u, <1>4, <1>5, <1>6, <1>7, <1>8, <1>9, <1>10, <1>11, <1>12, <1>13, <1>14,
       <1>15
    DEF Next, Goes, Publishing, Attempt, Discard, vars

\* An untitled conversation has a reason, whatever is dropped or lost.
THEOREM HasCause == Spec => []UntitledForCause
  <1>1. Init => UntitledForCause
    BY DEF Init, UntitledForCause, Untitled
  <1>2. Inv /\ UntitledForCause /\ [Next]_vars => UntitledForCause'
    BY CauseStep
  <1> QED
    BY <1>1, <1>2, InvHolds, PTL DEF Spec
=============================================================================
