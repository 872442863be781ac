------------------------------- MODULE Titles -------------------------------
(***************************************************************************)
(* How a conversation gets its title: a turn's commit (chat_service.py), the *)
(* API's fire-and-forget backlog and publisher threads (apps/api/enqueue.py), *)
(* the broker, and the worker's generate_title (apps/worker/tasks.py), which  *)
(* writes the title only while it is NULL.                                  *)
(*                                                                         *)
(* The backlog and the threads are those of one API process; emails and     *)
(* uploads share them.  A turn here is only what bears on titles: the claim *)
(* that keeps turns apart is in Turns.                                      *)
(***************************************************************************)
EXTENDS Integers, FiniteSets, Sequences

CONSTANTS
    CONVERSATIONS,
    REQUESTS,
    JOBS,             \* bound on the publishes and tasks that exist at once
    MAX_PENDING,
    ENQUEUE_THREADS,
    WORKERS,          \* attempts the workers run at once
    MAX_RETRIES,
    MaxFaults,        \* bounds on what goes wrong, and on emails and uploads
    MaxOthers

ASSUME LimitsAssumption ==
    {MAX_PENDING, ENQUEUE_THREADS, WORKERS, MAX_RETRIES, MaxFaults, MaxOthers} \subseteq Nat
ASSUME KindsAssumption == CONVERSATIONS \cap {"email", "upload", "nothing"} = {}

VARIABLES
    conversation,     \* "absent", "stored" or "deleted"
    asked,            \* how many user messages it holds, up to 2
    title,            \* its title, or NULL
    at,               \* where a request is
    on,               \* the conversation it is about
    pending,          \* _pending: fire-and-forget publishes in flight
    pool,             \* what waits for a publisher thread
    job,
    lost,             \* since its last reply a conversation lost a title task, or a
                      \* commit's acknowledgement and so was not queued
    faults,
    others

turnVars == <<conversation, asked, at, on>>
poolVars == <<pending, pool>>
bounds == <<faults, others>>
vars == <<turnVars, title, poolVars, job, lost, bounds>>

----------------------------------------------------------------------------
\* Jobs: one call of generate_title (or send_email, ingest_document), from its
\* hand-off to the end of its last attempt.

\* A title: the user message it was made from, and how the model worded it.
Title == [of : 0 .. 2, words : 0 .. 2]
NULL == [of |-> 0, words |-> 0]
Kinds == CONVERSATIONS \cup {"email", "upload"}
NoJob == [at |-> "none", about |-> "nothing", tries |-> 0, text |-> NULL]
Handed(about) == [at |-> "pool", about |-> about, tries |-> 0, text |-> NULL]

Moved(j, where) == [job EXCEPT ![j].at = where]
Over(js) == [j \in JOBS |-> IF j \in js THEN NoJob ELSE job[j]]
Running == {j \in JOBS : job[j].at \in {"received", "asking", "writing"}}
InProcess == {j \in JOBS : job[j].at \in {"pool", "sending"}}
Sending == {j \in JOBS : job[j].at = "sending"}

\* A job that does not exist yet; which one makes no difference.
Free == {j \in JOBS : job[j].at = "none" /\ j \notin pending}
New == CHOOSE j \in Free : TRUE

\* `js` end with no title: the conversations they were for have lost a task.
Loses(js) == [c \in CONVERSATIONS |-> lost[c] \/ \E j \in js : job[j].about = c]
Fault == faults < MaxFaults /\ faults' = faults + 1 /\ UNCHANGED others

Init ==
    /\ conversation = [c \in CONVERSATIONS |-> "absent"]
    /\ asked = [c \in CONVERSATIONS |-> 0]
    /\ title = [c \in CONVERSATIONS |-> NULL]
    /\ at = [r \in REQUESTS |-> "idle"]
    /\ on \in [REQUESTS -> CONVERSATIONS]
    /\ pending = {} /\ pool = <<>>
    /\ job = [j \in JOBS |-> NoJob]
    /\ lost = [c \in CONVERSATIONS |-> FALSE]
    /\ faults = 0 /\ others = 0

----------------------------------------------------------------------------
\* enqueue.py.

Full == Cardinality(pending) >= MAX_PENDING

\* fire_and_forget: dropped when the backlog is full, and the request goes on.
FireAndForget(about) ==
    \/ /\ Full
       /\ lost' = [c \in CONVERSATIONS |-> lost[c] \/ c = about]
       /\ UNCHANGED <<poolVars, job>>
    \/ /\ ~Full /\ Free # {}
       /\ pending' = pending \cup {New}
       /\ pool' = Append(pool, New)
       /\ job' = [job EXCEPT ![New] = Handed(about)]
       /\ UNCHANGED lost

\* _mail: an email shares the backlog.
Mail ==
    /\ others < MaxOthers
    /\ others' = others + 1
    /\ FireAndForget("email")
    /\ UNCHANGED <<turnVars, title, faults>>

\* publish, awaited by an upload: it waits for a thread without a limit, and
\* leaves the queue when its request is cancelled.
Publish ==
    /\ others < MaxOthers /\ Free # {}
    /\ others' = others + 1
    /\ pool' = Append(pool, New)
    /\ job' = [job EXCEPT ![New] = Handed("upload")]
    /\ UNCHANGED <<turnVars, title, pending, lost, faults>>

Cancel(j) ==
    /\ job[j].at = "pool" /\ job[j].about = "upload"
    /\ \E i \in DOMAIN pool :
         pool[i] = j /\ pool' = SubSeq(pool, 1, i - 1) \o SubSeq(pool, i + 1, Len(pool))
    /\ job' = Over({j})
    /\ UNCHANGED <<turnVars, title, pending, lost, bounds>>

StartSend ==
    /\ pool # <<>> /\ Cardinality(Sending) < ENQUEUE_THREADS
    /\ job' = Moved(Head(pool), "sending")
    /\ pool' = Tail(pool)
    /\ UNCHANGED <<turnVars, title, pending, lost, bounds>>

\* Uploads go to a queue of their own (Ingest).
Queued(j) == IF job[j].about = "upload" THEN Over({j}) ELSE Moved(j, "queued")

\* apply_async returns; or it raises, whether or not the broker has the message
\* (to the backlog a raise after the broker took it is no different).
Sent(j) ==
    /\ job[j].at = "sending"
    /\ job' = Queued(j)
    /\ UNCHANGED <<turnVars, title, poolVars, lost, bounds>>

SendFails(j) ==
    /\ job[j].at = "sending"
    /\ Fault
    /\ job' = Over({j})
    /\ lost' = Loses({j})
    /\ UNCHANGED <<turnVars, title, poolVars>>

\* The publish is over: the done callback removes it from the backlog.
PublishEndedWell(j) == job[j].at \notin {"pool", "sending", "none"}
PublishEnded(j) == job[j].at \notin {"pool", "sending"}

Discard(j) ==
    /\ j \in pending /\ PublishEnded(j)
    /\ pending' = pending \ {j}
    /\ UNCHANGED <<turnVars, title, pool, job, lost, bounds>>

----------------------------------------------------------------------------
\* chat_service.py: the turns' commits, each followed by what it owes.

Claimed(c) == \E r \in REQUESTS : on[r] = c /\ at[r] \in {"creating", "created", "answering"}

\* persist_user_turn.
BeginFirst(r, c) ==
    /\ at[r] = "idle" /\ conversation[c] = "absent" /\ ~Claimed(c)
    /\ at' = [at EXCEPT ![r] = "creating"]
    /\ on' = [on EXCEPT ![r] = c]
    /\ UNCHANGED <<conversation, asked, title, poolVars, job, lost, bounds>>

StoresFirst(r) ==
    /\ at[r] = "creating"
    /\ conversation' = [conversation EXCEPT ![on[r]] = "stored"]
    /\ asked' = [asked EXCEPT ![on[r]] = 1]

CommitFirst(r) ==
    /\ StoresFirst(r)
    /\ at' = [at EXCEPT ![r] = "created"]
    /\ UNCHANGED <<on, title, poolVars, job, lost, bounds>>

\* The COMMIT is done and raises, its acknowledgement lost or its request
\* cancelled: the request ends before it queues anything.
Unqueued(r) ==
    /\ Fault
    /\ at' = [at EXCEPT ![r] = "idle"]
    /\ lost' = [lost EXCEPT ![on[r]] = TRUE]
    /\ UNCHANGED <<on, title, poolVars, job>>

FirstUnacknowledged(r) == StoresFirst(r) /\ Unqueued(r)

Ask(r, c) ==
    /\ at[r] = "idle" /\ conversation[c] = "stored" /\ ~Claimed(c)
    /\ at' = [at EXCEPT ![r] = "answering"]
    /\ on' = [on EXCEPT ![r] = c]
    /\ asked' = [asked EXCEPT ![c] = 2]
    /\ UNCHANGED <<conversation, title, poolVars, job, lost, bounds>>

\* persist_assistant_turn: a reply with content is stored, and an untitled
\* conversation is owed a task.
Untitled(c) == conversation[c] = "stored" /\ title[c] = NULL

SaveReply(r) ==
    /\ at[r] = "answering" /\ conversation[on[r]] = "stored"
    /\ at' = [at EXCEPT ![r] = IF Untitled(on[r]) THEN "untitled" ELSE "idle"]
    /\ lost' = [lost EXCEPT ![on[r]] = FALSE]
    /\ UNCHANGED <<conversation, asked, on, title, poolVars, job, bounds>>

\* Saved, and the COMMIT raises: the turn takes the save for failed, and what it
\* read of the title is gone.  (With a title, that is a SaveReply here.)
SaveUnacknowledged(r) ==
    /\ at[r] = "answering" /\ Untitled(on[r])
    /\ Unqueued(r)
    /\ UNCHANGED <<conversation, asked>>

\* The turn stores nothing: it failed, was stopped before any text, or its
\* conversation is gone.  Nothing is queued.
NothingSaved(r) ==
    /\ at[r] = "answering"
    /\ conversation[on[r]] = "deleted" \/ faults < MaxFaults
    /\ faults' = IF conversation[on[r]] = "deleted" THEN faults ELSE faults + 1
    /\ at' = [at EXCEPT ![r] = "idle"]
    /\ UNCHANGED <<conversation, asked, on, title, poolVars, job, lost, others>>

\* _enqueue_title, past the commit.
OwesEarly(r) == at[r] \in {"creating", "untitled"}
Owes(r) == at[r] \in {"created", "untitled"}

EnqueueTitle(r) ==
    /\ Owes(r)
    /\ FireAndForget(on[r])
    /\ at' = [at EXCEPT ![r] = IF at[r] = "untitled" THEN "idle" ELSE "answering"]
    /\ UNCHANGED <<conversation, asked, on, title, bounds>>

DeleteConversation(c) ==
    /\ conversation[c] = "stored"
    /\ conversation' = [conversation EXCEPT ![c] = "deleted"]
    /\ UNCHANGED <<asked, title, at, on, poolVars, job, lost, bounds>>

\* The API process dies: its requests, its backlog and its threads go; a
\* message on its way may have reached the broker.
Crash ==
    /\ Fault
    /\ at' = [r \in REQUESTS |-> "idle"]
    /\ pending' = {} /\ pool' = <<>>
    /\ \E arrived \in SUBSET {j \in Sending : job[j].about # "upload"} :
         /\ job' = [j \in JOBS |-> IF j \in arrived THEN [job[j] EXCEPT !.at = "queued"]
                                    ELSE Over(InProcess)[j]]
         /\ lost' = [c \in CONVERSATIONS |->
                        \/ Loses(InProcess \ arrived)[c]
                        \/ \E r \in REQUESTS : Owes(r) /\ on[r] = c]
    /\ UNCHANGED <<conversation, asked, on, title>>

----------------------------------------------------------------------------
\* apps/worker/tasks.py.

workerUnchanged == UNCHANGED <<turnVars, poolVars>>
ofTitle(j) == job[j].about \in CONVERSATIONS

Receive(j) ==
    /\ job[j].at = "queued" /\ Cardinality(Running) < WORKERS
    /\ job' = Moved(j, "received")
    /\ workerUnchanged /\ UNCHANGED <<title, lost, bounds>>

SendEmail(j) ==
    /\ job[j].at = "received" /\ job[j].about = "email"
    /\ job' = Over({j})
    /\ workerUnchanged /\ UNCHANGED <<title, lost, bounds>>

\* first_user_message.
FirstUserMessage(c) == IF asked[c] = 0 THEN 0 ELSE 1

Holding(j, where, text) == [job EXCEPT ![j] = [@ EXCEPT !.at = where, !.text = text]]

\* generate_title_async, its first session: nothing to do, or the text.
Needed(c) == conversation[c] = "stored" /\ title[c] = NULL /\ asked[c] > 0

NotNeeded(j) ==
    /\ job[j].at = "received" /\ ofTitle(j) /\ ~Needed(job[j].about)
    /\ job' = Over({j})
    /\ workerUnchanged /\ UNCHANGED <<title, lost, bounds>>

ReadMessage(j) ==
    /\ job[j].at = "received" /\ ofTitle(j) /\ Needed(job[j].about)
    /\ job' = Holding(j, "asking", [of |-> FirstUserMessage(job[j].about), words |-> 0])
    /\ workerUnchanged /\ UNCHANGED <<title, lost, bounds>>

\* suggest_title: a title, never the same twice; or none (a refusal, a reply
\* cut off, nothing left of it).
SuggestTitle(j, words) ==
    /\ job[j].at = "asking"
    /\ job' = Holding(j, "writing", [of |-> job[j].text.of, words |-> words])
    /\ workerUnchanged /\ UNCHANGED <<title, lost, bounds>>

NoTitle(j) ==
    /\ job[j].at = "asking"
    /\ Fault
    /\ job' = Over({j})
    /\ lost' = Loses({j})
    /\ workerUnchanged /\ UNCHANGED title

\* set_title_if_unset: the WHERE clause, and the title after the UPDATE.
WritableOwned(c) == conversation[c] = "stored"
Writable(c) == conversation[c] = "stored" /\ title[c] = NULL
SetTitleIfUnset(c, text) == IF Writable(c) THEN [title EXCEPT ![c] = text] ELSE title

WriteTitle(j) ==
    /\ job[j].at = "writing"
    /\ title' = SetTitleIfUnset(job[j].about, job[j].text)
    /\ job' = Over({j})
    /\ workerUnchanged /\ UNCHANGED <<lost, bounds>>

\* An attempt raises: a transient error is retried MAX_RETRIES times, then given
\* up quietly; any other (a 4xx, the soft time limit) is given up at once.
RetriesOnceMore(j) == job[j].tries <= MAX_RETRIES
Retries(j) == job[j].tries < MAX_RETRIES
Requeued(j, tries) ==
    [job EXCEPT ![j] = [at |-> "queued", about |-> job[j].about, tries |-> tries, text |-> NULL]]
Again(j) == Requeued(j, job[j].tries + 1)

RetryTransient(j) ==
    /\ j \in Running /\ Retries(j)
    /\ Fault
    /\ job' = Again(j)
    /\ workerUnchanged /\ UNCHANGED <<title, lost>>

GiveUp(j) ==
    /\ j \in Running
    /\ Fault
    /\ job' = Over({j})
    /\ lost' = Loses({j})
    /\ workerUnchanged /\ UNCHANGED title

\* The write's COMMIT is done and its acknowledgement lost: a transient error.
CommitLost(j) ==
    /\ job[j].at = "writing"
    /\ Fault
    /\ title' = SetTitleIfUnset(job[j].about, job[j].text)
    /\ job' = IF Retries(j) THEN Again(j) ELSE Over({j})
    /\ workerUnchanged /\ UNCHANGED lost

\* The child dies: its message is acknowledged (the same to a title as giving
\* up).  The whole worker dies: the broker hands the message out again.
Redeliver(j) ==
    /\ j \in Running
    /\ Fault
    /\ job' = Requeued(j, job[j].tries)
    /\ workerUnchanged /\ UNCHANGED <<title, lost>>

----------------------------------------------------------------------------
Publishing(j) == Sent(j) \/ SendFails(j)
Attempt(j) == SendEmail(j) \/ NotNeeded(j) \/ ReadMessage(j) \/ (\E words \in 1 .. 2 : SuggestTitle(j, words)) \/ WriteTitle(j)
Goes(r) == CommitFirst(r) \/ EnqueueTitle(r)

Next ==
    \/ \E r \in REQUESTS, c \in CONVERSATIONS : BeginFirst(r, c) \/ Ask(r, c)
    \/ \E r \in REQUESTS : Goes(r) \/ SaveReply(r) \/ NothingSaved(r)
    \/ \E r \in REQUESTS : FirstUnacknowledged(r) \/ SaveUnacknowledged(r)
    \/ \E c \in CONVERSATIONS : DeleteConversation(c)
    \/ \E j \in JOBS : Publishing(j) \/ Discard(j) \/ Cancel(j)
    \/ \E j \in JOBS : Receive(j) \/ Attempt(j) \/ NoTitle(j)
    \/ \E j \in JOBS : RetryTransient(j) \/ GiveUp(j) \/ CommitLost(j) \/ Redeliver(j)
    \/ Mail \/ Publish \/ StartSend \/ Crash

\* The event loop runs requests past a commit and done callbacks; a publish ends
\* (the broker's connect timeout); an attempt ends (its time limits), and the
\* worker takes the messages there are.
Fairness ==
    /\ \A r \in REQUESTS : WF_vars(Goes(r))
    /\ WF_vars(StartSend)
    /\ \A j \in JOBS :
         /\ WF_vars(Publishing(j)) /\ WF_vars(Discard(j))
         /\ SF_vars(Receive(j)) /\ WF_vars(Attempt(j))

Spec == Init /\ [][Next]_vars
FairSpec == Spec /\ Fairness

----------------------------------------------------------------------------
JobStates == {"none", "pool", "sending", "queued", "received", "asking", "writing"}
Job == [at : JobStates, about : Kinds \cup {"nothing"}, tries : 0 .. MAX_RETRIES, text : Title]

\* The types; the backlog and the retries within their limits, and nothing
\* about a conversation before it is committed.
TypeOK ==
    /\ conversation \in [CONVERSATIONS -> {"absent", "stored", "deleted"}]
    /\ asked \in [CONVERSATIONS -> 0 .. 2]
    /\ title \in [CONVERSATIONS -> Title]
    /\ at \in [REQUESTS -> {"idle", "creating", "created", "answering", "untitled"}]
    /\ on \in [REQUESTS -> CONVERSATIONS]
    /\ pending \subseteq JOBS /\ Cardinality(pending) <= MAX_PENDING
    /\ pool \in Seq(JOBS)
    /\ job \in [JOBS -> Job]
    /\ lost \in [CONVERSATIONS -> BOOLEAN]
    /\ faults \in 0 .. MaxFaults /\ others \in 0 .. MaxOthers

\* First writer wins, whatever is redelivered or queued twice: a title is set
\* once, never changed, and made from the conversation's first user message,
\* whichever turn's task makes it (set_title_if_unset, first_user_message).
TitleSetOnce ==
    [][\A c \in CONVERSATIONS :
         title'[c] # title[c] =>
             title[c] = NULL /\ title'[c].of = 1 /\ conversation[c] = "stored"]_vars

\* An untitled conversation has a reason: its task is owed or under way, or, after
\* the last reply whose save was acknowledged, a task was lost, or the
\* acknowledgement of a commit that should have queued one.  The next saved reply
\* queues another (publish only AFTER the commit, enqueue.py; the re-enqueue,
\* chat_service.py).
UntitledForCause ==
    \A c \in CONVERSATIONS : Untitled(c) =>
        \/ lost[c]
        \/ \E r \in REQUESTS : on[r] = c /\ Owes(r)
        \/ \E j \in JOBS : job[j].about = c

\* A conversation whose replies go on being saved, and acknowledged, gets its title
\* or is deleted, however many of its tasks were dropped, lost or never queued.
SavesReply(c) == \E r \in REQUESTS : on[r] = c /\ SaveReply(r)
TitleArrives ==
    \A c \in CONVERSATIONS :
        []<><<SavesReply(c)>>_vars => <>(title[c] # NULL \/ conversation[c] = "deleted")
=============================================================================
