# hax, verified in part

hax is a chat application: a FastAPI service (`apps/api`), a Celery worker
(`apps/worker`), a Next.js client (`apps/web`), PostgreSQL, Redis (broker, rate
limits, revocation cache) and an object store. This directory holds TLA+ models
of the parts where processes, transactions and lost answers meet, the TLC runs
that check them and the TLAPS proofs about them.

## 1. Inventory

| Component | State it keeps | Operations | What is hard about it |
|---|---|---|---|
| **Chat turns** `apps/api/chat_service.py`, `turns.py`, `routers/chat.py`, `routers/conversations.py`, `packages/db/repos/conversations.py` | conversation row with its claim `streaming_since`; messages with `created_at`; per process the task of each running turn, its claim token, buffer, heartbeat and the registry `_by_conversation` | send, retry (with or without replacing a reply), stream, refresh, save, release, stop, delete, drain | a claim is a lease that lapses; its value moves; the task outlives its request; every transaction may fail, or commit and lose its answer; message order is the order transactions *start* in |
| **Documents** `routers/documents.py`, `packages/core/rag/ingest.py`, `worker/tasks.py`, `repos/documents.py`, `core/storage.py` | row status, deadline clock, stored object, chunks; the broker's messages with their retry counts | upload, claim, fetch, store, fail, retry, deadline on read, delete | at-least-once delivery, attempts side by side, children killed mid-task, two stores without a common transaction |
| **Enqueue** `apps/api/enqueue.py` | the pending set, a thread pool | `publish`, `fire_and_forget` | a failed publish may have reached the broker; a bounded backlog |
| **Session revocation** `core/auth/revocation.py`, `apps/api/auth.py` | `users.sessions_valid_after`, a Redis cache with TTL | publish a cutoff, check a session, purge | cache writes out of order, fills racing publishes and the purge, a Redis that refuses writes and still serves reads |
| **Accounts and email links** `routers/auth.py`, `repos/users.py`, `repos/email_tokens.py` | user rows, token rows | sign up, resend, verify, request and confirm a reset | overlapping READ COMMITTED transactions, lock order, the lost unique-index race |
| **Internal sign-in** `routers/internal_auth.py`, `repos/accounts.py` | account links, user rows | check credentials, OAuth upsert, demo visitor | a row read early and written late |
| **Rate limits, demo cap** `core/auth/rate_limit.py`, `apps/api/demo.py` | Redis counters with TTL | hit, clear | two-step writes, expiry between them |
| **Sweeps** `worker/tasks.py` | none of its own | delete stale visitors and dead tokens, batch by batch | runs beside live requests; the cache purge follows the commit; the demo counter must outlive the row |
| **Titles** `apps/api/chat_service.py`, `enqueue.py`, `worker/tasks.py`, `core/titles.py`, `repos/conversations.py` | `conversations.title`, the backlog and publisher threads, the broker's messages | enqueue after the commit, generate, write if unset | at-least-once tasks beside each other; a message may be dropped, lost or given up in silence, and only a later reply sends another |
| **Agent harness** `core/agent/harness.py`, `tools.py` | one reply's prompt, the text of the current call, the iteration | model calls, tool calls, retract, fallback | task and page apply its events to texts of their own; what a retract removes must be what was streamed; the iteration cap; every tool call needs its result |
| **Web chat client** `web/hooks/useChat.ts`, `lib/chatApi.ts` | thread, stream, one poll, refs | send, retry, stop, load, poll | responses that never come, polls that outlive what they watch |
| **Evals** `src/evals` | case file, baseline, one run's cases | run a case, judge it, score it, report, move the baseline | a judge that contradicts itself or sends no verdict, faults of the stack that look like the model's, cases edited between runs |
| **Operations** `scripts/with-lock.sh`, `infra/deploy/deploy.sh` | a lock directory, two releases | acquire, steal, release, promote, roll back | stale locks, a partial deploy |
| Web sign-in, watchdog, row-level security, text pipeline, profile, email, passwords, schemas, migrations, Terraform, UI | see `PROJECT.json` | | no concurrent protocol of their own; reasons are in `PROJECT.json` |

How they interact: a send's route claims the conversation and stores the
question in one transaction, loads the history and hands the claim to a turn
task, which runs the harness and whose queue the response reads; the web client
polls the conversation when it loses the stream. An upload commits its row and
publishes a message; the worker's attempts write the row; the owner's list
applies the deadline. Password resets, sign-ups over a pending address and OAuth
claims move a user's cutoff and publish it to Redis, where every request reads
it; the sweep deletes visitors and purges their entries.

## 2. Plan

Done:

1. **Turns**: `Conversations` (the repository's statements), `Turns` (requests,
   tasks, processes), `ReplyContract` (what they promise), proofs of the safety
   properties and of the refinement.
2. **Ingest**: one document's life, with proofs.
3. **Accounts**: users and email links under READ COMMITTED, row locks and the
   unique index, with proofs.
4. **Sessions** over **RateLimit**: the cutoff, its cache, publishers, readers, a
   visitor's turns and the sweep, with proofs.
5. **ReplyStream**: the events of a reply from the tool loop to the page, with
   proofs.
6. **Titles**: the enqueue backlog and the title tasks, with proofs.
7. **Evals**: a run from the case file to the exit code, with proofs.
8. **ChatClient**: one page of `useChat` beside the server, another tab and a lossy
   network; its server implements `ReplyContract`, as `Turns` does. With proofs.

Left, in order:

9. **Composition** of `Turns` and `ReplyStream`: `ReplyStream`'s `Finish` as the
   save of `Turns`, so that the page's marker and the claim meet in one model.
10. **ClaimLease**: the heartbeat and the window as clocks, to justify by times
   (30 s, 2 min) the assumption that a scheduled heartbeat keeps its claim.
11. **WithLock**: `scripts/with-lock.sh`.

## 3. The modules

### Conversations, Turns, ReplyContract

`Conversations` is one conversation: `since` is `streaming_since` (0 for NULL),
`claimant` is a history variable naming whose claim it is, `messages` carry their
`created_at` (`at`). Its operators are the statements of
`repos/conversations.py`: `Claimable`/`ClaimTurn` (`claim_turn`'s WHERE and
values), `Holds`/`ReleaseTurn` (`release_turn`, `refresh_turn`), `AddMessage`,
`EndsWith`/`ReplyAfter` (how `claim_for_retry` reads `last_messages`),
`DeleteOwned`.

Time: PostgreSQL's `now()` is a transaction's start, and both the claim and
`created_at` take it. So `now` counts transaction starts; opening one
(`Opens`) takes a fresh stamp, its commit happens later, and in between other
transactions start and commit. `LapseTick` is a start so late that the claim in
the row has aged past `TURN_WINDOW`: a claim whose turn is dead or does not know
its value may lapse at any time; a live turn's claim lapses only with the fault
`"stall"` (the process makes no progress for the whole window). Starts of one
conversation's transactions are taken to be distinct microseconds. SQL statements
of one transaction after its first lock are one step with its commit: the row
lock the claim's UPDATE takes keeps the other writers of this row out until then.

`Turns` follows each request through `pc`: `Begin`, `PersistUserTurn` /
`ClaimForRetry` / `Refuse` (the route's transaction), `StartTurn` / `StartFails`
(`start_reply`), `StartStream`, `Write`, `StreamEnds`, `StreamCut` (`Turn._run`),
`BeginRefresh`, `Refresh` (`_heartbeat`, `_refresh`), `BeginSave`, `BeginDrop`,
`PersistAssistantTurn`, `SaveFails`, `ReleaseClaim` (`_finish`), `Settle` (the
marker and the done callback); `StopReply`, `DeleteConversation`, `DrainTurns`,
`Crash`. `StartFails` needs no fault: `chat.py:124-128` catches a failing
`load_history` and the cancellation of the request alike, so the release there is
checked where the database works. A cancellation that hides the claim's own COMMIT
is a lost acknowledgement and counts as a database fault. The buffer is reduced to `written`: does it hold text worth storing.
`Write` toggles it because a retract may leave only blank text. `"db"` in
`Faults` lets every transaction roll back with an error, and lets every commit
succeed with its answer lost; `"crash"` lets a process die between any two steps.

`ReplyContract` is the promise without transactions, tasks or time: one holder;
only the holder answers, a stored and unanswered question, and answering frees
the conversation in the same step. `Turns!KeepsContract` instantiates it with
`open <- conv, holder <- claimant, thread <- messages` without their stamps.

### Accounts

One email address and the requests about it: sign-up, resend, verify, request a
reset, reset, and a provider sign-in. Each request is one READ COMMITTED
transaction (two, when an `IntegrityError` makes it run again), and each action
is one statement of it:

| Actions | Code |
|---|---|
| `Begin`, `GetValid`, `GetUserByAccount`, `GetUser` | the reads, and the refusals they lead to |
| `VoidUnused`, then `LockLinks` or `Consume` | the UPDATE of `void_unused`: its snapshot, then the rows it locks and rechecks. `Consume` also answers whether the confirm won |
| `ReplacePendingPassword`, `InsertUser`, `LinkAccount`, `Flush` | the writes of the users and accounts rows |
| `Commit`, `Abort`, `IntegrityError` | how the transaction ends |
| `Expire`, `DeleteDead` | the clock and the sweep |

`user` and `link` are what is committed; `writes` and `locked` are what a
transaction has written and locked and nobody else sees. A statement that needs
a row another transaction has written waits (`WaitsFor`) until that one ends.
An UPDATE that waited rechecks its condition on the newest row, and keeps the
lock it took on a row that no longer satisfies it; a link inserted
after its snapshot is not in its reach at all. It takes the locks on all its link
rows in one step: two UPDATEs that lock the same links row by row, in different
orders, are not covered by `NoDeadlock`. `saw` is the ORM's copy of the row,
and `Flush` writes by primary key the attributes the route changed in that copy:
this is where a decision can be older than the row it is applied to. The order of
one flush is SQLAlchemy's: mappers without a relationship between them go by class
name, so the `accounts` row is inserted before the `users` row is updated.

A link and a password carry the name of the request that made them, since a
request makes at most one of each. Names, mails, rate limits, and the session
cutoffs that ride along with a password are left out; so is the lock of a
`replace_pending_password` that changes nothing, whose transaction has only its
commit left. One provider identity is modelled.

### Ingest

One document: `upload` follows `upload_document`, `at[d]` follows each delivery
of its message through `ingest_document` / `ingest_document_async`, `deletion`
follows `delete_document`. `status` and `chunks` are the database, `object` the
store. `overdue` abstracts the two deadlines (`STUCK_AFTER`, `QUEUED_AFTER`): it
becomes true at any time while the row is in flight, and a write that restarts
`updated_at` clears it. `saw[d]` holds the chunk sets an attempt's DELETE saw, for
the DELETE takes its snapshot before the attempt waits for the row lock.
Extraction, splitting and embedding either succeed or raise: `GiveUp`
(permanent error, soft time limit), `RetryTransient` (anything else). Faults are
`"storage"`, `"db"` (an error, or a commit whose answer is lost), `"broker"` (a
publish that fails, before or after the broker took the message, or a retry's
lost message) and `"crash"` (the API process, a worker's child, a redelivery).

### RateLimit, Sessions

`RateLimit` is what each Redis command of `hit` does to one counter: `Incr`,
`Expire`, `LacksTtl`. `Sessions` is one user, a member or a demo visitor, with
the row's cutoff in `user`, the key `sva:{user_id}` in `cache`, and time in
`now`:

| Actions | Code |
|---|---|
| `TakeCutoff`, `Commit`, `CommitFails` | the three routes that move a cutoff: the application takes the time, the transaction writes it |
| `PublishSva`, `SetFails`, `DropCached`, `PublishLost` | `publish_sva`, its SET, the DEL when the SET raises, and neither |
| `Begin`, `GetHit`, `GetMiss`, `FetchSva`, `Fill`, `End` | `current_user` and `session_revoked`, one await each |
| `IncrTurns`, `TtlTurns`, `ExpireTurns`, `HitFailsOpen`, `PersistTurn` | `enforce_turn_cap` and the turn it lets through |
| `Sweep`, `PurgeRevocationCache`, `PurgeLost` | `sweep_anonymous_users_async` |

Times are those of the application's clock, in the seconds the cutoff is stored
in. A session is the second of its login; a visitor's only login creates its row,
so its session is 0. Cutoffs can move backwards in the row, because overlapping
transactions may commit in the other order than they took the time: the comment
of `revocation.py:76-77` ("cutoffs only move forward") holds of time taken, not of
commits, and `PublishIsInstant` is stated for publishers that have all published.
`peak`, `changed` and `sent` are history.

`DELAY` bounds a step that is between the database and Redis. A Redis command
ends within the client's timeouts (1 s to connect, 2 s to answer), a statement
within `statement_timeout` (30 s), and the death of a process ends its steps; the
TTL is 300 s, so `DELAY < TTL`. The sweep runs once a day (the beat's 04:00)
and is assumed to have run before that hour is over. The margin of
`_turn_window_s` is one day beyond that: a sweep missed for more than a day would
let the counter end before the row does. "A swept visitor's live token must read as revoked
at once" (`worker/tasks.py:277-279`) holds unless the purge is lost or a check's
fill lands after it; then `DELAY + TTL` bounds it, as it bounds everything else.

### ReplyStream

One reply: the loop of `stream_completion_agentic`, the turn's `consume` that
keeps its text and sources, the SSE queue, and the page. A step is what runs
between two awaits, so the separator and the delta it leads are one step, and so
are a retract, the grown prompt and the status of the first tool.

| Actions | Code |
|---|---|
| `Start`, `Delta`, `Answer`, `AsksTools` | one model call: its deltas, its end, its tool calls |
| `ToolReturns`, `ToolFails` | `_run_tool` and the step to the next call, or to the fallback without tools |
| `Stop`, `StreamFails` | a Stop cancels the consumer; the model raises, the deadline or a drain cancels the task |
| `Finish` | the save or the release, and the marker |
| `PageReads`, `PageLoses` | `readReplyStream` and what `useChat` makes of each event; a lost connection |

Text is a sequence of deltas and separators, where a delta may be empty; a
retract removes a suffix, if it is one (`Withdrawn`, on both sides). A source is
a passage and a distance, since one passage may be found twice. The prompt is
kept as the ids of the tool calls and results in each message, from the
question on (what `load_history` merges before it is left out). A save may lose its
COMMIT's acknowledgement.

### Titles

One API process's `fire_and_forget` backlog and publisher threads, the broker,
and the workers' attempts. `BeginFirst`, `CommitFirst`, `Ask`, `SaveReply` and
`NothingSaved` are the commits of `chat_service.py` that bear on a title;
`EnqueueTitle` is what they owe after the commit. `FirstUnacknowledged` and
`SaveUnacknowledged` are the same commits done and raising: the question or the reply is
stored and the enqueue is skipped. `FireAndForget`, `StartSend`,
`Sent`, `SendFails` and `Discard` are `enqueue.py`; `Mail` and `Publish` (with
`Cancel`, a request cancelled while it waits for a thread) are the emails and
uploads that share its threads. `Receive` to `Redeliver` are the worker's attempts:
`generate_title_async`'s read, call and conditional write are steps of their own,
and `CommitLost`, `RetryTransient`, `GiveUp` and `Redeliver` are how they go
wrong. Production runs one fast worker with concurrency 1; two attempts of one
title overlap there while a deployment replaces the worker, and wherever there are
more workers, hence `WORKERS`. `lost` is history: since its last saved and
acknowledged reply this conversation lost a task, or an acknowledgement and with it
the enqueue.

### Evals

A run of `evals/run.py` follows `phase`; each case follows `at` through
`run_case`. `Admit` is the semaphore; `Answer` is the agent's answer, with what
its searches reported; `Grade`, `Unusable` and `JudgeFails` are the judge's reply
as `check_verdict` and `grade` take it; `Score` the retrieval score and the
outcome; `Raises` an exception of any of these. `Report` compares with the
baseline and ends the run; `Maintain` is what happens between runs: the case
file may be edited, and the baseline moved to the last report or left unreadable. A
judge's reply is a list of entries, each for an index, with a verdict that is yes,
no, yes without a reason, or no verdict at all. A case's line stands for its hash.
The file is read once per run, so it changes between runs only.

### ChatClient

One page of `useChat` on one conversation. A step of the page is what runs between
two awaits; `page` is the hook's state and refs, `run` the locals of `runTurn`, `poll`
what `pollRef` watches. The server is short here: a request is refused or accepted
in one step, a turn saves its reply or frees the conversation in one step, and a read
is two steps, as `get_owned_detail` is two statements. `ServerKeepsContract` says
that this server allows no more than `ReplyContract`, which `Turns` implements.

| Actions | Code |
|---|---|
| `Send`, `Retry` | `send`, `retry` and `runTurn` up to its request |
| `Prelude`, `SendDone`, `RetryDone`, `Reread` | `onConversationId`, `[DONE]`, and the re-read after a retry's |
| `ReplyFailed`, `ConnectionLost`, `NetworkFails`, `Limited`, `SendRefused`, `RetryRefused`, `Refetch`, `Refetched` | the branches of `runTurn`'s `catch` |
| `LoadLands`, `LoadFails` | the history effect |
| `PollTick`, `PollLands`, `PollFails`, `PollCap` | `startPolling` with the settling of `settleFree`, `pollForOutcome` or `pollForRetry` |
| `Stop`, `Stopped`, `StopFails`, `StopRefused` | `stop` and what its request comes to |
| `Accept`, `Refuse`, `SaveReply`, `DropReply`, `StopReply`, `GetOwnedDetail`, `Delete` | the routes |
| `LoseRequest`, `LoseStop`, `OtherSends`, `OtherRetries` | the network and another tab |

A message is its role, the question it belongs to and the turn that stored it;
`local` tells the object this page made from the one a read brings, since the code
removes by identity. An answer of the server that is lost is a `NetworkFails` or a
`ConnectionLost` after the server acted. What has streamed so far is `ReplyStream`'s.

`Faults` names what the surroundings may do. `"slow"` lets a request reach the server
after the page gave up on it, but before the second of the two re-reads that decide.
A stop that outlives its ten seconds is dropped: it can do no more than cut a turn, and
any turn may be cut at any time. Two histories say when the page acted without what it
had asked for: `turns.late` holds its turns whose request was still under way when it gave
up on them, `turns.blind` says that it asked before its history was there, or gave up on
a poll. It may call a turn interrupted or show a thread wrongly then, so
`InterruptedIsTrue` and `AloneShowsServer` say nothing of such a page, and
`StopHitsItsTurn` excepts the late turns themselves. It has to: a retry given up on
can be accepted late, when the other tab has meanwhile removed the reply that would have
refused it, and a later retry of this page has settled on a read while its
stop is still under way. That stop then cuts the late turn. It takes four turns, two more
than the run has; the proof is what found it.

## 4. The runs

Type correctness takes no run in a module with proofs, where it is a theorem, except in
`client`, whose `TypeOK` also says who owns the page's busy state.

| Run | Instance | Question and answer |
|---|---|---|
| `turns_faults` | 2 requests, 2 messages, 2 processes, 2 refreshes, all faults | Does a claim's value identify its turn (`ClaimIsOwn`)? Has a question at most one reply, ordered after it, also when a turn is taken over? Does a drained turn store nothing, a finished one hold nothing, and Stop keep reaching a running one? Do turns implement `ReplyContract`? Yes. |
| `turns_live` | 2 requests, 1 refresh, crashes and stalls | Every request ends; without database faults no ending leaves the conversation claimed, nor does a `start_reply` that fails or is cancelled. Yes. |
| `turns_order` | 2 requests, no faults | `load_history`'s comment that the question lands last. No: see below. |
| `ingest` | 3 deliveries, 2 retries each, all faults | One chunk set, bytes before row, `failed` is final, workers never fail a ready document, and a document its owner keeps listing settles. Yes. |
| `accounts` | 4 requests, 1 error or lost commit | Is a link spent once, are all links a commit saw dead, can a pending password always be verified, does a verified account keep its password from sign-ups, does one re-run settle a lost sign-up, and can the requests never wait in a circle? Yes. |
| `accounts_claim` | 3 requests | "a password on a never-verified row was set by an unproven party ... so the proven owner's claim clears it". The claim can clear a verified account's password. |
| `ingest_publish` | 2 deliveries, `"broker"` | "'ready' and 'failed' are terminal". No for `ready`. |
| `sessions` | 2 publishers, 2 requests, a member or a visitor, all faults | Is a revoked session accepted for less than `DELAY + TTL`, a refused one refused with cause, a published cutoff never put back by a late fill, a visitor held to its turns, and nobody locked out for good? Yes. |
| `reply` | 2 iterations, 2 deltas and 2 tool calls per call, all faults | Is what is stored the last call's text? Does a page that is told so show what is stored? Has every tool call its result? Does every reply end? Yes. |
| `titles` | 1 conversation, 2 requests, backlog and thread of 1, 2 attempts at a time, 3 faults | Is a title set once, from the first message? Has an untitled conversation a cause (a task owed or under way, or one lost, or a lost acknowledgement, since its last acknowledged save)? Does one whose replies go on being saved get its title? Yes. |
| `evals` | 2 cases, each with 2 lines, gate of 1, verdict lists up to 2 | Are a green exit, a failure and a flip earned by the answers? Yes. |
| `client` | 2 turns of this page or the other tab, all faults | Is what the page shows and says of its own turn true (`PageIsHonest`), and so "not sent"? Does an awaited Stop cut no other turn of this page, but for one given up on that comes late? Does a page at rest and alone show what the server holds? Does its server keep `ReplyContract`? Does the composer come back, unless the re-read after a retry never ends? Yes. |

Bounds. Two requests on two processes are what a taken-over claim, a registry per
process and a drain on one of them need; a third, superseding the superseder, is left to
the theorems, which hold for any number. Two refreshes let a turn's token
be stale twice. `TURN_WINDOW = 20` exceeds the number of transaction starts of
any behaviour, so that a claim lapses by `LapseTick` only. In `Ingest`, three deliveries
give two live attempts beside a late one; the code's `MAX_RETRIES` is 3, and 2
already separates first, middle and last. In `Accounts`, four requests are a
sign-up and three later ones in any mixture (or four on the migration's
placeholder row): enough for a confirm, a re-signup and a provider sign-in to
overlap; one error shows what a single roll-back or lost commit leaves behind. In `Sessions`, two publishers
are what publishing out of order needs, and a check and a fill beside each other two requests;
`TTL` 2, `DELAY` 1 and `MemberTime` 4 let an entry of a fill outlive the publish it raced;
a day of 3, a retention of 1 and `VisitorTime` 8 go past the end of the shorter
counter of the mutant; `MaxHits` 3 is two more than `DEMO_TURN_LIMIT`, and
`failedOpen` is bounded by that limit. `ReplyStream`'s two iterations are a call
that asks, a second that asks and reaches the limit, and the fallback; two deltas
give a call a text with an empty delta in it, two tool calls a first and a last. In
`Titles` a backlog of 1 is full as soon as one publish is under way, and one email
fills it; `MaxFaults` 3 loses a task, its retry and the next. In
`Evals` cases share nothing but the gate, so a gate of 1 already makes a case
wait; two entries are what a contradiction needs; the lines of a case differ in tier,
documents, code checks and grounding. In `ChatClient` two turns of the page are a send
and its retry, a retry of a retry's reply, or a turn and the next one its stop could hit; one turn of
another tab takes the claim, the last question or the last reply away. `misses` ends at 1
because the second decides.

Requests, messages, processes and publishers are symmetric; the runs with a
liveness property use no symmetry. Deadlock is checked in `reply`
and `evals`. It is off elsewhere: requests, deliveries and time are finite there,
and the system may come to rest.

Fairness. `Turns!FairSpec`: each request's own steps are weakly fair. The event
loop runs every ready task, database calls return or raise (statement and lock
timeouts), and `StreamCut` is fair because `TURN_DEADLINE_SECONDS` ends every
stream. Asking, writing, stopping, deleting and crashing are not fair.
`Ingest!FairSpec`: only the deadline and its application on the owner's list, which
the documents panel reads as long as it shows a document in flight.
`ReplyStream!FairSpec`: a model call and a tool end, or the deadline ends them; the
event loop runs what is ready; the page reads what arrives.
`Titles!FairSpec`: the event loop runs requests past a commit and done callbacks, a
publish ends (the broker's connect timeout), an attempt ends (its time limits),
and a worker goes on taking messages (strong fairness, since the workers are often busy).
`TitleArrives` supposes that replies go on being saved and acknowledged, and faults,
emails and uploads are finitely many by `MaxFaults` and `MaxOthers`: with a fault
in each attempt for ever there is no title, and none is promised.

`ChatClient!FairSpec`: the page's event loop goes on, a request or a stop is decided or
lost, `TURN_DEADLINE_SECONDS` ends a turn (`DropReply`), the silence limit a stream, ten
seconds a stop, and `POLL_CAP_MS` a poll, whether any of its re-reads succeeds or not.
The one read the page awaits while busy and without a limit is that after a retry's `[DONE]`
(`useChat.ts:447`) or its refusal (`useChat.ts:473`): `getConversation` has neither a
timeout nor a signal (`chatApi.ts:45`, `175`). Its end is not fair, and `BusyEnds`
makes the exception: the composer comes back, or the page stays in that read.
Sending, retrying, stopping, another tab's turns, the reads of a poll and the history
load have no fairness.

### What the violations show

- *Order.* A send whose transaction starts before a running reply's save does,
  and whose claim is granted after that save commits, is stamped earlier than the
  reply. Its question then stands before that reply in every list, and the history
  handed to the model ends with the assistant's message.
- *Publish.* The request that could not publish writes `failed` by primary key.
  If the broker had taken the message and the worker has finished, a ready
  document with its chunks stored becomes failed.
- *Claim.* A provider sign-in reads an unverified row with a pending password; a
  Confirm commits; the sign-in's flush still clears the password, of an account
  that is verified now. `replace_pending_password` guards the same race with its
  WHERE; the claim has no such condition.
Lesser disagreements follow from the same code and have no run of their
own. In the state of *Order* a retry of the newer question is refused
`already_answered` although nothing answers it (`chat_service.py:144` says
"another page answered it"). When a save's COMMIT succeeds and its acknowledgement
is lost, the page is told `reply_failed` (`chat_service.py:250`: "ended with nothing
stored") and finds the reply at its next load. And two overlapping requests
for a link void only what each of them sees, so both links are live until one is spent
(`routers/auth.py:246`: "the only live reset link"). A COMMIT that stores a first
question, or a reply in an untitled conversation, and whose acknowledgement is lost skips
the enqueue: the title is missing until the next saved reply though no publish was lost
(`chat_service.py:44-48` names only "a lost publish"). And `documents.py:269-270` explains
a stored file that is missing by "The row outlived its object (a failed delete's second
half, or a sweep)", which the code does not do: the delete commits the row's end first
(208-216), so only the object can outlive, and `RowHasBytes` holds. A download meets a
missing object only with a row it read before a delete.

In the client, what the page cannot know it may say wrongly, and `ChatClient` draws its
properties around these cases:

- A stop given up after ten seconds is not withdrawn and names its conversation only,
  so it may cut the next turn (`useChat.ts:146-147`: "a slow stop can never land on the
  user's next turn").
- A connection that delivers nothing (`chatApi.ts:268-271`) during the re-read after a
  retry keeps `isLoading` true and the composer closed for as long as the browser waits,
  while the stream, a stop and a poll each have a limit (`useChat.ts:447`, `473`).
- A send that outlives both re-reads, two seconds apart, is stored after the page said
  it was not sent (`useChat.ts:98`).
- A turn that starts after a read has taken the claim and before it takes the messages
  looks interrupted (`useChat.ts:262-263`). The opposite race, a reply saved
  between the two, is the one the order of the statements was chosen for;
  `InterruptedIsTrue` checks it for the page's own turns.
- The re-read after a retry does not look at `replying`, so another tab's question may
  stand there with neither a poll nor a line (`useChat.ts:93-96`).
- A history read before a send and landing during it replaces the list, the new
  question included; a failed reply does not bring it back (`useChat.ts:495-496`).
- The question of a send that failed with an error status stays on the page, stored or
  not, and a history load that failed leaves a page with its own turns only.

## 5. The proofs

The theorems hold for every value of the constants: any set of requests,
messages, processes, deliveries, publishers, tools or cases, every window, budget and
bound, and any set of faults. They assume what the modules assume of their constants: a
positive window, `NoReq` outside `Req`, natural bounds, `DELAY < TTL`, at least
one iteration, tool names apart from the made-up one, finitely many cases.

*Turns.* The properties rest on `Inv`, checked by TLC first. `OneReplyPerQuestion`
is not inductive: that a save adds a first reply needs that the saver's question
is unanswered while its claim stands (`QuestionOpen`), which needs that nobody
else acts on that claim (`ClaimIsOwn`), which needs that tokens and open stamps are
pairwise distinct and taken (`StampsTaken`, `StampsDistinct`). That a retry removes
the only reply to its question needs the messages' stamps to be distinct
(`MessageStampsDistinct`), ids of questions to be unique (`OneQuestionPerId`) and
the invariant itself: the reply directly after a question, ordered by
`created_at`, answers that question or an older one that loses its reply too.
`ReplyAfterItsQuestion` follows from `QuestionOpen`'s bound on the save's stamp.
`DoneIsFree` and `DrainWins` have short strengthenings of their own;
`EntryKeptWhileRunning` follows step by step from the types. `Refines` maps each step to a step of `ReplyContract` or to a stutter, under `Inv`.

*Ingest.* `OneChunkSet` holds because chunks change only with the row leaving
`processing`, and the set an attempt's DELETE saw is all there is while the row is
in flight: none. `RowHasBytes` needs where the upload and the delete are. The two
action properties follow step by step.

*Accounts.* All seven properties of the run follow from one invariant in four parts:
which statement a request can be at (`KindFits`, `WritesFit`), that locks are
exclusive (`LinksApart`, `UserApart`), what a transaction past its locks may still
assume of the committed rows (`RowThere`, `CommitFits`), and what has become of the
links in a snapshot (`LinksFit`, `Spending`). `LinkSpentOnce` needs that a winner
holds its link until its commit marks it used; `PendingHasLink` that whoever voids
the last verify link either verifies the row or writes a new link in the same
commit, which is what `CommitFits` says. `NoDeadlock` follows from the order links,
accounts, users. A transaction waiting for links holds nothing, so a circle has a
member that holds the accounts or the users row and waits. It cannot be about to
update the row: the holder it waits for would be waiting too, hence have just
inserted that row, which `RowThere` excludes. So it has inserted the row and waits
for another's account, and that other waits, by the same two cases, as a second
inserter of the row or as an updater of it.

*Sessions.* The invariant has three parts besides the types. `Timely`: a publisher or
a fill in progress is within its `DELAY`, and an entry that differs from the row ends
before `changed + DELAY + TTL`, which is `RevocationTakesHold`. `Justified`: no cutoff
in the row, the cache, a request or a publisher is above `peak`, which gives
`RefusedForCause`. `Published`: once every publisher is through and the last SET was
the row's cutoff, the entry is that cutoff, and a fill that read an older one is over before
the entry ends, so `NX` refuses it. That is where `DELAY < TTL` is needed.
`RefusalExpires` follows step by step: a `hit` that is refused has just set an end
or found one. `TurnsAreCapped` has an invariant of its own, `Capped`: the row is swept
before it is `RETENTION` and a day old (`RowIsSwept`); a counter that exists ends no
sooner than `TurnWindow` after the row's creation, hence after the row
(`CounterOutlives`); and as long as the row is there, each turn stored or on its way past
the cap has an `INCR` of its own, or is one of those that failed open (`Paid`, by
the cardinality of the requests `Counted`). The interleavings of `hit`'s three commands
come to nothing, because the one that reads no TTL sets it and until then the counter
has no end.

*ReplyStream.* `StoredIsLastCall` follows from `Kept`: in a call the buffer is the call's
text and nothing else, and between calls it is empty, since each retract found its whole
suffix. For `PageShowsWhatIsStored`, `Relayed` says that applying the events
still in the queue to what the page shows gives the task's text and sources, with a
witness for the views in between (`Relay`); the task extends that path at one end, the
page shortens it at the other. `ToolCallsAreAnswered` needs that the results are the
ids of the calls answered so far, in order (`Answering`).

*Titles.* `TitleSetOnce` needs that an attempt past its read holds the text of a first
message (`FromFirst`), which a stored conversation has (`Asked`). `UntitledForCause` is
inductive as it stands (`Cause`): each job that ends without a title notes its loss, each
commit that leaves a conversation untitled owes a task or notes its lost acknowledgement, and a conversation is not stored before its
request owes one. The backlog's limit needs that `pending` is finite.

*Evals.* The invariant says of each case what its outcome rests on (`Scored`), and of
the run where its cases can be in each phase. The point is `KeptAgrees`: without a
conflict the first entry of an index, which is the one the code keeps, says what all of
them say, so what is graded does not depend on which the judge sent first.

*ChatClient.* `Typed` says where each run, request, read and poll can be and who owns
the page's busy state; `TypeOK` is part of it. `Served` relates the claim to the thread:
a running turn's question is stored and no later message answers it, which is what each
step of `ReplyContract` asks for. `Seen`, `Same` and `Replies` say that every thread
the page shows or has read consists of stored messages, and which of them are its
own objects. For `UnansweredIsExplained`, `Explained` says that a page whose last shown
question is its own has a run, a poll or a line for it. For `NotSentIsTrue`,
`NotSentKept` says that a question missed by two re-reads has no request left and was
never stored: a request given up on is decided before the second re-read. `Settling` says
whose turn can hold the conversation as far as the page can know: its own, the other
tab's, or a late one, and not its own once a settled page or a read taken since says
so. `StopHitsItsTurn` follows from it with `Pressed`, that an awaited stop is meant for
the run's turn. So does `InterruptedIsTrue`, with what a refusal, a failed stream
(`Unstored`) and a read that found no reply (`RereadIsTrue`, `Sighted`) say of the page's
own turn; `Sighted` holds because a read takes the claim before the messages.

`AloneShowsServer` needs, while the page is alone (`Lone`), what the server's answer
says of the thread's end (`Answers`), that a read which found the conversation free, or
follows a finished retry, has nothing to race with (`Reads`), and that the turn which was
there before the page is not taken for one of its own (`Early`). Then `Showing` is
inductive: a page at rest shows the thread's end; one that waits for a reply
to `q` shows the end of the thread without the reply to `q` (`Stripped`), which the retry
has hidden and the server may still have, with the question `q` last. Each reply it
shows stands right after its question, so what a retry hides is the thread's last
message, and `filter`, which removes by identity, takes that one and no other. It is not
enough that the page shows messages of the thread: that what is held is its end,
once and in order, is what makes the next reply fit.

Only model-checked: the liveness properties and every violation.
Liveness under fairness is out of the prover's reach; a violation is a behaviour TLC
finds.

## 6. Not modelled

Of `useChat`, a stop or a send that outlives the page's wait for it by any time is left
out, and so is leaving the page: navigation, unmounting, the `generation` and
`cancelled` guards and a reload. So are the second conversation that a new chat's resend creates
when the first send was answered by nothing, a Stop that reaches a process
without the turn, a message id sent twice, and a save whose COMMIT is not
acknowledged (`Turns` and `ReplyStream` have it). `rate_limit.clear` and the sign-in, mail
and upload limits, `verify_credentials`, the list and download of documents, and
`with-lock.sh` have no module.

Within the modules: identity and ownership checks, request validation, the content of
messages and titles, the SSE encoding and keep-alives, what a model or a tool
returns, costs, logging. Durations appear only as which deadline may have passed,
except in `Sessions`. Redis is taken to keep what it acknowledged until its time is up (an
eviction or a restart that loses data is left out). In `Titles` the lapse of a claim is
left to `Turns`. In `Evals` the corpus's ingest, token counts, ratios
and the rendering of reports are left out, and so are cases added or removed
between runs, which `compare` lists apart.

Row-level security is PostgreSQL's; sign-in callbacks, the watchdog, the profile, the text
pipeline, mail and passwords keep no state of a protocol. Reasons for each part are in
`PROJECT.json`.
