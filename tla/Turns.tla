------------------------------- MODULE Turns -------------------------------
(***************************************************************************)
(* A chat turn: the request that claims the conversation and stores the    *)
(* question (routers/chat.py, routers/conversations.py, chat_service.py),  *)
(* and the server task that streams the reply, keeps the claim alive,      *)
(* saves the reply and releases the claim (turns.py).                      *)
(*                                                                         *)
(* pc[r] follows request r, then the task it started:                      *)
(*   "idle"       not sent yet                                             *)
(*   "claiming"   in the claiming transaction, which started at opened[r]  *)
(*   "claimed"    start_reply: claim committed, history being loaded       *)
(*   "starting"   start_turn has created the task                          *)
(*   "streaming"  Turn._run awaits its consumer                            *)
(*   "finishing"  Turn._finish: heartbeat told to stop, being awaited      *)
(*   "saving"     in persist_assistant_turn's transaction                  *)
(*   "dropping"   in release_claim                                         *)
(*   "settled"    the database work is over, the marker is not out yet     *)
(*   "ended"      the caller knows verdict[r]                              *)
(*   "dead"       the process died under it                                *)
(***************************************************************************)
EXTENDS Conversations

CONSTANTS
    Proc,           \* API processes
    Faults,         \* which of "crash", "db", "stall" may happen
    MaxRefreshes    \* bound on heartbeat refreshes in one behaviour

ASSUME RefreshAssumption == MaxRefreshes \in Nat

VARIABLES
    pc,
    proc,        \* the process that serves the request
    kind,        \* "send", "retry", or "replace" (a retry with replace=true)
    asked,       \* the user message to answer
    opened,      \* start of the transaction the request has open, or 0
    token,       \* Turn._token: the claim's value as this turn knows it, or 0
    written,     \* the buffer holds non-blank text to store
    signal,      \* "stop" (Turn._stopped) or "drain" (the task is being cancelled)
    beat,        \* heartbeat: "off", "waiting", "refreshing", "over"
    refreshes,
    registry,    \* _by_conversation, per process
    verdict      \* how the request ends

params == <<proc, kind, asked>>
streamVars == <<written, signal, beat, refreshes>>
vars == <<dbVars, pc, params, opened, token, streamVars, registry, verdict>>

Kinds == {"send", "retry", "replace"}

\* The claim is this request's to release.
Holding == {"claimed", "starting", "streaming", "finishing", "saving", "dropping"}
\* The task exists.
Tasked == {"starting", "streaming", "finishing", "saving", "settled"}

Goto(r, l) == pc' = [pc EXCEPT ![r] = l]
Says(r, v) == verdict' = [verdict EXCEPT ![r] = v]
Opens(r, t) == Starts(t) /\ opened' = [opened EXCEPT ![r] = t]
Closes(r) == opened' = [opened EXCEPT ![r] = 0]

Init ==
    /\ DbInit
    /\ pc = [r \in Req |-> "idle"]
    /\ proc \in [Req -> Proc]
    /\ kind \in [Req -> Kinds]
    /\ asked \in [Req -> Msg]
    /\ opened = [r \in Req |-> 0]
    /\ token = [r \in Req |-> 0]
    /\ written = [r \in Req |-> FALSE]
    /\ signal = [r \in Req |-> "none"]
    /\ beat = [r \in Req |-> "off"]
    /\ refreshes = 0
    /\ registry = [p \in Proc |-> NoReq]
    /\ verdict = [r \in Req |-> "none"]

-----------------------------------------------------------------------------
(* The request: claim, question, history *)

\* When a claiming transaction may start.  A claim no turn refreshes passes the
\* window; one whose turn is alive and knows its value does only when its
\* heartbeat stalls for all of the window.
KeptAlive == \E r \in Req : pc[r] \in Holding /\ Holds(token[r])
ClaimTimes ==
    {NextTick} \cup
    {t \in {LapseTick} : since # Null /\ ("stall" \in Faults \/ ~KeptAlive)}

\* The claiming transaction starts.  The first send creates the conversation:
\* no other request can name it before that one has answered.
Begin(r) ==
    /\ pc[r] = "idle"
    /\ conv = "none" => kind[r] = "send" /\ \A s \in Req : pc[s] # "claiming"
    /\ \E t \in ClaimTimes : Opens(r, t)
    /\ Goto(r, "claiming")
    /\ UNCHANGED <<conv, since, claimant, messages, params, token, streamVars,
                   registry, verdict>>

\* _claim_turn succeeds: a row this transaction creates has no claim yet.
Granted(r) == conv = "none" \/ (conv = "open" /\ Claimable(opened[r]))

\* The request's own condition on what is stored, read under the claim.
FreshId(r) == \A m \in Questions : m.of # asked[r]
Retriable(r) ==
    \/ EndsWith(asked[r])
    \/ kind[r] = "replace" /\ ReplyAfter(asked[r]) # {}
Acceptable(r) == IF kind[r] = "send" THEN FreshId(r) ELSE Retriable(r)

\* The claim commits; a commit whose acknowledgement is lost, or whose request
\* is cancelled meanwhile, leaves a claim nobody will release.
CommitClaim(r) ==
    /\ ClaimTurn(r, opened[r])
    /\ conv' = "open"
    /\ Closes(r)
    /\ \/ /\ Goto(r, "claimed") /\ UNCHANGED verdict
          /\ token' = [token EXCEPT ![r] = opened[r]]
       \/ /\ "db" \in Faults
          /\ Goto(r, "ended") /\ Says(r, "failed")
          /\ UNCHANGED token

\* persist_user_turn: create, claim, user message, commit.
PersistUserTurn(r) ==
    /\ pc[r] = "claiming" /\ kind[r] = "send"
    /\ Granted(r) /\ Acceptable(r)
    /\ CommitClaim(r)
    /\ messages' = AddMessage("user", asked[r], r, opened[r])
    /\ UNCHANGED <<now, params, streamVars, registry>>

\* claim_for_retry: claim, read the end of the conversation, delete the reply
\* it replaces, commit.
ClaimForRetry(r) ==
    /\ pc[r] = "claiming" /\ kind[r] # "send"
    /\ Granted(r) /\ Acceptable(r)
    /\ CommitClaim(r)
    /\ messages' = messages \ ReplyAfter(asked[r])
    /\ UNCHANGED <<now, params, streamVars, registry>>

\* A refusal or a database error rolls back: it leaves no trace.
Refuse(r) ==
    /\ pc[r] = "claiming"
    /\ \/ ~(Granted(r) /\ Acceptable(r)) /\ Says(r, "refused")
       \/ "db" \in Faults /\ Says(r, "failed")
    /\ Goto(r, "ended") /\ Closes(r)
    /\ UNCHANGED <<dbVars, params, token, streamVars, registry>>

\* load_history, then start_turn hands the claim to a task.
StartTurn(r) ==
    /\ pc[r] = "claimed"
    /\ Goto(r, "starting")
    /\ registry' = [registry EXCEPT ![proc[r]] = r]
    /\ UNCHANGED <<dbVars, params, opened, token, streamVars, verdict>>

\* start_reply fails before start_turn, in load_history or because its request is
\* cancelled: the claim is released, shielded.
StartFails(r) ==
    /\ pc[r] = "claimed"
    /\ Goto(r, "dropping") /\ Says(r, "failed")
    /\ UNCHANGED <<dbVars, params, opened, token, streamVars, registry>>

-----------------------------------------------------------------------------
(* The stream: Turn._run *)

\* What a step of the running stream leaves alone.
StreamOnly == UNCHANGED <<dbVars, params, opened, token, refreshes, registry, verdict>>

\* The task's first step; a stop that came first keeps nothing.
StartStream(r) ==
    /\ pc[r] = "starting"
    /\ Goto(r, IF signal[r] = "stop" THEN "finishing" ELSE "streaming")
    /\ beat' = [beat EXCEPT ![r] = "waiting"]
    /\ UNCHANGED <<written, signal>> /\ StreamOnly

\* A content event, or a retract that leaves only blank text.
Write(r) ==
    /\ pc[r] = "streaming" /\ signal[r] = "none"
    /\ written' = [written EXCEPT ![r] = ~written[r]]
    /\ UNCHANGED <<pc, signal, beat>> /\ StreamOnly

\* The task itself is not being cancelled.
UndrainedUnchecked(r) == TRUE
Undrained(r) == signal[r] # "drain"

\* The consumer ends: the model is done, or a stop cancelled it (a stop that
\* comes just after changes nothing).  What was written is kept; a reply with
\* only blank text does not count as completed.
StreamEnds(r) ==
    /\ pc[r] = "streaming" /\ Undrained(r)
    /\ Goto(r, "finishing")
    /\ UNCHANGED <<written, signal, beat>> /\ StreamOnly

\* A model error, the turn deadline, or a drain's cancellation (which wins over
\* a stop): nothing is kept.
StreamCut(r) ==
    /\ pc[r] = "streaming"
    /\ Goto(r, "finishing")
    /\ written' = [written EXCEPT ![r] = FALSE]
    /\ UNCHANGED <<signal, beat>> /\ StreamOnly

\* A refresh's transaction starts; none starts once the turn finishes.
BeginRefresh(r) ==
    /\ pc[r] = "streaming" /\ beat[r] = "waiting"
    /\ refreshes < MaxRefreshes
    /\ refreshes' = refreshes + 1
    /\ Opens(r, NextTick)
    /\ beat' = [beat EXCEPT ![r] = "refreshing"]
    /\ UNCHANGED <<conv, since, claimant, messages, pc, params, token, written,
                   signal, registry, verdict>>

\* The turn keeps the value its refresh returned.
DropsToken(r) == UNCHANGED token
KeepsToken(r) == token' = [token EXCEPT ![r] = opened[r]]

\* refresh_turn and its commit: the claim moves if it is still this turn's,
\* and the heartbeat ends if it is not.  On a database error the claim is not
\* moved, or is moved without the turn learning its new value.
Refresh(r) ==
    /\ beat[r] = "refreshing" /\ pc[r] \in {"streaming", "finishing"}
    /\ Closes(r)
    /\ \/ /\ Holds(token[r])
          /\ since' = opened[r]
          /\ \/ KeepsToken(r)
             \/ "db" \in Faults /\ UNCHANGED token
          /\ beat' = [beat EXCEPT ![r] = "waiting"]
       \/ /\ ~Holds(token[r])
          /\ beat' = [beat EXCEPT ![r] = "over"]
          /\ UNCHANGED <<since, token>>
       \/ /\ "db" \in Faults
          /\ beat' = [beat EXCEPT ![r] = "waiting"]
          /\ UNCHANGED <<since, token>>
    /\ UNCHANGED <<now, conv, claimant, messages, pc, params, written, signal,
                   refreshes, registry, verdict>>

-----------------------------------------------------------------------------
(* The end of a turn: Turn._finish *)

\* stop.set(), then the heartbeat is awaited.
HeartbeatUnstopped(r) ==
    /\ beat[r] = "over"
    /\ beat' = [beat EXCEPT ![r] = "off"]
HeartbeatStops(r) ==
    /\ beat[r] # "refreshing"
    /\ beat' = [beat EXCEPT ![r] = "off"]

\* A completed reply: the save's transaction starts.
BeginSave(r) ==
    /\ pc[r] = "finishing" /\ written[r]
    /\ HeartbeatStops(r)
    /\ Opens(r, NextTick)
    /\ Goto(r, "saving")
    /\ UNCHANGED <<conv, since, claimant, messages, params, token, written, signal,
                   refreshes, registry, verdict>>

\* Nothing to store: release only.
BeginDrop(r) ==
    /\ pc[r] = "finishing" /\ ~written[r]
    /\ HeartbeatStops(r)
    /\ Goto(r, "dropping") /\ Says(r, "failed")
    /\ UNCHANGED <<dbVars, params, opened, token, written, signal, refreshes, registry>>

\* What persist_assistant_turn returns: whether it released its own claim.
OutcomeAssumed(r) == "done"
Outcome(r) == IF Holds(token[r]) THEN "done" ELSE "failed"

\* persist_assistant_turn: release, and only if that cleared this turn's own
\* claim store the reply, in one transaction.  When the commit's answer is lost
\* the task takes the save for failed.
PersistAssistantTurn(r) ==
    /\ pc[r] = "saving"
    /\ ReleaseTurn(token[r])
    /\ messages' = IF Holds(token[r])
                    THEN AddMessage("assistant", asked[r], r, opened[r])
                    ELSE messages
    /\ \/ Goto(r, "settled") /\ Says(r, Outcome(r))
       \/ "db" \in Faults /\ Goto(r, "dropping") /\ Says(r, "failed")
    /\ Closes(r)
    /\ UNCHANGED <<now, conv, params, token, streamVars, registry>>

\* The save rolls back: free the conversation at once, best effort.
SaveFails(r) ==
    /\ pc[r] = "saving"
    /\ "db" \in Faults
    /\ Goto(r, "dropping") /\ Says(r, "failed") /\ Closes(r)
    /\ UNCHANGED <<dbVars, params, token, streamVars, registry>>

\* release_claim; when it fails the claim lasts until the window lapses.
ReleaseClaim(r) ==
    /\ pc[r] = "dropping"
    /\ \/ ReleaseTurn(token[r])
       \/ "db" \in Faults /\ UNCHANGED <<since, claimant>>
    /\ Goto(r, "settled")
    /\ UNCHANGED <<now, conv, messages, params, opened, token, streamVars, registry,
                   verdict>>

\* The terminal marker (or the failed request's response) goes out, and the
\* task's done callback drops its registry entry: only the turn it points to
\* removes one.  The task, its buffer and its token are gone.
OwnEntry(r) == registry[proc[r]] = r
UnregisterAny(r) == registry' = [registry EXCEPT ![proc[r]] = NoReq]
Unregister(r) ==
    registry' = IF OwnEntry(r) THEN [registry EXCEPT ![proc[r]] = NoReq] ELSE registry

Settle(r) ==
    /\ pc[r] = "settled"
    /\ Goto(r, "ended")
    /\ Unregister(r)
    /\ token' = [token EXCEPT ![r] = 0]
    /\ written' = [written EXCEPT ![r] = FALSE]
    /\ signal' = [signal EXCEPT ![r] = "none"]
    /\ UNCHANGED <<dbVars, params, opened, beat, refreshes, verdict>>

-----------------------------------------------------------------------------
(* The owner's Stop and Delete; shutdown, crashes and time *)

\* POST .../stop, served by p: reaches the turn registered there, if any, and
\* is a no-op once its stream is over.
StopReply(p) ==
    /\ conv = "open" /\ registry[p] # NoReq
    /\ pc[registry[p]] \in {"starting", "streaming"}
    /\ signal[registry[p]] = "none"
    /\ signal' = [signal EXCEPT ![registry[p]] = "stop"]
    /\ UNCHANGED <<dbVars, pc, params, opened, token, written, beat, refreshes,
                   registry, verdict>>

DeleteConversation ==
    /\ DeleteOwned
    /\ UNCHANGED <<now, pc, params, opened, token, streamVars, registry, verdict>>

\* drain_turns, past its timeout.  A cancellation that lands after the stream
\* changes nothing: the save is shielded.
Draining(p) == {r \in Req : proc[r] = p /\ pc[r] = "streaming"}
DrainTurns(p) ==
    /\ Draining(p) # {}
    /\ signal' = [r \in Req |-> IF r \in Draining(p) THEN "drain" ELSE signal[r]]
    /\ UNCHANGED <<dbVars, pc, params, opened, token, written, beat, refreshes,
                   registry, verdict>>

\* The process dies: its requests and tasks stop where they are, its open
\* transactions roll back, and its registry is gone.
Serving(p) == {r \in Req : proc[r] = p /\ pc[r] \notin {"idle", "ended", "dead"}}
Crash(p) ==
    /\ "crash" \in Faults
    /\ Serving(p) # {}
    /\ pc' = [r \in Req |-> IF r \in Serving(p) THEN "dead" ELSE pc[r]]
    /\ opened' = [r \in Req |-> IF r \in Serving(p) THEN 0 ELSE opened[r]]
    /\ token' = [r \in Req |-> IF r \in Serving(p) THEN 0 ELSE token[r]]
    /\ beat' = [r \in Req |-> IF r \in Serving(p) THEN "off" ELSE beat[r]]
    /\ written' = [r \in Req |-> r \notin Serving(p) /\ written[r]]
    /\ signal' = [r \in Req |-> IF r \in Serving(p) THEN "none" ELSE signal[r]]
    /\ registry' = [registry EXCEPT ![p] = NoReq]
    /\ UNCHANGED <<dbVars, params, refreshes, verdict>>

-----------------------------------------------------------------------------
Ask(r) == Begin(r) \/ PersistUserTurn(r) \/ ClaimForRetry(r) \/ Refuse(r)
Start(r) == StartTurn(r) \/ StartFails(r) \/ StartStream(r)
Stream(r) == Write(r) \/ StreamEnds(r) \/ StreamCut(r) \/ BeginRefresh(r) \/ Refresh(r)
Finish(r) ==
    \/ BeginSave(r) \/ BeginDrop(r) \/ PersistAssistantTurn(r) \/ SaveFails(r)
    \/ ReleaseClaim(r) \/ Settle(r)

Next ==
    \/ \E r \in Req : Ask(r) \/ Start(r) \/ Stream(r) \/ Finish(r)
    \/ \E p \in Proc : StopReply(p) \/ DrainTurns(p) \/ Crash(p)
    \/ DeleteConversation

Spec == Init /\ [][Next]_vars

\* A request and its task keep being scheduled, and the deadline bounds the
\* stream; a user need not ask, stop or delete, and the model owes nothing.
Progress(r) ==
    \/ PersistUserTurn(r) \/ ClaimForRetry(r) \/ Refuse(r) \/ Start(r)
    \/ StreamCut(r) \/ Refresh(r) \/ Finish(r)

FairSpec == Spec /\ \A r \in Req : WF_vars(Progress(r))

-----------------------------------------------------------------------------
(* Properties *)

\* Every variable keeps its type; a transaction never started in the future.
TypeOK ==
    /\ DbTypeOK
    /\ pc \in [Req -> {"idle", "claiming", "claimed", "starting", "streaming",
                       "finishing", "saving", "dropping", "settled", "ended", "dead"}]
    /\ proc \in [Req -> Proc]
    /\ kind \in [Req -> Kinds]
    /\ asked \in [Req -> Msg]
    /\ opened \in [Req -> 0..now]
    /\ token \in [Req -> 0..now]
    /\ written \in [Req -> BOOLEAN]
    /\ signal \in [Req -> {"none", "stop", "drain"}]
    /\ beat \in [Req -> {"off", "waiting", "refreshing", "over"}]
    /\ refreshes \in 0..MaxRefreshes
    /\ registry \in [Proc -> Req \cup {NoReq}]
    /\ verdict \in [Req -> {"none", "done", "failed", "refused"}]

\* A claim's value identifies its turn: whatever the heartbeat moved it to, the
\* turn whose token equals streaming_since is the one that claimed or refreshed
\* it, so release_turn and refresh_turn never act on another turn's claim.
ClaimIsOwn ==
    \A r \in Req : since # Null /\ since = token[r] => claimant = r

\* No question ever has two stored replies, whatever lapsed claims, retries,
\* duplicate sends and late saves do (claim_for_retry, persist_assistant_turn).
OneReplyPerQuestion ==
    \A a, b \in Replies : a.of = b.of => a = b

\* In the order pages and the model are shown (created_at), a reply comes after
\* the question it answers, though both stamps are transaction starts.
ReplyAfterItsQuestion ==
    \A a \in Replies : \E m \in Questions : m.of = a.of /\ m.at < a.at

\* A client that sees [DONE] may send at once and finds the conversation free,
\* or held by a later request (turns.py, _finish).
DoneMeansFree ==
    \A r \in Req : pc[r] = "ended" /\ verdict[r] = "done" => claimant # r

\* "A drain always wins over a Stop": a turn that was cancelled while it
\* streamed never has its partial reply stored (turns.py, _run).
DrainedStoresNothing ==
    [][\A r \in Req : signal[r] = "drain" => \A a \in Replies' \ Replies : a.by # r]_vars

\* Turns implement the contract: only the claim's holder stores a reply, to its
\* own question, freeing the conversation in the same step; a turn whose claim
\* was taken over neither stores nor frees (persist_assistant_turn,
\* release_turn).
Thread == {[role |-> m.role, of |-> m.of, by |-> m.by] : m \in messages}
Contract == INSTANCE ReplyContract WITH open <- conv, holder <- claimant, thread <- Thread
KeepsContract == Contract!Spec

\* Stop reaches a running turn until its process dies or a later turn of the
\* conversation registers there: no other turn's end takes its entry away.
EntryKeptWhileRunning ==
    [][\A r \in Req :
          OwnEntry(r) /\ pc[r] \in Tasked /\ pc'[r] \in Tasked /\ ~OwnEntry(r)'
             => \E s \in Req : registry'[proc[r]] = s /\ pc'[s] = "starting"]_vars

\* Every request is answered, however the model, the database or a Stop behave:
\* the deadline ends a stream nothing else ends.
EveryRequestEnds ==
    \A r \in Req : pc[r] = "claiming" ~> pc[r] \in {"ended", "dead"}

\* Without a database fault (a cancellation that hides the claim's COMMIT is one
\* here), no way a request or its turn can end leaves the conversation claimed:
\* whoever claims it frees it, is taken over or dies.
ClaimIsReleased ==
    \A r \in Req : claimant = r ~> claimant # r \/ pc[r] = "dead"

-----------------------------------------------------------------------------
(* What makes the safety properties inductive *)

\* An open transaction and a claim to release have a stamp, and no two requests
\* share one.
StampsTaken ==
    \A r \in Req :
        /\ pc[r] \in {"claiming", "saving"} => opened[r] # 0
        /\ beat[r] = "refreshing" => opened[r] # 0 /\ pc[r] \in {"streaming", "finishing"}
        /\ pc[r] \in Holding => token[r] # 0
StampsDistinct ==
    \A r, s \in Req : r # s =>
        /\ token[r] # 0 => token[r] # token[s]
        /\ opened[r] # 0 => opened[r] # opened[s] /\ opened[r] # token[s]
\* Messages are totally ordered by created_at, and no open transaction will
\* store one at a stamp already taken.
MessageStampsDistinct ==
    /\ \A m, n \in messages : m.at = n.at => m = n
    /\ \A r \in Req : opened[r] # 0 => \A m \in messages : m.at # opened[r]

OneQuestionPerId ==
    \A m, n \in Questions : m.of = n.of => m = n

\* While a turn's claim stands, its question is stored and unanswered, and a
\* save in progress started after the question was stored.
QuestionOpen ==
    \A r \in Req : claimant = r /\ pc[r] \in Holding =>
        /\ \A a \in Replies : a.of # asked[r]
        /\ \E m \in Questions :
              m.of = asked[r] /\ (pc[r] = "saving" => m.at < opened[r])

Inv ==
    /\ TypeOK
    /\ StampsTaken /\ StampsDistinct /\ MessageStampsDistinct /\ ClaimIsOwn
    /\ OneQuestionPerId /\ OneReplyPerQuestion /\ ReplyAfterItsQuestion
    /\ QuestionOpen

-----------------------------------------------------------------------------
(* What comments say and the code does not keep *)

\* load_history (chat_service.py): "the user message being answered lands
\* last".  A send whose transaction starts before a running reply's save starts,
\* and claims after that save commits, is stamped before the reply.
QuestionLandsLast ==
    [][\A r \in Req : pc[r] = "claimed" /\ pc'[r] = "starting" /\ conv = "open"
                       => EndsWith(asked[r])]_vars
=============================================================================
