----------------------------- MODULE ChatClient -----------------------------
(***************************************************************************)
(* One page of the web client (hooks/useChat.ts) on one conversation,      *)
(* beside the server, another tab of the same user, and a network that     *)
(* loses and delays requests and answers.                                  *)
(*                                                                         *)
(* A step of the page is what runs between two awaits.  A turn is a number *)
(* given to each send and each retry; a question is named by the turn that *)
(* asked it.  Turn 1 is the one that was there before the page.            *)
(*                                                                         *)
(* run.at follows runTurn: "idle", "waiting" for a response, "reading" its *)
(* stream, "rereading" the conversation after a retry's [DONE],            *)
(* "refetching" it after a retry was refused.                              *)
(***************************************************************************)
EXTENDS Integers, Sequences, FiniteSets, SequencesExt

CONSTANTS
    MaxTurns,    \* bound on the turns that the two tabs ask for
    Faults       \* what the surroundings may do, of these:

\* "limit"   the visitor's turns are used up
\* "error"   a request fails in the server, before or after it took effect
\* "delete"  the conversation is deleted elsewhere
\* "early"   the user sends before the history has loaded
\* "offline" re-reads fail for as long as a poll lasts
\* "slow"    a request may outlive the page's wait for it, until a re-read has
\*           missed it
ASSUME BoundsAssumption == MaxTurns \in Nat
ASSUME FaultsAssumption ==
    Faults \subseteq {"limit", "error", "delete", "early", "offline", "slow"}

VARIABLES
    conv,        \* the conversation: "none" yet, "open" or "deleted"
    thread,      \* its messages
    running,     \* the turn that holds its claim, and the question it answers
    ever,        \* history: every message ever stored
    turns,       \* the last turn, those this page did not ask for, and (history)
                 \* those it gave up on while their request was under way, and
                 \* whether it asked before its history was there or gave up on a
                 \* poll
    requests,    \* this page's requests on their way to the server
    answer,      \* what the server has answered run.turn so far
    stops,       \* stop requests on their way, by the turn they are meant for
    stop,        \* the stop request this page awaits, and its answer
    hits,        \* history: stops that went astray, <<turn meant, turn stopped>>
    reads,       \* GET /conversations/{id}, for the load, the poll and the run
    page,        \* the hook's state and its refs
    run,         \* runTurn's locals
    poll         \* pollRef

serverVars == <<conv, thread, running, ever>>
netVars == <<requests, answer, stops, stop, hits>>
pageVars == <<page, run, poll>>
vars == <<serverVars, turns, netVars, reads, pageVars>>

None == 0
Turn == 1..(1 + MaxTurns)

\* `local`: the object this page made, a send's optimistic turn or the reply
\* committed from the stream.
Question(t) == [role |-> "user", of |-> t, by |-> t, local |-> FALSE]
Answer(q, t) == [role |-> "assistant", of |-> q, by |-> t, local |-> FALSE]
Own(m) == [m EXCEPT !.local = TRUE]
Message == [role : {"user", "assistant"}, of : Turn, by : Turn, local : BOOLEAN]

EndsWithUser(t) == t # <<>> /\ Last(t).role = "user"
EndsWith(t, q) == t # <<>> /\ Last(t) = Question(q)
Answered(t, q) ==
    /\ Len(t) > 1
    /\ Last(t).role = "assistant" /\ EndsWith(Front(t), q)
\* filter((m) => m !== object): an object has one place.
Without(t, m) ==
    IF m \in ToSet(t) THEN RemoveAt(t, CHOOSE i \in DOMAIN t : t[i] = m) ELSE t

Nobody == [turn |-> None, of |-> None]
Streaming == {"open", "done", "failed"}
Refusals == {"limit", "busy", "nothing", "answered", "gone", "error"}

NoRead == [at |-> "off", replying |-> FALSE, thread |-> <<>>]
NoRun == [at |-> "idle", kind |-> "send", turn |-> None, after |-> None,
          hidden |-> <<>>, hadId |-> FALSE]
NoPoll == [at |-> "off", kind |-> "settle", misses |-> 0]
NoStop == [turn |-> None, answer |-> "none"]

\* A new chat, or a conversation opened while its last question is answered,
\* unanswered or being answered.
Init ==
    /\ conv \in {"none", "open"}
    /\ thread \in IF conv = "none" THEN {<<>>}
                  ELSE {<<Question(1)>>, <<Question(1), Answer(1, 1)>>}
    /\ running \in {Nobody} \cup
                   {r \in {[turn |-> 1, of |-> 1]} : EndsWithUser(thread)}
    /\ ever = ToSet(thread)
    /\ turns = [last |-> 1, others |-> {1}, late |-> {}, blind |-> FALSE]
    /\ requests = {} /\ answer = "none"
    /\ stops = {} /\ stop = NoStop /\ hits = {}
    /\ reads = [k \in {"load", "poll", "run"} |->
                  IF k = "load" /\ conv = "open" THEN [NoRead EXCEPT !.at = "asked"]
                                                 ELSE NoRead]
    /\ page = [shown |-> <<>>, known |-> conv = "open", loading |-> FALSE,
               streaming |-> FALSE, still |-> FALSE, error |-> "none",
               limited |-> FALSE, notice |-> FALSE,
               sending |-> FALSE, stopped |-> FALSE]
    /\ run = NoRun /\ poll = NoPoll

-----------------------------------------------------------------------------
(* The server *)

Stores(m) == thread' = Append(thread, m) /\ ever' = ever \cup {m}
Tells(t, a) == answer' = IF t = run.turn /\ run.at = "waiting" THEN a ELSE answer

\* claim_for_retry deletes the reply it replaces.
ReplacedKept(t) == t
Replaced(t) == Front(t)

RefusalOf(q) ==
    CASE conv = "deleted" -> "gone"
      [] conv # "deleted" /\ running # Nobody -> "busy"
      [] conv # "deleted" /\ running = Nobody /\ q.kind = "retry"
           /\ Answered(thread, q.after) /\ ~q.replace -> "answered"
      [] conv # "deleted" /\ running = Nobody /\ q.kind = "retry"
           /\ ~Answered(thread, q.after) /\ ~EndsWith(thread, q.after) -> "nothing"
      [] OTHER -> "none"

Refuse(q) ==
    /\ q \in requests
    /\ requests' = requests \ {q}
    /\ \/ RefusalOf(q) # "none" /\ Tells(q.turn, RefusalOf(q))
       \/ "limit" \in Faults /\ Tells(q.turn, "limit")
       \/ "error" \in Faults /\ Tells(q.turn, "error")
    /\ UNCHANGED <<serverVars, turns, stops, stop, hits, reads, pageVars>>

\* persist_user_turn or claim_for_retry commits.  Then the stream's response
\* begins; or start_reply fails, which frees the conversation and answers 500.
Accept(q) ==
    /\ q \in requests /\ RefusalOf(q) = "none"
    /\ requests' = requests \ {q}
    /\ conv' = "open"
    /\ running' = [turn |-> q.turn, of |-> q.after]
    /\ IF q.kind = "send"
       THEN Stores(Question(q.turn))
       ELSE /\ thread' = IF Answered(thread, q.after) THEN Replaced(thread) ELSE thread
            /\ UNCHANGED ever
    /\ \/ Tells(q.turn, "open")
       \/ "error" \in Faults /\ UNCHANGED answer
    /\ UNCHANGED <<turns, stops, stop, hits, reads, pageVars>>

LoseRequest(q) ==
    /\ q \in requests
    /\ requests' = requests \ {q}
    /\ UNCHANGED <<serverVars, turns, answer, stops, stop, hits, reads, pageVars>>

\* start_reply is still to begin the stream this page waits for.
Starting == running.turn = run.turn /\ run.at = "waiting" /\ answer = "none"
Streams == running.turn = run.turn /\ answer = "open"

\* The turn saves its reply and frees the conversation, or frees it only.
SaveReply ==
    /\ running # Nobody /\ ~Starting
    /\ Stores(Answer(running.of, running.turn))
    /\ running' = Nobody
    /\ answer' = IF Streams THEN "done" ELSE answer
    /\ UNCHANGED <<conv, turns, requests, stops, stop, hits, reads, pageVars>>
DropReply ==
    /\ running # Nobody
    /\ running' = Nobody
    /\ answer' = IF Streams THEN "failed" ELSE IF Starting THEN "error" ELSE answer
    /\ UNCHANGED <<conv, thread, ever, turns, requests, stops, stop, hits, reads, pageVars>>

\* POST .../stop reaches whichever turn runs now, or is answered with an error.
StopReply(s) ==
    /\ s \in stops
    /\ stops' = stops \ {s}
    /\ \E a \in {"ok", "refused"} :
         /\ a = "ok" => conv = "open"
         /\ a = "refused" => conv = "deleted" \/ "error" \in Faults
         /\ hits' = IF a = "ok" /\ running.turn \notin {s, None}
                    THEN hits \cup {<<s, running.turn>>} ELSE hits
         /\ stop' = IF stop.turn = s THEN [stop EXCEPT !.answer = a] ELSE stop
    /\ UNCHANGED <<serverVars, turns, requests, answer, reads, pageVars>>
LoseStop(s) ==
    /\ s \in stops
    /\ stops' = stops \ {s}
    /\ UNCHANGED <<serverVars, turns, requests, answer, stop, hits, reads, pageVars>>

\* get_owned_detail is two statements: the row with its claim, then the
\* messages.
SeesRow(c) == [c EXCEPT !.replying = running # Nobody]
SeesMessages(c) == [c EXCEPT !.thread = thread]
Sees(c) == IF c.at = "asked" THEN SeesRow(c) ELSE SeesMessages(c)

GetOwnedDetail(k) ==
    /\ \/ reads[k].at = "asked" /\ conv = "open"
       \/ reads[k].at = "half"
    /\ reads' = [reads EXCEPT ![k] =
          [Sees(@) EXCEPT !.at = IF reads[k].at = "asked" THEN "half" ELSE "ready"]]
    /\ UNCHANGED <<serverVars, turns, netVars, pageVars>>

-----------------------------------------------------------------------------
(* The other tab, and a deletion elsewhere *)

NextTurn == turns.last + 1
OtherActs ==
    /\ conv = "open" /\ running = Nobody
    /\ turns.last <= MaxTurns
    /\ turns' = [turns EXCEPT !.last = NextTurn, !.others = @ \cup {NextTurn}]

OtherSends ==
    /\ OtherActs
    /\ Stores(Question(NextTurn))
    /\ running' = [turn |-> NextTurn, of |-> NextTurn]
    /\ UNCHANGED <<conv, netVars, reads, pageVars>>
OtherRetries ==
    /\ OtherActs
    /\ \E q \in Turn :
         /\ EndsWith(thread, q) \/ Answered(thread, q)
         /\ running' = [turn |-> NextTurn, of |-> q]
         /\ thread' = IF Answered(thread, q) THEN Front(thread) ELSE thread
    /\ UNCHANGED <<conv, ever, netVars, reads, pageVars>>

Delete ==
    /\ "delete" \in Faults /\ conv = "open"
    /\ conv' = "deleted" /\ thread' = <<>> /\ running' = Nobody
    /\ answer' = IF Streams THEN "failed" ELSE IF Starting THEN "error" ELSE answer
    /\ UNCHANGED <<ever, turns, requests, stops, stop, hits, reads, pageVars>>

-----------------------------------------------------------------------------
(* The page: sending and retrying *)

Busy == page.loading \/ stop.turn # None

Settled(p) == [p EXCEPT !.sending = FALSE, !.still = FALSE, !.loading = FALSE]

\* What every run does first.
Starts(shown) ==
    page' = [page EXCEPT !.shown = shown, !.sending = TRUE, !.stopped = FALSE,
                         !.notice = FALSE, !.loading = TRUE,
                         !.error = "none"]

\* The composer is disabled while the hook is busy, and for good at the limit.
\* A new chat's first turn that was answered with nothing is not sent again
\* here: that would create another conversation.
MaySendWhileStopping == ~page.loading /\ ~page.limited
MaySend == ~Busy /\ ~page.limited

Request(kind, after, hidden) ==
    /\ turns.last <= MaxTurns
    /\ turns' = [turns EXCEPT !.last = NextTurn,
                              !.blind = @ \/ reads["load"].at # "off"]
    /\ run' = [NoRun EXCEPT !.at = "waiting", !.kind = kind, !.turn = NextTurn,
                            !.after = after, !.hidden = hidden, !.hadId = page.known]
    /\ requests' = requests \cup {[kind |-> kind, turn |-> NextTurn, after |-> after,
                                   replace |-> hidden # <<>>]}
    /\ answer' = "none"
    /\ UNCHANGED <<serverVars, stops, stop, hits, reads, poll>>

Send ==
    /\ MaySend
    /\ reads["load"].at = "off" \/ "early" \in Faults
    /\ page.known \/ (conv = "none" /\ requests = {})
    /\ Request("send", NextTurn, <<>>)
    /\ Starts(Append(page.shown, Own(Question(NextTurn))))

\* The last user message shown, and the reply shown right after it.
LastUserAt == CHOOSE i \in DOMAIN page.shown :
    /\ page.shown[i].role = "user"
    /\ \A j \in DOMAIN page.shown : page.shown[j].role = "user" => j <= i
ShownAfter(i) ==
    IF i < Len(page.shown) THEN <<page.shown[i + 1]>> ELSE <<>>

CanRetry ==
    /\ page.known /\ ~Busy
    /\ page.error = "interrupted" \/ page.notice
    /\ \E i \in DOMAIN page.shown : page.shown[i].role = "user"

HidesNothing(hidden) == page.shown
Hides(hidden) == IF hidden = <<>> THEN page.shown ELSE Without(page.shown, hidden[1])
Retry ==
    /\ CanRetry
    /\ LET hidden == ShownAfter(LastUserAt) IN
         /\ Request("retry", page.shown[LastUserAt].of, hidden)
         /\ Starts(Hides(hidden))

-----------------------------------------------------------------------------
(* The page: a run and its outcome *)

RunOver ==
    /\ run' = [NoRun EXCEPT !.turn = run.turn, !.after = run.after]
    /\ answer' = "none"
\* `finally`, when no poll has taken the turn over.
Ends(p) ==
    /\ page' = [p EXCEPT !.sending = FALSE, !.loading = FALSE, !.streaming = FALSE]
    /\ RunOver
\* The turn's outcome is left to a poll, which then owns `loading` and `sending`.
HandsOver(kind) ==
    /\ page' = [page EXCEPT !.still = TRUE, !.streaming = FALSE]
    /\ RunOver
    /\ poll' = [NoPoll EXCEPT !.at = "resting", !.kind = kind]

Committed(p) == [p EXCEPT !.shown = Append(@, Own(Answer(run.after, run.turn)))]
NotedStop(p) == [p EXCEPT !.notice = @ \/ p.stopped]
Cut(p) == IF p.stopped THEN [p EXCEPT !.notice = TRUE]
                       ELSE [p EXCEPT !.error = "interrupted"]

\* settleFree: the thread becomes the server's.
SettleFree(p, t) ==
    LET q == [Settled(p) EXCEPT !.shown = t]
    IN IF p.stopped \/ EndsWithUser(t) THEN Cut(q) ELSE q

StopsReading(k) == reads' = [reads EXCEPT ![k] = NoRead]
Asks(k) == reads' = [reads EXCEPT ![k] = [NoRead EXCEPT !.at = "asked"]]
ServerOnly == UNCHANGED <<serverVars, turns, requests, stops, hits>>

\* onConversationId: the response has begun.
Prelude ==
    /\ run.at = "waiting" /\ answer \in Streaming
    /\ run' = [run EXCEPT !.at = "reading"]
    /\ page' = [page EXCEPT !.known = TRUE, !.streaming = TRUE]
    /\ UNCHANGED <<answer, stop, reads, poll>> /\ ServerOnly

\* [DONE]: a send shows what streamed, a retry reads the conversation again.
SendDone ==
    /\ run.at = "reading" /\ run.kind = "send" /\ answer = "done"
    /\ Ends(Committed(NotedStop(page)))
    /\ UNCHANGED <<stop, reads, poll>> /\ ServerOnly
RetryDone ==
    /\ run.at = "reading" /\ run.kind = "retry" /\ answer = "done"
    /\ run' = [run EXCEPT !.at = "rereading"]
    /\ page' = [page EXCEPT !.streaming = FALSE]
    /\ Asks("run")
    /\ UNCHANGED <<answer, stop, poll>> /\ ServerOnly
Reread ==
    /\ run.at = "rereading"
    /\ \/ /\ reads["run"].at = "ready"
          /\ Ends([NotedStop(page) EXCEPT !.shown = reads["run"].thread])
       \/ Ends(Committed(NotedStop(page)))   \* the read failed
    /\ StopsReading("run")
    /\ UNCHANGED <<stop, poll>> /\ ServerOnly

\* ReplyFailedError: what streamed is dropped.
ReplyFailed ==
    /\ run.at = "reading" /\ answer = "failed"
    /\ Ends(Cut(page))
    /\ UNCHANGED <<stop, reads, poll>> /\ ServerOnly

\* ConnectionLostError, once the response has begun.
ConnectionLost ==
    /\ run.at \in {"waiting", "reading"} /\ answer \in Streaming
    /\ IF run.hadId \/ run.at = "reading"
       THEN /\ poll' = [NoPoll EXCEPT !.at = "resting",
                            !.kind = IF run.kind = "send" THEN "outcome" ELSE "settle"]
            /\ page' = [page EXCEPT !.still = TRUE, !.streaming = FALSE]
            /\ RunOver
       ELSE Ends([page EXCEPT !.error = "interrupted"]) /\ UNCHANGED poll
    /\ UNCHANGED <<stop, reads>> /\ ServerOnly

\* fetch's own rejection: offline, or the silence limit before any response.
InFlight == \E q \in requests : q.turn = run.turn
NetworkFails ==
    /\ run.at = "waiting"
    /\ InFlight => "slow" \in Faults
    /\ turns' = IF InFlight THEN [turns EXCEPT !.late = @ \cup {run.turn}] ELSE turns
    /\ IF run.hadId
       THEN HandsOver(IF run.kind = "send" THEN "outcome" ELSE "confirm")
       ELSE Ends([page EXCEPT !.error = "refused"]) /\ UNCHANGED poll
    /\ UNCHANGED <<serverVars, requests, stops, stop, hits, reads>>

\* The optimistic turn is removed; a reply the retry hid is put back under its
\* question.
Dropped(p) == [p EXCEPT !.shown = Without(@, Own(Question(run.turn)))]
RestoreHidden(p) ==
    LET at == {i \in DOMAIN p.shown : p.shown[i].role = "user" /\ p.shown[i].of = run.after}
    IN IF run.hidden = <<>> \/ at = {} THEN p
       ELSE [p EXCEPT !.shown =
               InsertAt(@, 1 + CHOOSE i \in at : \A j \in at : i <= j, run.hidden[1])]

RefusedWith(a) == run.at = "waiting" /\ answer = a

Limited ==
    /\ RefusedWith("limit")
    /\ Ends([RestoreHidden(Dropped(page)) EXCEPT !.limited = TRUE])
    /\ UNCHANGED <<stop, reads, poll>> /\ ServerOnly
SendRefused ==
    /\ run.kind = "send"
    /\ \/ RefusedWith("busy") /\ Ends([Dropped(page) EXCEPT !.error = "refused"])
       \/ /\ RefusedWith("gone") \/ RefusedWith("error")
          /\ Ends([page EXCEPT !.error = "refused"])
    /\ UNCHANGED <<stop, reads, poll>> /\ ServerOnly
RetryRefused ==
    /\ run.kind = "retry"
    /\ \/ RefusedWith("busy") /\ HandsOver("settle")
       \/ RefusedWith("error") /\ HandsOver("confirm")
       \/ /\ RefusedWith("gone")
          /\ Ends([RestoreHidden(page) EXCEPT !.error = "refused"])
          /\ UNCHANGED poll
    /\ UNCHANGED <<stop, reads>> /\ ServerOnly
\* nothing_to_retry, already_answered: the conversation moved on.
Refetch ==
    /\ RefusedWith("nothing") \/ RefusedWith("answered")
    /\ run' = [run EXCEPT !.at = "refetching"]
    /\ Asks("run")
    /\ UNCHANGED <<answer, stop, page, poll>> /\ ServerOnly
RefetchedAssumingFree ==
    /\ run.at = "refetching"
    /\ \/ /\ reads["run"].at = "ready" /\ ~reads["run"].replying
          /\ Ends(SettleFree(page, reads["run"].thread)) /\ UNCHANGED poll
       \/ RunOver /\ UNCHANGED <<page, poll>>
    /\ StopsReading("run")
    /\ UNCHANGED <<stop>> /\ ServerOnly
Refetched ==
    /\ run.at = "refetching"
    /\ \/ /\ reads["run"].at = "ready" /\ ~reads["run"].replying
          /\ Ends(SettleFree(page, reads["run"].thread)) /\ UNCHANGED poll
       \/ HandsOver("settle")   \* it is replying, or the read failed
    /\ StopsReading("run")
    /\ UNCHANGED <<stop>> /\ ServerOnly

-----------------------------------------------------------------------------
(* The page: the history load and the poll *)

LoadLands ==
    /\ reads["load"].at = "ready"
    /\ LET c == reads["load"]
           p == [page EXCEPT !.shown = c.thread]
       IN IF page.sending THEN page' = p /\ UNCHANGED poll
          ELSE IF c.replying
          THEN /\ page' = [p EXCEPT !.still = TRUE, !.loading = TRUE]
               /\ poll' = [NoPoll EXCEPT !.at = "resting"]
          ELSE /\ page' = IF EndsWithUser(c.thread) THEN [p EXCEPT !.error = "interrupted"]
                                                    ELSE p
               /\ UNCHANGED poll
    /\ StopsReading("load")
    /\ UNCHANGED <<answer, stop, run>> /\ ServerOnly
LoadFails ==
    /\ reads["load"].at # "off"
    /\ page' = [page EXCEPT !.error = "load"]
    /\ StopsReading("load")
    /\ UNCHANGED <<answer, stop, run, poll>> /\ ServerOnly

\* A request of this page has been decided before the re-read that follows a
\* miss.
PollTick ==
    /\ poll.at = "resting"
    /\ poll.misses > 0 => ~InFlight
    /\ poll' = [poll EXCEPT !.at = "reading"]
    /\ Asks("poll")
    /\ UNCHANGED <<answer, stop, page, run>> /\ ServerOnly

\* What a re-read decides: nothing yet (with the misses so far), or how the page
\* settles.
Arrived(c) == \E i \in DOMAIN c.thread : c.thread[i] = Question(run.turn)
Missed(c) ==
    \/ poll.kind = "outcome" /\ ~Arrived(c)
    \/ poll.kind = "confirm" /\ EndsWithUser(c.thread)
EnoughAtOnce == TRUE
Enough == poll.misses + 1 >= 2
Undecided(c) == c.replying \/ (Missed(c) /\ ~Enough)

NotSent(p) == [Dropped(Settled(p)) EXCEPT !.error = "notSent"]

PollLands ==
    /\ poll.at = "reading" /\ reads["poll"].at = "ready"
    /\ LET c == reads["poll"] IN
         IF Undecided(c)
         THEN /\ poll' = [poll EXCEPT !.at = "resting",
                                      !.misses = IF c.replying THEN 0 ELSE @ + 1]
              /\ UNCHANGED page
         ELSE /\ poll' = NoPoll
              /\ page' = IF poll.kind = "outcome" /\ ~Arrived(c) THEN NotSent(page)
                         ELSE SettleFree(page, c.thread)
    /\ StopsReading("poll")
    /\ UNCHANGED <<answer, stop, run>> /\ ServerOnly
PollFails ==
    /\ poll.at = "reading" /\ (reads["poll"].at = "ready" \/ conv = "deleted")
    /\ poll' = [poll EXCEPT !.at = "resting"]
    /\ StopsReading("poll")
    /\ UNCHANGED <<answer, stop, page, run>> /\ ServerOnly

\* 12 minutes of it: past the turn deadline, a stop's 10 s and any request in
\* flight.
PollCap ==
    /\ poll.at # "off" /\ stop.turn = None
    /\ "offline" \in Faults \/ conv = "deleted"
    /\ ~InFlight
    /\ running # Nobody => running.turn # run.turn
    /\ poll' = NoPoll
    /\ page' = [Settled(page) EXCEPT !.error = "slow"]
    /\ StopsReading("poll")
    /\ turns' = [turns EXCEPT !.blind = TRUE]
    /\ UNCHANGED <<serverVars, netVars, run>>

-----------------------------------------------------------------------------
(* The page: Stop *)

Stop ==
    /\ page.streaming /\ stop.turn = None /\ ~page.still
    /\ page' = [page EXCEPT !.stopped = TRUE]
    /\ stop' = [turn |-> run.turn, answer |-> "none"]
    /\ stops' = stops \cup {run.turn}
    /\ UNCHANGED <<serverVars, turns, requests, answer, hits, reads, run, poll>>

StopSettles(p) ==
    /\ page' = p
    /\ stop' = NoStop
    /\ UNCHANGED <<answer, reads, run, poll>> /\ ServerOnly

Stopped == stop.answer = "ok" /\ StopSettles(page)

\* A network failure, or no answer for 10 s.  The stop may have landed; one that
\* the page gave up on is dropped (LoseStop), for all it can still do is to cut a
\* turn, and DropReply and SaveReply may end any turn at any time.
StopFailsUntimed == stop.answer = "refused" /\ StopSettles(page)
StopFails ==
    /\ stop.turn # None /\ stop.turn \notin stops
    /\ StopSettles(page)

\* An error status.  The turn may have settled first, as a stopped one.
UnnotedOnly(p) == [p EXCEPT !.notice = FALSE]
Unnoted(p) ==
    IF EndsWithUser(p.shown) THEN [p EXCEPT !.notice = FALSE, !.error = "interrupted"]
                             ELSE [p EXCEPT !.notice = FALSE]
StopRefused ==
    /\ stop.answer = "refused"
    /\ LET p == [page EXCEPT !.stopped = FALSE]
       IN StopSettles(IF page.sending THEN p ELSE Unnoted(p))

-----------------------------------------------------------------------------
RunSteps ==
    \/ Prelude \/ SendDone \/ RetryDone \/ Reread \/ ReplyFailed
    \/ ConnectionLost \/ NetworkFails
    \/ Limited \/ SendRefused \/ RetryRefused \/ Refetch \/ Refetched
PollSteps == PollTick \/ PollLands \/ PollFails \/ PollCap
StopSteps == Stopped \/ StopFails \/ StopRefused

Next ==
    \/ \E q \in requests : Refuse(q) \/ Accept(q) \/ LoseRequest(q)
    \/ SaveReply \/ DropReply
    \/ \E s \in stops : StopReply(s) \/ LoseStop(s)
    \/ \E k \in DOMAIN reads : GetOwnedDetail(k)
    \/ OtherSends \/ OtherRetries \/ Delete
    \/ Send \/ Retry \/ RunSteps
    \/ LoadLands \/ LoadFails \/ PollSteps
    \/ Stop \/ StopSteps

Spec == Init /\ [][Next]_vars

\* The page's event loop goes on, and so does the server: a request is decided
\* or lost, the deadline ends a turn, the silence limit a stream, 10 s a stop,
\* and 12 minutes a poll, whether any of its re-reads succeeds or not.  Nothing
\* bounds the read that follows a retry's [DONE] or refusal: getConversation has
\* neither a timeout nor a signal.  The user need not act.
Rereading == run.at \in {"rereading", "refetching"}
Decided == \E q \in requests : Refuse(q) \/ Accept(q) \/ LoseRequest(q)
StopDecided == \E s \in stops : StopReply(s) \/ LoseStop(s)
FairSpec ==
    /\ Spec
    /\ WF_vars((RunSteps /\ ~Rereading) \/ PollCap) /\ WF_vars(StopSteps)
    /\ WF_vars(Decided \/ StopDecided) /\ WF_vars(DropReply)

-----------------------------------------------------------------------------
(* Properties *)

\* Every variable keeps its type, and the page its owner: it is loading exactly
\* while a run or a poll will end that, and never under both.
TypeOK ==
    /\ conv \in {"none", "open", "deleted"}
    /\ {thread[i] : i \in DOMAIN thread} \subseteq ever /\ ever \subseteq Message
    /\ running \in {Nobody} \cup [turn : Turn, of : Turn]
    /\ answer \in {"none"} \cup Streaming \cup Refusals
    /\ stops \subseteq Turn /\ hits \subseteq Turn \X Turn
    /\ \A i \in DOMAIN page.shown : page.shown[i] \in Message
    /\ run.at \in {"idle", "waiting", "reading", "rereading", "refetching"}
    /\ poll.at \in {"off", "resting", "reading"} /\ poll.misses \in 0..1
    /\ run.at = "idle" \/ poll.at = "off"
    /\ page.loading <=> run.at # "idle" \/ poll.at # "off"
    /\ page.still <=> poll.at # "off"

\* A reply in the thread is one the server stored, whatever was lost while it
\* streamed: a frozen partial would read as finished.
ShownRepliesAreStored ==
    \A i \in DOMAIN page.shown :
        page.shown[i].role = "assistant" =>
            [page.shown[i] EXCEPT !.local = FALSE] \in ever

\* A page at rest whose thread ends with a question it asked says why no reply
\* follows, whichever of the stream's end and a stop's answer came first.
UnansweredIsExplained ==
    (~Busy /\ EndsWithUser(page.shown) /\ Last(page.shown).of = run.turn)
        => page.error # "none" \/ page.notice \/ page.limited

\* The page acted without what it had asked the server.
Blind == turns.blind \/ turns.late # {}

\* "The reply was interrupted" is said of a turn of this page only when it is
\* over and stored no reply.
Interrupted(q) == page.known /\ page.error = "interrupted" /\ EndsWithUser(page.shown)
                    /\ Last(page.shown).of = q
InterruptedIsTrue ==
    (Interrupted(run.after) /\ ~Blind) =>
        /\ running.turn # run.turn
        /\ Answer(run.after, run.turn) \notin ToSet(thread)

\* What the page shows and says of its own turn is true, in whatever order the
\* stream's end, a stop's answer and the reads arrive (runTurn, settleFree, stop,
\* get_owned_detail).
PageIsHonest == ShownRepliesAreStored /\ UnansweredIsExplained /\ InterruptedIsTrue

\* "Not sent" is said only of a message the server does not hold (pollForOutcome).
NotSentIsTrue ==
    page.error = "notSent" => Question(run.turn) \notin ToSet(thread)

\* A stop that the page has not given up on never cuts another turn of this page
\* than the one it was pressed for, but for a request it gave up on that comes late:
\* the composer waits for it (stop, busy).
StopHitsItsTurn == \A h \in hits : h[2] \in turns.others \cup turns.late

\* The server this page talks to is one ReplyContract allows, and so are the
\* turns of Turns, which implement it.
Plain(m) == [role |-> m.role, of |-> m.of, by |-> m.by]
Contract == INSTANCE ReplyContract WITH
    Req <- Turn, Msg <- Turn, NoReq <- None, open <- conv, holder <- running.turn,
    thread <- {Plain(thread[i]) : i \in DOMAIN thread}
ServerKeepsContract == [][Contract!Next]_Contract!vars

\* What s holds of the thread t is the end of t, each message at its place.  A
\* question that t does not have is left out.
Held(m, t) == m.role = "user" => \E p \in DOMAIN t : t[p].of = m.of
ShowsEnd(s, t) ==
    /\ \A i \in DOMAIN s : Held(s[i], t) => \E p \in DOMAIN t : Plain(s[i]) = Plain(t[p])
    /\ \A i, j \in DOMAIN s : \A p, q \in DOMAIN t :
         Held(s[i], t) /\ Held(s[j], t) /\ i < j
           /\ Plain(s[i]) = Plain(t[p]) /\ Plain(s[j]) = Plain(t[q]) => p < q
    /\ \A i \in DOMAIN s : \A p \in DOMAIN t :
         Held(s[i], t) /\ Plain(s[i]) = Plain(t[p]) /\ p < Len(t)
           => \E j \in DOMAIN s : Held(s[j], t) /\ Plain(s[j]) = Plain(t[p + 1])

\* Alone with its conversation, a page at rest that did not act blindly shows what
\* the server holds, or its end when the history failed to load (send, retry,
\* settleFree, the re-read after a retry).  A question whose send failed with an error
\* status, or before the page had an id, stays among them.
AtRest == ~Busy /\ reads["load"].at = "off" /\ ~page.limited
AloneShowsServer ==
    (AtRest /\ page.known /\ conv = "open"
       /\ turns.others = {1} /\ ~Blind)
        => ShowsEnd(page.shown, thread)

\* The composer comes back, whatever is lost on the way, unless the re-read after a
\* retry never ends: then isLoading stays true (runTurn).
BusyEnds == Busy ~> (~Busy \/ []Rereading)
=============================================================================
