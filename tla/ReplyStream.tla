----------------------------- MODULE ReplyStream -----------------------------
(***************************************************************************)
(* What a reply is made of: the agent's tool loop (agent/harness.py, its    *)
(* tools in agent/tools.py), the task that collects what the loop yields    *)
(* (turns.py), the listener that relays it (chat_service.event_stream), and *)
(* the page that shows it (lib/chatApi.ts, hooks/useChat.ts).               *)
(*                                                                         *)
(* A step is what runs between two awaits: everything the loop yields in it *)
(* is in the buffer and in the queue when the next await begins.  `at` is   *)
(* where the task waits:                                                   *)
(*   "starting"   the task is created                                      *)
(*   "calling"    a model call streams                                     *)
(*   "running"    one of the call's tools runs                             *)
(*   "finishing"  the consumer is over, _finish saves or releases          *)
(*   "over"       the terminal marker is in the queue                      *)
(***************************************************************************)
EXTENDS Naturals, Sequences

CONSTANTS
    MAX_ITERS,
    TOOLS,        \* the tools that find sources, and those that do not
    Unknown,      \* a tool name the model made up
    Key,          \* passages: (document_id, chunk_idx)
    Distance,
    Pieces,       \* text deltas; Empty is the delta of length 0
    Empty,
    MaxDeltas,    \* bounds on the deltas and the tool calls of one model call
    MaxCalls,
    Batches,      \* bound on what one search finds
    Faults        \* a subset of {"model", "deadline", "drain", "save", "connection"}

ASSUME ItersAssumption == MAX_ITERS \in Nat \ {0}
ASSUME BoundsAssumption == MaxDeltas \in Nat /\ MaxCalls \in Nat
ASSUME NamesAssumption == Unknown \notin TOOLS /\ Empty \in Pieces
ASSUME SourcesAssumption == Batches \subseteq SUBSET [key : Key, distance : Distance]

VARIABLES
    at,
    schemas,      \* the tools the call offers the model
    iteration,    \* of the loop; MAX_ITERS in the fallback call
    emitted,      \* emitted_text, and its value before the call
    emittedBefore,
    deltas,       \* the call's deltas so far
    callText,     \* call_text
    calls,        \* the tools the call asked for
    results,      \* the results so far
    prompt,       \* messages, from the question on
    buffer,       \* the text and the sources the task would store
    sources,
    stopped,      \* Turn._stopped
    ended,        \* how the consumer ended: "answered", "cut" by a stop, "failed"
    queue,        \* the events on their way to the page
    stored,       \* what the conversation holds
    outcome,
    page

loopVars == <<schemas, iteration, emitted, emittedBefore, deltas, callText, calls, results, prompt>>
keptVars == <<buffer, sources>>
endVars == <<stopped, ended, stored, outcome>>
vars == <<at, loopVars, keptVars, endVars, queue, page>>

----------------------------------------------------------------------------
\* Text, sources, messages and events.

Separator == "separator"
Text == Seq((Pieces \ {Empty}) \cup {Separator})
Written(piece) == IF piece = Empty THEN <<>> ELSE <<piece>>

\* A text is blank when strip() leaves nothing of it.
Blank(text) == \A i \in 1 .. Len(text) : text[i] = Separator

\* Removes `tail` from the end of `text`, when it is there.
EndsIn(text, tail) ==
    /\ Len(tail) <= Len(text)
    /\ SubSeq(text, Len(text) - Len(tail) + 1, Len(text)) = tail
Withdrawn(text, tail) ==
    IF EndsIn(text, tail) THEN SubSeq(text, 1, Len(text) - Len(tail)) ELSE text

\* One passage a search found: the same passage may come again, at another
\* distance.  The first hit wins.
Source == [key : Key, distance : Distance]
Merged(known, batch) ==
    known \cup {source \in batch : \A hit \in known : hit.key # source.key}

\* A message of the prompt: the ids of the tool_use or tool_result blocks in it.
Message(role, uses, answers) == [role |-> role, uses |-> uses, results |-> answers]
Said(role) == Message(role, <<>>, <<>>)
Ids(n) == [i \in 1 .. n |-> i]

Event(kind, text, batch) == [kind |-> kind, text |-> text, sources |-> batch]
Content(text) == Event("content", text, {})
Retract(text) == Event("retract", text, {})
Status == Event("status", <<>>, {})
Sources(batch) == Event("sources", <<>>, batch)
Marker(verdict) == Event(verdict, <<>>, {})

NoReply == [there |-> FALSE, text |-> <<>>, sources |-> {}]
Reply(text, batch) == [there |-> TRUE, text |-> text, sources |-> batch]

\* A visitor's turn has no tools.
Init ==
    /\ at = "starting"
    /\ schemas \in {{}, TOOLS}
    /\ iteration = 0
    /\ emitted = FALSE /\ emittedBefore = FALSE
    /\ deltas = 0
    /\ callText = <<>>
    /\ calls = <<>> /\ results = <<>>
    /\ prompt = <<Said("user")>>
    /\ buffer = <<>> /\ sources = {}
    /\ stopped = FALSE
    /\ ended = "not"
    /\ queue = <<>>
    /\ stored = NoReply
    /\ outcome = "none"
    /\ page = [at |-> "reading", text |-> <<>>, sources |-> {}]

----------------------------------------------------------------------------
\* Turn._run and its consume().

Ends(how) == at' = "finishing" /\ ended' = how

\* A stop that comes before the stream starts keeps nothing.
Start ==
    /\ at = "starting"
    /\ \/ stopped /\ Ends("failed")
       \/ ~stopped /\ at' = "calling" /\ UNCHANGED ended
    /\ UNCHANGED <<loopVars, keptVars, stopped, stored, outcome, queue, page>>

\* The queue of a page that is gone is never read: its backlog is left out.
Sends(events) == queue' = IF page.at = "lost" THEN queue ELSE queue \o events

\* What the task does with the events of one step.
\* Mutant: the last hit wins.
KeepsLast(text, batch, events) ==
    /\ buffer' = text
    /\ sources' = Merged(batch, sources)
    /\ Sends(events)
Keeps(text, batch, events) ==
    /\ buffer' = text
    /\ sources' = Merged(sources, batch)
    /\ Sends(events)

----------------------------------------------------------------------------
\* stream_completion_agentic: one model call.

Offered == schemas # {}

\* The first delta of a call that follows text is preceded by a separator.
Lead == IF deltas = 0 /\ emitted THEN <<Separator>> ELSE <<>>
Delta(piece) ==
    /\ at = "calling"
    /\ deltas < MaxDeltas
    /\ deltas' = deltas + 1
    /\ emitted' = TRUE
    /\ LET text == Written(piece)
       IN  /\ callText' = callText \o Lead \o text
           /\ Keeps(buffer \o Lead \o text, {},
                    (IF Lead = <<>> THEN <<>> ELSE <<Content(Lead)>>) \o <<Content(text)>>)
    /\ UNCHANGED <<at, schemas, iteration, emittedBefore, calls, results, prompt, endVars, page>>

\* Any stop_reason but "tool_use": the answer has streamed.
Answer ==
    /\ at = "calling"
    /\ Ends("answered")
    /\ UNCHANGED <<loopVars, keptVars, stopped, stored, outcome, queue, page>>

\* The call asked for tools: its text was narration.
\* Mutant: without the separator that led it.
NarrationOnly == IF callText # <<>> /\ callText[1] = Separator THEN Tail(callText) ELSE callText
Narration == callText

AsksTools(asked) ==
    /\ at = "calling" /\ Offered
    /\ Keeps(Withdrawn(buffer, Narration), {},
             (IF Narration = <<>> THEN <<>> ELSE <<Retract(Narration)>>) \o <<Status>>)
    /\ emitted' = IF Narration = <<>> THEN emitted ELSE emittedBefore
    /\ prompt' = Append(prompt, Message("assistant", Ids(Len(asked)), <<>>))
    /\ calls' = asked /\ results' = <<>>
    /\ at' = "running"
    /\ UNCHANGED <<schemas, iteration, emittedBefore, deltas, callText, endVars, page>>

----------------------------------------------------------------------------
\* _run_tool, the tool's result, and the call that reads the results.

Tool == calls[Len(results) + 1]
MoreTools == Len(results) + 1 < Len(calls)

\* The next call starts with nothing streamed; after the last iteration it
\* offers no tools.
\* Mutant: one iteration too many.
NextCallLate(answers) ==
    /\ at' = "calling"
    /\ deltas' = 0 /\ callText' = <<>>
    /\ calls' = <<>> /\ results' = <<>>
    /\ emittedBefore' = emitted
    /\ iteration' = iteration + 1
    /\ LET limit == iteration = MAX_ITERS
       IN  /\ schemas' = IF limit THEN {} ELSE schemas
           /\ prompt' = prompt \o <<Message("user", <<>>, answers)>>
                               \o IF limit THEN <<Said("user")>> ELSE <<>>
NextCall(answers) ==
    /\ at' = "calling"
    /\ deltas' = 0 /\ callText' = <<>>
    /\ calls' = <<>> /\ results' = <<>>
    /\ emittedBefore' = emitted
    /\ iteration' = iteration + 1
    /\ LET limit == iteration + 1 = MAX_ITERS
       IN  /\ schemas' = IF limit THEN {} ELSE schemas
           /\ prompt' = prompt \o <<Message("user", <<>>, answers)>>
                               \o IF limit THEN <<Said("user")>> ELSE <<>>

\* A result goes to the model, its sources only to the task and the page.
\* Mutant: a call that failed is not answered.
ResultIfAny(failed) == IF failed THEN results ELSE Append(results, Len(results) + 1)
Result(failed) == Append(results, Len(results) + 1)

Gives(failed, batch) ==
    LET found == IF batch = {} THEN <<>> ELSE <<Sources(batch)>>
        limit == ~MoreTools /\ iteration + 1 = MAX_ITERS
    IN  /\ at = "running"
        /\ Keeps(buffer, batch, found \o IF MoreTools \/ limit THEN <<Status>> ELSE <<>>)
        /\ \/ /\ MoreTools
              /\ results' = Result(failed)
              /\ UNCHANGED <<at, deltas, callText, calls, emittedBefore, iteration, schemas, prompt>>
           \/ ~MoreTools /\ NextCall(Result(failed))
        /\ UNCHANGED <<emitted, endVars, page>>

\* search_documents found these passages, or a tool had nothing for the user.
ToolReturns(batch) ==
    /\ at = "running" /\ Tool # Unknown
    /\ Gives(FALSE, batch)

\* A made-up name, arguments that do not validate, an executor that raises.
ToolFails == Gives(TRUE, {})

----------------------------------------------------------------------------
\* How the stream ends, other than by an answer.

\* The consumer is cancelled at its await; a stop after it is done has no
\* effect, and is left out.
Stop ==
    /\ ~stopped
    /\ stopped' = TRUE
    /\ \/ at = "starting" /\ UNCHANGED <<at, ended>>
       \/ at \in {"calling", "running"} /\ Ends("cut")
    /\ UNCHANGED <<loopVars, keptVars, stored, outcome, queue, page>>

\* The model call raises; the deadline or a drain cancels the task itself.
StreamFails ==
    /\ \/ "model" \in Faults /\ at = "calling"
       \/ Faults \cap {"deadline", "drain"} # {} /\ at \in {"calling", "running"}
    /\ Ends("failed")
    /\ UNCHANGED <<loopVars, keptVars, stopped, stored, outcome, queue, page>>

Completed == ended \in {"answered", "cut"} /\ ~Blank(buffer)

\* Mutant: the marker only for a reply that is stored.
MarksDone(verdict) ==
    /\ at' = "over"
    /\ outcome' = verdict
    /\ Sends(IF verdict = "done" THEN <<Marker(verdict)>> ELSE <<>>)
Marks(verdict) ==
    /\ at' = "over"
    /\ outcome' = verdict
    /\ Sends(<<Marker(verdict)>>)

\* The save, then the marker.  A save may fail, find its claim gone, or commit
\* and lose the answer.
Finish ==
    /\ at = "finishing"
    /\ \/ Completed /\ stored' = Reply(buffer, sources) /\ Marks("done")
       \/ ~Completed /\ UNCHANGED stored /\ Marks("failed")
       \/ /\ "save" \in Faults /\ Completed
          /\ stored' \in {stored, Reply(buffer, sources)}
          /\ Marks("failed")
    /\ UNCHANGED <<loopVars, keptVars, stopped, ended, page>>

----------------------------------------------------------------------------
\* event_stream to readReplyStream, in order; the page applies each event.

Applied(view, event) ==
    [text |-> CASE event.kind = "content" -> view.text \o event.text
                [] event.kind = "retract" -> Withdrawn(view.text, event.text)
                [] OTHER -> view.text,
     sources |-> Merged(view.sources, event.sources)]
Page(state, view) == [at |-> state, text |-> view.text, sources |-> view.sources]
Nothing == [text |-> <<>>, sources |-> {}]

PageReads ==
    /\ page.at = "reading" /\ queue # <<>>
    /\ queue' = Tail(queue)
    /\ LET event == Head(queue)
       IN  page' = CASE event.kind = "done" -> Page("done", page)
                     [] event.kind = "failed" -> Page("failed", Nothing)
                     [] OTHER -> Page("reading", Applied(page, event))
    /\ UNCHANGED <<at, loopVars, keptVars, endVars>>

\* The connection is lost, or silent for too long; the turn carries on unread.
PageLoses ==
    /\ "connection" \in Faults
    /\ page.at = "reading"
    /\ page' = Page("lost", Nothing)
    /\ queue' = <<>>
    /\ UNCHANGED <<at, loopVars, keptVars, endVars>>

\* The task is over, and the page has its marker or gave up.
Rests ==
    /\ at = "over" /\ page.at # "reading"
    /\ UNCHANGED vars

----------------------------------------------------------------------------
Asked == UNION {[1 .. n -> TOOLS \cup {Unknown}] : n \in 1 .. MaxCalls}

Model ==
    \/ \E piece \in Pieces : Delta(piece)
    \/ Answer
    \/ \E asked \in Asked : AsksTools(asked)
Tools ==
    \/ \E batch \in Batches : ToolReturns(batch)
    \/ ToolFails

Next == Start \/ Model \/ Tools \/ Stop \/ StreamFails \/ Finish \/ PageReads \/ PageLoses \/ Rests

Spec == Init /\ [][Next]_vars

\* A call and a tool end, or the deadline ends them; the event loop runs what
\* is ready; the page reads what arrives.
Fairness ==
    /\ WF_vars(Start) /\ WF_vars(Model) /\ WF_vars(Tools)
    /\ WF_vars(Finish) /\ WF_vars(PageReads)
FairSpec == Spec /\ Fairness

----------------------------------------------------------------------------
\* Properties.

EventKinds == {"content", "retract", "status", "sources", "done", "failed"}
Events == [kind : EventKinds, text : Text, sources : SUBSET Source]
Messages == [role : {"user", "assistant"}, uses : Seq(Nat), results : Seq(Nat)]
Replies == [there : BOOLEAN, text : Text, sources : SUBSET Source]
Pages == [at : {"reading", "done", "failed", "lost"}, text : Text, sources : SUBSET Source]

TypeOK ==
    /\ at \in {"starting", "calling", "running", "finishing", "over"}
    /\ schemas \in {{}, TOOLS}
    /\ iteration \in 0 .. MAX_ITERS
    /\ emitted \in BOOLEAN /\ emittedBefore \in BOOLEAN
    /\ deltas \in Nat
    /\ callText \in Text
    /\ calls \in Seq(TOOLS \cup {Unknown}) /\ results \in Seq(Nat)
    /\ prompt \in Seq(Messages)
    /\ buffer \in Text /\ sources \in SUBSET Source
    /\ stopped \in BOOLEAN
    /\ ended \in {"not", "answered", "cut", "failed"}
    /\ queue \in Seq(Events)
    /\ stored \in Replies
    /\ outcome \in {"none", "done", "failed"}
    /\ page \in Pages

\* harness.py:5-10: only answers are stored. Whatever was streamed, withdrawn
\* and separated in the calls before, an answered turn keeps exactly what its
\* last call streamed; and so does a stored reply, which a stop cut short or
\* the iteration limit forced.
StoredIsLastCall ==
    /\ ended = "answered" => buffer = callText
    /\ stored.there => stored.text = callText

\* turns.py:99-101, useChat.ts:414-431: the page and the task apply the same
\* events to texts of their own. When the page is told the reply is done, it
\* shows the text and the sources the conversation holds.
PageShowsWhatIsStored ==
    page.at = "done" => stored = Reply(page.text, page.sources)

\* What the model API asks of every prompt (harness.py:209, 248-255): each
\* tool_use has its tool_result in the message that follows, whether the tool
\* worked or not, and the model is called on the user's turn.
ToolCallsAreAnswered ==
    /\ \A i \in 1 .. Len(prompt) - 1 : prompt[i].uses # <<>> => prompt[i + 1].results = prompt[i].uses
    /\ at = "calling" => prompt[Len(prompt)].role = "user"

\* chat_service.py:247-251: every reply ends with one marker, which the page
\* reads or has given up on; the model cannot ask for tools for ever.
RepliesEnd == <>(at = "over" /\ page.at # "reading")

=============================================================================
