-------------------------- MODULE ReplyStreamProofs --------------------------
(* Proofs about ReplyStream, for all tools, texts, searches and limits.       *)
EXTENDS ReplyStream, SequenceTheorems, TLAPS

----------------------------------------------------------------------------
\* Texts.

LEMMA WithdrawnType ==
  ASSUME NEW text \in Text, NEW tail \in Text
  PROVE Withdrawn(text, tail) \in Text
  <1>1. CASE EndsIn(text, tail)
    <2>1. Len(text) - Len(tail) \in 0 .. Len(text)
      BY <1>1 DEF EndsIn, Text
    <2>2. SubSeq(text, 1, Len(text) - Len(tail)) \in Text
      BY <2>1 DEF Text
    <2> QED
      BY <1>1, <2>2 DEF Withdrawn
  <1>2. CASE ~EndsIn(text, tail)
    BY <1>2 DEF Withdrawn
  <1> QED
    BY <1>1, <1>2

\* A text withdrawn from itself leaves nothing.
LEMMA WithdrawnAll ==
  ASSUME NEW text \in Text
  PROVE Withdrawn(text, text) = <<>>
  <1>1. SubSeq(text, 1, Len(text)) = text
    BY DEF Text
  <1>2. SubSeq(text, 1, 0) = <<>>
    BY DEF Text
  <1> QED
    BY <1>1, <1>2 DEF Withdrawn, EndsIn, Text

LEMMA MergedNothing ==
  ASSUME NEW known
  PROVE Merged(known, {}) = known
  BY DEF Merged

LEMMA MergedType ==
  ASSUME NEW known \in SUBSET Source, NEW batch \in SUBSET Source
  PROVE Merged(known, batch) \in SUBSET Source
  BY DEF Merged

----------------------------------------------------------------------------
\* What the page is behind by.

View == [text : Text, sources : SUBSET Source]
Kinds == {"content", "retract", "status", "sources"}

\* Applying the events of `q` to `from`, one by one, ends in `to`.
Relay(from, q, to) ==
    \E w \in [1 .. Len(q) + 1 -> View] :
        /\ w[1] = from /\ w[Len(q) + 1] = to
        /\ \A i \in 1 .. Len(q) : q[i].kind \in Kinds /\ w[i + 1] = Applied(w[i], q[i])

LEMMA AppliedType ==
  ASSUME NEW view \in View, NEW event \in Events
  PROVE Applied(view, event) \in View
  <1>1. view.text \o event.text \in Text
    BY DEF View, Events, Text
  <1>2. Withdrawn(view.text, event.text) \in Text
    BY WithdrawnType DEF View, Events
  <1>3. Merged(view.sources, event.sources) \in SUBSET Source
    BY MergedType DEF View, Events
  <1>4. Applied(view, event).text \in Text
    <2>1. CASE event.kind = "content"
      BY <1>1, <2>1 DEF Applied
    <2>2. CASE event.kind = "retract"
      BY <1>2, <2>2 DEF Applied
    <2>3. CASE event.kind \notin {"content", "retract"}
      BY <2>3 DEF Applied, View
    <2> QED
      BY <2>1, <2>2, <2>3
  <1> QED
    BY <1>3, <1>4 DEF Applied, View

LEMMA RelayNone ==
  ASSUME NEW view \in View
  PROVE Relay(view, <<>>, view)
  <1> DEFINE w == [i \in 1 .. 1 |-> view]
  <1>1. w \in [1 .. Len(<<>>) + 1 -> View] /\ w[1] = view /\ w[Len(<<>>) + 1] = view
    OBVIOUS
  <1>2. \A i \in 1 .. Len(<<>>) : FALSE
    OBVIOUS
  <1> HIDE DEF w
  <1> QED
    BY <1>1, <1>2 DEF Relay

LEMMA RelayMore ==
  ASSUME NEW from, NEW to \in View, NEW q \in Seq(Events), NEW event \in Events,
         event.kind \in Kinds, Relay(from, q, to)
  PROVE Relay(from, Append(q, event), Applied(to, event))
  <1>1. PICK w \in [1 .. Len(q) + 1 -> View] :
            /\ w[1] = from /\ w[Len(q) + 1] = to
            /\ \A i \in 1 .. Len(q) : q[i].kind \in Kinds /\ w[i + 1] = Applied(w[i], q[i])
    BY DEF Relay
  <1> DEFINE r == Append(q, event)
             v == [i \in 1 .. Len(r) + 1 |-> IF i <= Len(q) + 1 THEN w[i] ELSE Applied(to, event)]
  <1>2. Len(r) = Len(q) + 1 /\ r[Len(q) + 1] = event /\ \A i \in 1 .. Len(q) : r[i] = q[i]
    OBVIOUS
  <1>3. Applied(to, event) \in View
    BY AppliedType
  <1>4. v \in [1 .. Len(r) + 1 -> View]
    BY <1>1, <1>2, <1>3
  <1>5. v[1] = from /\ v[Len(r) + 1] = Applied(to, event)
    BY <1>1, <1>2
  <1>6. ASSUME NEW i \in 1 .. Len(r) PROVE r[i].kind \in Kinds /\ v[i + 1] = Applied(v[i], r[i])
    <2>1. CASE i <= Len(q)
      BY <1>1, <1>2, <2>1
    <2>2. CASE i = Len(q) + 1
      BY <1>1, <1>2, <2>2
    <2> QED
      BY <1>2, <2>1, <2>2
  <1> HIDE DEF v
  <1> QED
    BY <1>4, <1>5, <1>6 DEF Relay

LEMMA RelayHead ==
  ASSUME NEW from, NEW to, NEW q \in Seq(Events), q # <<>>, Relay(from, q, to)
  PROVE /\ Head(q).kind \in Kinds
        /\ Relay(Applied(from, Head(q)), Tail(q), to)
  <1>1. PICK w \in [1 .. Len(q) + 1 -> View] :
            /\ w[1] = from /\ w[Len(q) + 1] = to
            /\ \A i \in 1 .. Len(q) : q[i].kind \in Kinds /\ w[i + 1] = Applied(w[i], q[i])
    BY DEF Relay
  <1> DEFINE r == Tail(q)
             v == [i \in 1 .. Len(r) + 1 |-> w[i + 1]]
  <1>2. Len(q) > 0 /\ Head(q) = q[1] /\ Len(r) = Len(q) - 1 /\ \A i \in 1 .. Len(r) : r[i] = q[i + 1]
    OBVIOUS
  <1>3. v \in [1 .. Len(r) + 1 -> View]
    BY <1>1, <1>2
  <1>4. v[1] = Applied(from, Head(q)) /\ v[Len(r) + 1] = to
    <2>1. 1 \in 1 .. Len(q) /\ 1 \in 1 .. Len(r) + 1 /\ Len(r) + 1 \in 1 .. Len(r) + 1
      BY <1>2
    <2>2. v[1] = w[1 + 1] /\ v[Len(r) + 1] = w[Len(q) + 1]
      BY <1>2, <2>1
    <2> QED
      BY <1>1, <1>2, <2>1, <2>2
  <1>5. ASSUME NEW i \in 1 .. Len(r) PROVE r[i].kind \in Kinds /\ v[i + 1] = Applied(v[i], r[i])
    BY <1>1, <1>2
  <1>6. Head(q).kind \in Kinds
    BY <1>1, <1>2
  <1> HIDE DEF v
  <1> QED
    BY <1>3, <1>4, <1>5, <1>6 DEF Relay

\* A page that has read everything shows what the task has.
LEMMA RelayOver ==
  ASSUME NEW from, NEW to, Relay(from, <<>>, to)
  PROVE from = to
  BY DEF Relay

----------------------------------------------------------------------------
\* Types.

LEMMA TypeInit == Init => TypeOK
  <1> SUFFICES ASSUME Init PROVE TypeOK
    OBVIOUS
  <1>1. <<>> \in Text /\ <<>> \in Seq(TOOLS \cup {Unknown}) /\ <<>> \in Seq(Nat) /\ <<>> \in Seq(Events)
    BY DEF Text
  <1>2. Said("user") \in Messages
    BY DEF Said, Message, Messages
  <1>3. prompt \in Seq(Messages)
    BY <1>2 DEF Init
  <1>4. stored \in Replies /\ page \in Pages
    BY <1>1 DEF Init, NoReply, Replies, Pages
  <1>5. iteration \in 0 .. MAX_ITERS
    BY ItersAssumption DEF Init
  <1> QED
    BY <1>1, <1>3, <1>4, <1>5 DEF Init, TypeOK

LEMMA EventTypes ==
  ASSUME NEW text \in Text, NEW batch \in SUBSET Source
  PROVE /\ Content(text) \in Events /\ Retract(text) \in Events /\ Status \in Events
        /\ Sources(batch) \in Events /\ Marker("done") \in Events /\ Marker("failed") \in Events
  <1>1. <<>> \in Text
    BY DEF Text
  <1> QED
    BY <1>1 DEF Content, Retract, Status, Sources, Marker, Event, Events, EventKinds

LEMMA SendsType ==
  ASSUME TypeOK, NEW events \in Seq(Events), Sends(events)
  PROVE queue' \in Seq(Events)
  BY DEF TypeOK, Sends

LEMMA KeepsType ==
  ASSUME TypeOK, NEW text \in Text, NEW batch \in SUBSET Source, NEW events \in Seq(Events),
         Keeps(text, batch, events)
  PROVE buffer' \in Text /\ sources' \in SUBSET Source /\ queue' \in Seq(Events)
  BY SendsType, MergedType DEF TypeOK, Keeps

LEMMA DeltaTexts ==
  ASSUME NEW piece \in Pieces
  PROVE Lead \in Text /\ Written(piece) \in Text
  <1> DEFINE S == (Pieces \ {Empty}) \cup {Separator}
  <1>1. Separator \in S /\ (piece # Empty => piece \in S)
    OBVIOUS
  <1> HIDE DEF S
  <1>2. <<>> \in Seq(S) /\ <<Separator>> \in Seq(S) /\ (piece # Empty => <<piece>> \in Seq(S))
    BY <1>1
  <1>3. Text = Seq(S)
    BY DEF Text, S
  <1> QED
    BY <1>2, <1>3 DEF Lead, Written

LEMMA TypeDelta ==
  ASSUME TypeOK, NEW piece \in Pieces, Delta(piece)
  PROVE TypeOK'
  <1> DEFINE text == Written(piece)
  <1>1. Lead \in Text /\ text \in Text
    BY DeltaTexts
  <1>2. buffer \o Lead \o text \in Text /\ callText \o Lead \o text \in Text
    BY <1>1 DEF TypeOK, Text
  <1> DEFINE events == (IF Lead = <<>> THEN <<>> ELSE <<Content(Lead)>>) \o <<Content(text)>>
  <1>3. events \in Seq(Events)
    BY <1>1, EventTypes
  <1>4. Keeps(buffer \o Lead \o text, {}, events) /\ callText' = callText \o Lead \o text
    BY DEF Delta
  <1> HIDE DEF events
  <1>5. buffer' \in Text /\ sources' \in SUBSET Source /\ queue' \in Seq(Events)
    BY <1>2, <1>3, <1>4, KeepsType
  <1> QED
    BY <1>2, <1>4, <1>5 DEF Delta, TypeOK, endVars

LEMMA TypeAsks ==
  ASSUME TypeOK, NEW asked \in Asked, AsksTools(asked)
  PROVE TypeOK'
  <1>1. Withdrawn(buffer, Narration) \in Text /\ Narration \in Text
    BY WithdrawnType DEF TypeOK, Narration
  <1> DEFINE events == (IF Narration = <<>> THEN <<>> ELSE <<Retract(Narration)>>) \o <<Status>>
  <1>2. Retract(Narration) \in Events /\ Status \in Events
    BY <1>1, EventTypes DEF TypeOK
  <1>3. events \in Seq(Events)
    BY <1>2
  <1>4. Keeps(Withdrawn(buffer, Narration), {}, events)
    BY DEF AsksTools
  <1> HIDE DEF events
  <1>5. buffer' \in Text /\ sources' \in SUBSET Source /\ queue' \in Seq(Events)
    BY <1>1, <1>3, <1>4, KeepsType
  <1>6. asked \in Seq(TOOLS \cup {Unknown}) /\ Len(asked) \in Nat
    BY BoundsAssumption DEF Asked
  <1>7. Message("assistant", Ids(Len(asked)), <<>>) \in Messages
    BY <1>6 DEF Message, Messages, Ids
  <1>8. prompt' \in Seq(Messages)
    BY <1>7 DEF AsksTools, TypeOK
  <1> QED
    BY <1>5, <1>6, <1>8 DEF AsksTools, TypeOK, endVars

\* The iteration limit, and the tools an asking call was offered.
Limited ==
    /\ iteration = MAX_ITERS => schemas = {}
    /\ at = "running" => schemas # {} /\ Len(results) < Len(calls)

LEMMA TypeGives ==
  ASSUME TypeOK, Limited, NEW failed, NEW batch \in SUBSET Source, Gives(failed, batch)
  PROVE TypeOK'
  <1> DEFINE found == IF batch = {} THEN <<>> ELSE <<Sources(batch)>>
             limit == ~MoreTools /\ iteration + 1 = MAX_ITERS
             events == found \o IF MoreTools \/ limit THEN <<Status>> ELSE <<>>
  <1>1. <<>> \in Text
    BY DEF Text
  <1>2. Sources(batch) \in Events /\ Status \in Events
    BY <1>1, EventTypes
  <1>3. events \in Seq(Events)
    BY <1>2
  <1>4. Keeps(buffer, batch, events) /\ at = "running"
    BY DEF Gives
  <1> HIDE DEF events
  <1>5. buffer' \in Text /\ sources' \in SUBSET Source /\ queue' \in Seq(Events)
    BY <1>3, <1>4, KeepsType DEF TypeOK
  <1>6. Result(failed) \in Seq(Nat)
    BY DEF Result, TypeOK
  <1>7. CASE MoreTools /\ results' = Result(failed)
             /\ UNCHANGED <<at, deltas, callText, calls, emittedBefore, iteration, schemas, prompt>>
    BY <1>5, <1>6, <1>7 DEF Gives, TypeOK, endVars
  <1>8. CASE NextCall(Result(failed))
    <2>1. Message("user", <<>>, Result(failed)) \in Messages /\ Said("user") \in Messages
      BY <1>6 DEF Message, Messages, Said
    <2>2. prompt' \in Seq(Messages)
      BY <1>8, <2>1 DEF NextCall, TypeOK
    <2>3. iteration' \in 0 .. MAX_ITERS
      BY <1>4, <1>8, ItersAssumption DEF NextCall, TypeOK, Limited
    <2>4. schemas' \in {{}, TOOLS}
      BY <1>8 DEF NextCall, TypeOK
    <2>5. <<>> \in Seq(TOOLS \cup {Unknown}) /\ <<>> \in Seq(Nat)
      OBVIOUS
    <2> QED
      BY <1>1, <1>5, <1>8, <2>2, <2>3, <2>4, <2>5 DEF Gives, NextCall, TypeOK, endVars
  <1> QED
    BY <1>7, <1>8 DEF Gives

LEMMA TypeFinish ==
  ASSUME TypeOK, Finish
  PROVE TypeOK'
  <1>1. ASSUME NEW verdict \in {"done", "failed"}, Marks(verdict)
        PROVE queue' \in Seq(Events) /\ outcome' = verdict /\ at' = "over"
    <2>1. <<>> \in Text
      BY DEF Text
    <2>2. Marker(verdict) \in Events
      BY <1>1, <2>1, EventTypes
    <2>3. <<Marker(verdict)>> \in Seq(Events)
      BY <2>2
    <2> QED
      BY <1>1, <2>3, SendsType DEF Marks
  <1>2. Reply(buffer, sources) \in Replies
    BY DEF Reply, Replies, TypeOK
  <1>3. stored' \in Replies
    BY <1>2 DEF Finish, TypeOK
  <1>4. \E verdict \in {"done", "failed"} : Marks(verdict)
    BY DEF Finish
  <1> QED
    BY <1>1, <1>3, <1>4 DEF Finish, TypeOK, loopVars, keptVars

LEMMA TypePage ==
  ASSUME TypeOK, PageReads \/ PageLoses
  PROVE TypeOK'
  <1>1. <<>> \in Text /\ <<>> \in Seq(Events)
    BY DEF Text
  <1>2. CASE PageLoses
    <2>1. page' \in Pages
      BY <1>1, <1>2 DEF PageLoses, Page, Nothing, Pages
    <2> QED
      BY <1>1, <1>2, <2>1 DEF PageLoses, TypeOK, loopVars, keptVars, endVars
  <1>3. CASE PageReads
    <2>1. Head(queue) \in Events /\ queue' \in Seq(Events)
      BY <1>3 DEF PageReads, TypeOK
    <2>2. [text |-> page.text, sources |-> page.sources] \in View
      BY DEF TypeOK, Pages, View
    <2>3. Applied(page, Head(queue)) = Applied([text |-> page.text, sources |-> page.sources], Head(queue))
      BY DEF Applied
    <2>4. Applied(page, Head(queue)) \in View
      BY <2>1, <2>2, <2>3, AppliedType
    <2>5. Page("reading", Applied(page, Head(queue))) \in Pages
      BY <2>4 DEF Page, View, Pages
    <2>6. Page("done", page) \in Pages /\ Page("failed", Nothing) \in Pages
      BY <1>1 DEF Page, Nothing, Pages, TypeOK
    <2>7. page' \in Pages
      <3>1. CASE Head(queue).kind = "done"
        BY <1>3, <2>6, <3>1 DEF PageReads
      <3>2. CASE Head(queue).kind = "failed"
        BY <1>3, <2>6, <3>2 DEF PageReads
      <3>3. CASE Head(queue).kind \notin {"done", "failed"}
        BY <1>3, <2>5, <3>3 DEF PageReads
      <3> QED
        BY <3>1, <3>2, <3>3
    <2> QED
      BY <1>3, <2>1, <2>7 DEF PageReads, TypeOK, loopVars, keptVars, endVars
  <1> QED
    BY <1>2, <1>3

LEMMA TypeStep ==
  ASSUME TypeOK, Limited, [Next]_vars
  PROVE TypeOK'
  <1>1. CASE Start \/ Answer \/ Stop \/ StreamFails
    BY <1>1 DEF Start, Answer, Stop, StreamFails, Ends, TypeOK, loopVars, keptVars
  <1>2. ASSUME NEW batch \in Batches, ToolReturns(batch) PROVE TypeOK'
    BY <1>2, TypeGives, SourcesAssumption DEF ToolReturns, Source
  <1>3. CASE ToolFails
    BY <1>3, TypeGives DEF ToolFails
  <1>4. CASE Rests \/ UNCHANGED vars
    BY <1>4 DEF Rests, vars, loopVars, keptVars, endVars, TypeOK
  <1> QED
    BY <1>1, <1>2, <1>3, <1>4, TypeDelta, TypeAsks, TypeFinish, TypePage DEF Next, Model, Tools

LEMMA LimitedStep ==
  ASSUME TypeOK, Limited, [Next]_vars
  PROVE Limited'
  <1>1. CASE Start \/ Answer \/ Stop \/ StreamFails
    BY <1>1 DEF Start, Answer, Stop, StreamFails, Ends, Limited, loopVars
  <1>2. ASSUME NEW piece \in Pieces, Delta(piece) PROVE Limited'
    BY <1>2 DEF Delta, Limited
  <1>3. ASSUME NEW asked \in Asked, AsksTools(asked) PROVE Limited'
    <2>1. Len(asked) > 0
      BY BoundsAssumption DEF Asked
    <2> QED
      BY <1>3, <2>1 DEF AsksTools, Offered, Limited
  <1>4. ASSUME NEW failed, NEW batch, Gives(failed, batch) PROVE Limited'
    <2>1. CASE MoreTools /\ results' = Result(failed)
               /\ UNCHANGED <<at, deltas, callText, calls, emittedBefore, iteration, schemas, prompt>>
      BY <2>1 DEF MoreTools, Result, Limited, TypeOK
    <2>2. CASE NextCall(Result(failed))
      BY <2>2 DEF NextCall, Limited
    <2> QED
      BY <1>4, <2>1, <2>2 DEF Gives
  <1>5. CASE Finish \/ PageReads \/ PageLoses \/ Rests \/ UNCHANGED vars
    BY <1>5 DEF Finish, Marks, PageReads, PageLoses, Rests, vars, loopVars, Limited
  <1> QED
    BY <1>1, <1>2, <1>3, <1>4, <1>5 DEF Next, Model, Tools, ToolReturns, ToolFails

\* Type correctness of ReplyStream.
THEOREM TypeCorrect == Spec => []TypeOK
  <1>1. Init => TypeOK /\ Limited
    BY TypeInit, ItersAssumption DEF Init, Limited
  <1>2. TypeOK /\ Limited /\ [Next]_vars => (TypeOK /\ Limited)'
    BY TypeStep, LimitedStep
  <1> QED
    BY <1>1, <1>2, PTL DEF Spec

----------------------------------------------------------------------------
\* The stored text.

\* Outside a call nothing is left in the buffer, and in a call only its text.
Kept ==
    /\ at = "starting" => buffer = <<>> /\ callText = <<>>
    /\ at = "calling" => buffer = callText
    /\ at = "running" => buffer = <<>>
    /\ at \in {"starting", "calling", "running"} => ended = "not"
    /\ at # "over" => ~stored.there
    /\ ended = "answered" => buffer = callText
    /\ ended = "cut" => buffer = callText \/ buffer = <<>>
    /\ stored.there => stored.text = callText

LEMMA KeptStep ==
  ASSUME TypeOK, Kept, [Next]_vars
  PROVE Kept'
  <1>1. CASE Start \/ Answer \/ Stop \/ StreamFails
    BY <1>1 DEF Start, Answer, Stop, StreamFails, Ends, Kept, loopVars, keptVars
  <1>2. ASSUME NEW piece \in Pieces, Delta(piece) PROVE Kept'
    <2>1. buffer' = buffer \o Lead \o Written(piece) /\ callText' = callText \o Lead \o Written(piece)
      BY <1>2 DEF Delta, Keeps
    <2> QED
      BY <1>2, <2>1 DEF Delta, Kept, endVars
  <1>3. ASSUME NEW asked \in Asked, AsksTools(asked) PROVE Kept'
    <2>1. buffer' = <<>>
      BY <1>3, WithdrawnAll DEF AsksTools, Keeps, Narration, Kept, TypeOK
    <2> QED
      BY <1>3, <2>1 DEF AsksTools, Kept, endVars
  <1>4. ASSUME NEW failed, NEW batch, Gives(failed, batch) PROVE Kept'
    <2>1. buffer' = buffer /\ at = "running"
      BY <1>4 DEF Gives, Keeps
    <2>2. \/ at' = "running"
          \/ at' = "calling" /\ callText' = <<>>
      <3>1. CASE MoreTools /\ results' = Result(failed)
                 /\ UNCHANGED <<at, deltas, callText, calls, emittedBefore, iteration, schemas, prompt>>
        BY <2>1, <3>1
      <3>2. CASE NextCall(Result(failed))
        BY <3>2 DEF NextCall
      <3> QED
        BY <1>4, <3>1, <3>2 DEF Gives
    <2> QED
      BY <1>4, <2>1, <2>2 DEF Gives, Kept, endVars
  <1>5. CASE Finish
    <2>1. at = "finishing" /\ at' = "over" /\ UNCHANGED <<buffer, callText, ended>>
      BY <1>5 DEF Finish, Marks, loopVars, keptVars
    <2>2. Completed => buffer = callText
      <3>1. Blank(<<>>)
        BY DEF Blank
      <3> QED
        BY <3>1 DEF Completed, Kept
    <2>3. \/ stored' = stored
          \/ Completed /\ stored' = Reply(buffer, sources)
      BY <1>5 DEF Finish
    <2> QED
      BY <2>1, <2>2, <2>3 DEF Kept, Reply
  <1>6. CASE PageReads \/ PageLoses \/ Rests \/ UNCHANGED vars
    BY <1>6 DEF PageReads, PageLoses, Rests, vars, loopVars, keptVars, endVars, Kept
  <1> QED
    BY <1>1, <1>2, <1>3, <1>4, <1>5, <1>6 DEF Next, Model, Tools, ToolReturns, ToolFails

\* What is stored is what the last call streamed.
THEOREM LastCallIsStored == Spec => []StoredIsLastCall
  <1>1. Init => Kept
    BY DEF Init, Kept, NoReply
  <1>2. TypeOK /\ Kept /\ [Next]_vars => Kept'
    BY KeptStep
  <1>3. Kept => StoredIsLastCall
    BY DEF Kept, StoredIsLastCall
  <1> QED
    BY <1>1, <1>2, <1>3, TypeCorrect, PTL DEF Spec

----------------------------------------------------------------------------
\* The prompt.

Pairs == \A i \in 1 .. Len(prompt) - 1 : prompt[i].uses # <<>> => prompt[i + 1].results = prompt[i].uses

\* While tools run the prompt ends with the message that asked for them.
Answering ==
    /\ Len(prompt) > 0
    /\ Pairs
    /\ at \in {"starting", "calling"} => prompt[Len(prompt)].role = "user" /\ prompt[Len(prompt)].uses = <<>>
    /\ at = "running" => /\ prompt[Len(prompt)].uses = Ids(Len(calls))
                         /\ results = Ids(Len(results))
                         /\ Len(results) < Len(calls)

LEMMA AnsweringStep ==
  ASSUME TypeOK, Answering, [Next]_vars
  PROVE Answering'
  <1>0. prompt \in Seq(Messages) /\ results \in Seq(Nat) /\ calls \in Seq(TOOLS \cup {Unknown})
    BY DEF TypeOK
  <1>1. CASE Start \/ Answer \/ Stop \/ StreamFails
    BY <1>1 DEF Start, Answer, Stop, StreamFails, Ends, Answering, Pairs, loopVars
  <1>2. ASSUME NEW piece \in Pieces, Delta(piece) PROVE Answering'
    BY <1>2 DEF Delta, Answering, Pairs
  <1>3. ASSUME NEW asked \in Asked, AsksTools(asked) PROVE Answering'
    <2> DEFINE m == Message("assistant", Ids(Len(asked)), <<>>)
    <2>1. prompt' = Append(prompt, m) /\ at = "calling" /\ at' = "running" /\ calls' = asked /\ results' = <<>>
      BY <1>3 DEF AsksTools
    <2>2. m.uses = Ids(Len(asked)) /\ Len(asked) > 0
      BY BoundsAssumption DEF Message, Asked
    <2> HIDE DEF m
    <2>3. /\ Len(prompt') = Len(prompt) + 1 /\ prompt'[Len(prompt')] = m
          /\ \A i \in 1 .. Len(prompt) : prompt'[i] = prompt[i]
      BY <1>0, <2>1
    <2>4. ASSUME NEW i \in 1 .. Len(prompt') - 1, prompt'[i].uses # <<>>
          PROVE prompt'[i + 1].results = prompt'[i].uses
      BY <1>0, <2>1, <2>3, <2>4 DEF Answering, Pairs
    <2>5. results' = Ids(Len(results')) /\ Len(results') = 0
      BY <2>1 DEF Ids
    <2> QED
      BY <1>0, <2>1, <2>2, <2>3, <2>4, <2>5 DEF Answering, Pairs
  <1>4. ASSUME NEW failed, NEW batch, Gives(failed, batch) PROVE Answering'
    <2>1. Result(failed) = Ids(Len(results) + 1) /\ Len(Result(failed)) = Len(results) + 1
      BY <1>0, <1>4 DEF Result, Ids, Gives, Answering
    <2>2. CASE MoreTools /\ results' = Result(failed)
               /\ UNCHANGED <<at, deltas, callText, calls, emittedBefore, iteration, schemas, prompt>>
      BY <1>0, <1>4, <2>1, <2>2 DEF MoreTools, Gives, Answering, Pairs
    <2>3. CASE ~MoreTools /\ NextCall(Result(failed))
      <3> DEFINE m == Message("user", <<>>, Result(failed))
                 u == Said("user")
      <3>1. /\ m \in Messages /\ m.role = "user" /\ m.uses = <<>> /\ m.results = Result(failed)
            /\ u \in Messages /\ u.role = "user" /\ u.uses = <<>>
        BY <1>0 DEF Message, Said, Messages, Result
      <3>2. Len(calls) = Len(results) + 1
        BY <1>0, <1>4, <2>3 DEF MoreTools, Gives, Answering
      <3>3. m.results = prompt[Len(prompt)].uses
        BY <1>4, <2>1, <3>1, <3>2 DEF Gives, Answering
      <3>4. /\ at' = "calling"
            /\ \/ prompt' = Append(prompt, m)
               \/ prompt' = Append(Append(prompt, m), u)
        BY <1>0, <2>3 DEF NextCall
      <3> HIDE DEF m, u
      <3>5. /\ Len(prompt') \in {Len(prompt) + 1, Len(prompt) + 2} /\ prompt'[Len(prompt) + 1] = m
            /\ \A i \in 1 .. Len(prompt) : prompt'[i] = prompt[i]
            /\ Len(prompt') = Len(prompt) + 2 => prompt'[Len(prompt) + 2] = u
        <4>1. CASE prompt' = Append(prompt, m)
          BY <1>0, <3>1, <4>1
        <4>2. CASE prompt' = Append(Append(prompt, m), u)
          BY <1>0, <3>1, <4>2
        <4> QED
          BY <3>4, <4>1, <4>2
      <3>6. Len(prompt) \in Nat /\ Len(prompt) > 0
        BY <1>0 DEF Answering
      <3>7. ASSUME NEW i \in 1 .. Len(prompt') - 1, prompt'[i].uses # <<>>
            PROVE prompt'[i + 1].results = prompt'[i].uses
        <4>1. i <= Len(prompt)
          BY <3>1, <3>5, <3>6, <3>7
        <4>2. CASE i = Len(prompt)
          BY <3>3, <3>5, <3>6, <4>2
        <4>3. CASE i < Len(prompt)
          <5>1. /\ i \in 1 .. Len(prompt) /\ i + 1 \in 1 .. Len(prompt) /\ i \in 1 .. Len(prompt) - 1
                /\ prompt'[i] = prompt[i] /\ prompt'[i + 1] = prompt[i + 1]
            BY <3>5, <3>6, <4>3
          <5> QED
            BY <3>7, <5>1 DEF Answering, Pairs
        <4> QED
          BY <3>5, <3>6, <4>1, <4>2, <4>3
      <3>8. prompt'[Len(prompt')].role = "user" /\ prompt'[Len(prompt')].uses = <<>>
        BY <3>1, <3>5
      <3> QED
        BY <3>4, <3>5, <3>6, <3>7, <3>8 DEF Answering, Pairs
    <2> QED
      BY <1>4, <2>2, <2>3 DEF Gives
  <1>5. CASE Finish \/ PageReads \/ PageLoses \/ Rests \/ UNCHANGED vars
    BY <1>5 DEF Finish, Marks, PageReads, PageLoses, Rests, vars, loopVars, Answering, Pairs
  <1> QED
    BY <1>1, <1>2, <1>3, <1>4, <1>5 DEF Next, Model, Tools, ToolReturns, ToolFails

\* Every tool call of the prompt is answered in the next message.
THEOREM EveryToolCallIsAnswered == Spec => []ToolCallsAreAnswered
  <1>1. Init => Answering
    BY DEF Init, Answering, Pairs, Said, Message
  <1>2. TypeOK /\ Answering /\ [Next]_vars => Answering'
    BY AnsweringStep
  <1>3. Answering => ToolCallsAreAnswered
    BY DEF Answering, Pairs, ToolCallsAreAnswered
  <1> QED
    BY <1>1, <1>2, <1>3, TypeCorrect, PTL DEF Spec

----------------------------------------------------------------------------
\* The page.

Task == [text |-> buffer, sources |-> sources]
Seen == [text |-> page.text, sources |-> page.sources]

\* The queue holds what the page is behind by, and at the end the marker.
Relayed ==
    /\ page.at = "reading" /\ at # "over" => Relay(Seen, queue, Task)
    /\ page.at = "reading" /\ at = "over"
       => \E q \in Seq(Events) : queue = Append(q, Marker(outcome)) /\ Relay(Seen, q, Task)
    /\ at = "over" => outcome \in {"done", "failed"}
    /\ at = "over" /\ outcome = "done" => stored = Reply(buffer, sources)
    /\ at # "over" => page.at # "done"
    /\ page.at = "done" => stored = Reply(page.text, page.sources)

\* A step sends at most two events, each applied in turn.
Sends1(es, to, next) ==
    \/ es = <<>> /\ next = to
    \/ \E e \in Events : es = <<e>> /\ e.kind \in Kinds /\ next = Applied(to, e)

LEMMA RelaySends1 ==
  ASSUME NEW from, NEW to \in View, NEW next, NEW q \in Seq(Events), NEW es,
         Sends1(es, to, next), Relay(from, q, to)
  PROVE q \o es \in Seq(Events) /\ next \in View /\ Relay(from, q \o es, next)
  <1>1. CASE es = <<>> /\ next = to
    <2>1. q \o es = q
      BY <1>1
    <2> QED
      BY <1>1, <2>1
  <1>2. CASE \E e \in Events : es = <<e>> /\ e.kind \in Kinds /\ next = Applied(to, e)
    <2>1. PICK e \in Events : es = <<e>> /\ e.kind \in Kinds /\ next = Applied(to, e)
      BY <1>2
    <2>2. q \o es = Append(q, e) /\ Append(q, e) \in Seq(Events)
      BY <2>1
    <2>3. next \in View /\ Relay(from, Append(q, e), next)
      BY <2>1, AppliedType, RelayMore
    <2> QED
      BY <2>2, <2>3
  <1> QED
    BY <1>1, <1>2 DEF Sends1

LEMMA Sends1Type ==
  ASSUME NEW es, NEW to, NEW next, Sends1(es, to, next)
  PROVE es \in Seq(Events)
  <1>1. CASE es = <<>>
    BY <1>1
  <1>2. CASE \E e \in Events : es = <<e>>
    BY <1>2
  <1> QED
    BY <1>1, <1>2 DEF Sends1

LEMMA RelaySends ==
  ASSUME TypeOK, Relayed, at # "over", UNCHANGED page, NEW as, NEW bs, NEW mid,
         Sends1(as, Task, mid), Sends1(bs, mid, Task'), Sends(as \o bs)
  PROVE page.at = "reading" => Relay(Seen', queue', Task')
  <1> SUFFICES ASSUME page.at = "reading" PROVE Relay(Seen', queue', Task')
    OBVIOUS
  <1>1. Task \in View /\ queue \in Seq(Events) /\ Seen' = Seen
    BY DEF TypeOK, Task, View, Seen
  <1>2. Relay(Seen, queue, Task)
    BY DEF Relayed
  <1>0. Sends1(as, Task, mid) /\ Sends1(bs, mid, Task')
    OBVIOUS
  <1>3. queue \o as \in Seq(Events) /\ mid \in View /\ Relay(Seen, queue \o as, mid)
    BY ONLY <1>0, <1>1, <1>2, RelaySends1
  <1>4. Relay(Seen, (queue \o as) \o bs, Task')
    BY ONLY <1>0, <1>3, RelaySends1
  <1>5. as \in Seq(Events) /\ bs \in Seq(Events)
    BY ONLY <1>0, Sends1Type
  <1>6. queue' = queue \o (as \o bs)
    BY DEF Sends
  <1>7. queue \o (as \o bs) = (queue \o as) \o bs
    <2>1. \A q, x, y \in Seq(Events) : q \o (x \o y) = (q \o x) \o y
      <3> SUFFICES ASSUME NEW q \in Seq(Events), NEW x \in Seq(Events), NEW y \in Seq(Events)
                   PROVE q \o (x \o y) = (q \o x) \o y
        OBVIOUS
      <3> QED
        BY ONLY ConcatAssociative
    <2> QED
      BY ONLY <1>1, <1>5, <2>1, Zenon
  <1> QED
    BY <1>1, <1>4, <1>6, <1>7

LEMMA RelayedDelta ==
  ASSUME TypeOK, Relayed, NEW piece \in Pieces, Delta(piece)
  PROVE Relayed'
  <1> DEFINE text == Written(piece)
             as == IF Lead = <<>> THEN <<>> ELSE <<Content(Lead)>>
             bs == <<Content(text)>>
             mid == [text |-> buffer \o Lead, sources |-> sources]
  <1>1. Lead \in Text /\ text \in Text /\ buffer \in Text
    BY DeltaTexts DEF TypeOK
  <1>2. Content(Lead) \in Events /\ Content(text) \in Events
    BY <1>1, EventTypes
  <1>3. \A t, u : Applied([text |-> t, sources |-> sources], Content(u)) = [text |-> t \o u, sources |-> sources]
    BY MergedNothing DEF Applied, Content, Event
  <1>4. Sends1(as, Task, mid)
    <2>1. CASE Lead = <<>>
      <3>1. buffer \o Lead = buffer
        BY <1>1, <2>1 DEF Text
      <3> QED
        BY <2>1, <3>1 DEF Sends1, Task
    <2>2. CASE Lead # <<>>
      BY <1>2, <1>3, <2>2 DEF Sends1, Task, Content, Event, Kinds
    <2> QED
      BY <2>1, <2>2
  <1>5. buffer' = (buffer \o Lead) \o text /\ sources' = sources
    <2>1. Keeps(buffer \o Lead \o text, {}, (IF Lead = <<>> THEN <<>> ELSE <<Content(Lead)>>) \o <<Content(text)>>)
      BY DEF Delta
    <2> QED
      BY ONLY <2>1, MergedNothing DEF Keeps
  <1>6. Sends1(bs, mid, Task')
    BY <1>2, <1>3, <1>5 DEF Sends1, Task, Content, Event, Kinds
  <1>7. Sends(as \o bs) /\ at = "calling" /\ UNCHANGED <<at, page, stored, outcome>>
    BY DEF Delta, Keeps, endVars
  <1> HIDE DEF as, bs, mid
  <1>8. page.at = "reading" => Relay(Seen', queue', Task')
    BY <1>4, <1>6, <1>7, RelaySends
  <1> QED
    BY <1>7, <1>8 DEF Relayed

LEMMA RelayedAsks ==
  ASSUME TypeOK, Relayed, NEW asked \in Asked, AsksTools(asked)
  PROVE Relayed'
  <1> DEFINE as == IF Narration = <<>> THEN <<>> ELSE <<Retract(Narration)>>
             bs == <<Status>>
             mid == [text |-> Withdrawn(buffer, Narration), sources |-> sources]
  <1>1. Narration \in Text /\ buffer \in Text /\ sources \in SUBSET Source
    BY DEF TypeOK, Narration
  <1>2. Retract(Narration) \in Events /\ Status \in Events
    BY <1>1, EventTypes
  <1>3. Sends1(as, Task, mid)
    <2>1. CASE Narration = <<>>
      <3>1. Withdrawn(buffer, <<>>) = buffer
        <4>1. SubSeq(buffer, 1, Len(buffer)) = buffer
          BY <1>1 DEF Text
        <4> QED
          BY <1>1, <4>1 DEF Withdrawn, Text
      <3> QED
        BY <2>1, <3>1 DEF Sends1, Task
    <2>2. CASE Narration # <<>>
      <3>1. Applied(Task, Retract(Narration)) = mid
        BY MergedNothing DEF Applied, Task, Retract, Event
      <3> QED
        BY <1>2, <2>2, <3>1 DEF Sends1, Retract, Event, Kinds
    <2> QED
      BY <2>1, <2>2
  <1>4. Task' = mid
    BY MergedNothing DEF AsksTools, Keeps, Task
  <1>5. Sends1(bs, mid, Task')
    <2>1. Applied(mid, Status) = mid
      BY MergedNothing DEF Applied, Status, Event
    <2> QED
      BY <1>2, <1>4, <2>1 DEF Sends1, Status, Event, Kinds
  <1>6. Sends(as \o bs) /\ at = "calling" /\ at' = "running" /\ UNCHANGED <<page, stored, outcome>>
    BY DEF AsksTools, Keeps, endVars
  <1> HIDE DEF as, bs, mid
  <1>7. page.at = "reading" => Relay(Seen', queue', Task')
    BY <1>3, <1>5, <1>6, RelaySends
  <1> QED
    BY <1>6, <1>7 DEF Relayed

LEMMA RelayedGives ==
  ASSUME TypeOK, Relayed, NEW failed, NEW batch \in SUBSET Source, Gives(failed, batch)
  PROVE Relayed'
  <1> DEFINE limit == ~MoreTools /\ iteration + 1 = MAX_ITERS
             as == IF batch = {} THEN <<>> ELSE <<Sources(batch)>>
             bs == IF MoreTools \/ limit THEN <<Status>> ELSE <<>>
             mid == [text |-> buffer, sources |-> Merged(sources, batch)]
  <1>1. <<>> \in Text
    BY DEF Text
  <1>2. Sources(batch) \in Events /\ Status \in Events
    BY <1>1, EventTypes
  <1>3. Sends1(as, Task, mid)
    <2>1. CASE batch = {}
      BY <2>1, MergedNothing DEF Sends1, Task
    <2>2. CASE batch # {}
      <3>1. Applied(Task, Sources(batch)) = mid
        BY DEF Applied, Task, Sources, Event
      <3> QED
        BY <1>2, <2>2, <3>1 DEF Sends1, Sources, Event, Kinds
    <2> QED
      BY <2>1, <2>2
  <1>4. Task' = mid
    BY DEF Gives, Keeps, Task
  <1>5. Sends1(bs, mid, Task')
    <2>1. Applied(mid, Status) = mid
      BY MergedNothing DEF Applied, Status, Event
    <2> QED
      BY <1>2, <1>4, <2>1 DEF Sends1, Status, Event, Kinds
  <1>6. Sends(as \o bs) /\ at = "running" /\ UNCHANGED <<page, stored, outcome>>
    BY DEF Gives, Keeps, endVars
  <1>7. at' # "over"
    <2>1. CASE MoreTools /\ results' = Result(failed)
               /\ UNCHANGED <<at, deltas, callText, calls, emittedBefore, iteration, schemas, prompt>>
      BY <1>6, <2>1
    <2>2. CASE NextCall(Result(failed))
      BY <2>2 DEF NextCall
    <2> QED
      BY <2>1, <2>2 DEF Gives
  <1> HIDE DEF as, bs, mid
  <1>8. page.at = "reading" => Relay(Seen', queue', Task')
    BY <1>3, <1>5, <1>6, RelaySends
  <1> QED
    BY <1>6, <1>7, <1>8 DEF Relayed

LEMMA RelayedFinish ==
  ASSUME TypeOK, Relayed, Finish
  PROVE Relayed'
  <1>1. /\ at = "finishing" /\ at' = "over" /\ UNCHANGED <<buffer, sources, page>>
        /\ outcome' \in {"done", "failed"} /\ Sends(<<Marker(outcome')>>)
        /\ outcome' = "done" => stored' = Reply(buffer, sources)
    BY DEF Finish, Marks, loopVars, keptVars
  <1>2. ASSUME page.at = "reading"
        PROVE \E q \in Seq(Events) : queue' = Append(q, Marker(outcome')) /\ Relay(Seen', q, Task')
    <2>1. queue \in Seq(Events) /\ queue' = Append(queue, Marker(outcome'))
      BY <1>1, <1>2 DEF Sends, TypeOK
    <2>2. Relay(Seen, queue, Task) /\ Seen' = Seen /\ Task' = Task
      BY <1>1, <1>2 DEF Relayed, Seen, Task
    <2> QED
      BY <2>1, <2>2
  <1>3. page'.at # "done"
    BY <1>1 DEF Relayed
  <1> QED
    BY <1>1, <1>2, <1>3 DEF Relayed

LEMMA RelayedPage ==
  ASSUME TypeOK, Relayed, PageReads
  PROVE Relayed'
  <1> DEFINE event == Head(queue)
  <1>1. /\ page.at = "reading" /\ queue \in Seq(Events) /\ queue # <<>> /\ queue' = Tail(queue)
        /\ UNCHANGED <<at, buffer, sources, outcome, stored>>
    BY DEF PageReads, TypeOK, keptVars, endVars
  <1>2. ASSUME event.kind \in Kinds
        PROVE page'.at = "reading" /\ Seen' = Applied(Seen, event)
    <2>1. page' = Page("reading", Applied(page, event))
      BY <1>2 DEF PageReads, Kinds
    <2>2. Applied(page, event) = Applied(Seen, event)
      BY DEF Applied, Seen
    <2> QED
      BY <2>1, <2>2 DEF Page, Seen, Applied
  <1>3. CASE at # "over"
    <2>1. event.kind \in Kinds /\ Relay(Applied(Seen, event), Tail(queue), Task)
      BY <1>1, <1>3, RelayHead DEF Relayed
    <2> QED
      BY <1>1, <1>2, <1>3, <2>1 DEF Relayed, Task
  <1>4. CASE at = "over"
    <2>1. PICK q \in Seq(Events) : queue = Append(q, Marker(outcome)) /\ Relay(Seen, q, Task)
      BY <1>1, <1>4 DEF Relayed
    <2>2. CASE q = <<>>
      <3>1. event = Marker(outcome) /\ Seen = Task
        BY <2>1, <2>2, RelayOver
      <3>2. outcome \in {"done", "failed"}
        BY <1>4 DEF Relayed
      <3>3. page' = IF outcome = "done" THEN Page("done", page) ELSE Page("failed", Nothing)
        BY <3>1, <3>2 DEF PageReads, Marker, Event
      <3>4. page.text = buffer /\ page.sources = sources
        BY <3>1 DEF Seen, Task
      <3> QED
        BY <1>1, <1>4, <3>2, <3>3, <3>4 DEF Relayed, Page
    <2>3. CASE q # <<>>
      <3>1. event = Head(q) /\ Tail(queue) = Append(Tail(q), Marker(outcome)) /\ Tail(q) \in Seq(Events)
        BY <2>1, <2>3
      <3>2. Head(q).kind \in Kinds /\ Relay(Applied(Seen, Head(q)), Tail(q), Task)
        BY <2>1, <2>3, RelayHead
      <3>3. page'.at = "reading" /\ Relay(Seen', Tail(q), Task') /\ queue' = Append(Tail(q), Marker(outcome'))
        BY <1>1, <1>2, <3>1, <3>2 DEF Task
      <3> QED
        BY <1>1, <1>4, <3>1, <3>3 DEF Relayed
    <2> QED
      BY <2>2, <2>3
  <1> QED
    BY <1>3, <1>4

LEMMA RelayedStep ==
  ASSUME TypeOK, Relayed, [Next]_vars
  PROVE Relayed'
  <1>1. CASE Start \/ Answer \/ Stop \/ StreamFails
    BY <1>1 DEF Start, Answer, Stop, StreamFails, Ends, Relayed, Seen, Task, keptVars
  <1>2. ASSUME NEW batch \in Batches, ToolReturns(batch) PROVE Relayed'
    BY <1>2, RelayedGives, SourcesAssumption DEF ToolReturns, Source
  <1>3. CASE ToolFails
    BY <1>3, RelayedGives DEF ToolFails
  <1>4. CASE PageLoses
    BY <1>4 DEF PageLoses, Page, Relayed, keptVars, endVars
  <1>5. CASE Rests \/ UNCHANGED vars
    BY <1>5 DEF Rests, vars, keptVars, endVars, Relayed, Seen, Task
  <1> QED
    BY <1>1, <1>2, <1>3, <1>4, <1>5, RelayedDelta, RelayedAsks, RelayedFinish, RelayedPage DEF Next, Model, Tools

\* A page that is told the reply is done shows what is stored.
THEOREM PageAndStoreAgree == Spec => []PageShowsWhatIsStored
  <1>1. ASSUME Init PROVE Relayed
    <2>1. Seen = Task /\ Seen \in View /\ queue = <<>> /\ at # "over" /\ page.at = "reading"
      BY <1>1 DEF Init, Seen, Task, View, Text
    <2> QED
      BY <2>1, RelayNone DEF Relayed
  <1>2. TypeOK /\ Relayed /\ [Next]_vars => Relayed'
    BY RelayedStep
  <1>3. Relayed => PageShowsWhatIsStored
    BY DEF Relayed, PageShowsWhatIsStored
  <1> QED
    BY <1>1, <1>2, <1>3, TypeCorrect, PTL DEF Spec
=============================================================================
