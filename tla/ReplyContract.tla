--------------------------- MODULE ReplyContract ---------------------------
(***************************************************************************)
(* What turns promise about one conversation, without transactions, tasks, *)
(* heartbeats or time: at most one request holds the conversation; only    *)
(* the holder answers, its own question, once, and answering frees the     *)
(* conversation; a holder that was replaced never frees its successor.     *)
(***************************************************************************)
CONSTANTS Req, Msg, NoReq

VARIABLES
    open,       \* "none", "open" or "deleted"
    holder,     \* the request whose reply is in progress, or NoReq
    thread      \* the stored messages, unordered

vars == <<open, holder, thread>>

Entry == [role : {"user", "assistant"}, of : Msg, by : Req]

Question(q, r) == [role |-> "user", of |-> q, by |-> r]
Answer(q, r) == [role |-> "assistant", of |-> q, by |-> r]

IsAsked(q) == \E e \in thread : e.role = "user" /\ e.of = q
IsAnswered(q) == \E e \in thread : e.role = "assistant" /\ e.of = q

Init == open = "none" /\ holder = NoReq /\ thread = {}

\* A request stores a new question and holds the conversation.
AskNew(r, q) ==
    /\ open # "deleted" /\ ~IsAsked(q) /\ ~IsAnswered(q)
    /\ open' = "open"
    /\ holder' = r
    /\ thread' = thread \cup {Question(q, r)}

\* A request holds the conversation for a new answer to a stored question,
\* which has none left: at most one reply went.
AskAgain(r, q) ==
    /\ open = "open" /\ IsAsked(q)
    /\ holder' = r
    /\ \/ thread' = thread
       \/ \E e \in thread : e.role = "assistant" /\ thread' = thread \ {e}
    /\ ~IsAnswered(q)'
    /\ UNCHANGED open

\* The holder answers a stored question that has no answer.
Reply(r, q) ==
    /\ holder = r /\ IsAsked(q) /\ ~IsAnswered(q)
    /\ holder' = NoReq
    /\ thread' = thread \cup {Answer(q, r)}
    /\ UNCHANGED open

\* The holder gives up.
Free(r) == holder = r /\ holder' = NoReq /\ UNCHANGED <<open, thread>>

Delete ==
    /\ open = "open"
    /\ open' = "deleted" /\ holder' = NoReq /\ thread' = {}

Next ==
    \/ \E r \in Req, q \in Msg : AskNew(r, q) \/ AskAgain(r, q) \/ Reply(r, q)
    \/ \E r \in Req : Free(r)
    \/ Delete

Spec == Init /\ [][Next]_vars
=============================================================================
