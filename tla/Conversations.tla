--------------------------- MODULE Conversations ---------------------------
(***************************************************************************)
(* The conversation row, its messages and the turn claim, as the           *)
(* statements of packages/db/repos/conversations.py read and write them.   *)
(* One conversation: every statement is keyed by one conversation id.      *)
(*                                                                         *)
(* A transaction's now() is the time it STARTED: the claim written to      *)
(* streaming_since and the created_at of a message (server default now())  *)
(* both carry it, so they may be older than the commit that stores them.   *)
(* `now` is the start of the latest transaction.  Starts are distinct, as  *)
(* the microsecond timestamps of one conversation's transactions are       *)
(* taken to be.                                                            *)
(***************************************************************************)
EXTENDS Integers

CONSTANTS
    Req,          \* requests that ask for a reply (POST /chat, POST .../retry)
    Msg,          \* ids of user messages, chosen by the client
    NoReq,        \* no request
    TURN_WINDOW   \* a claim older than this counts as free

ASSUME WindowAssumption == TURN_WINDOW \in Nat \ {0}
ASSUME NoReqAssumption == NoReq \notin Req

VARIABLES
    now,        \* the database clock, as the latest transaction saw it
    conv,       \* the conversation row: "none" yet, "open" or "deleted"
    since,      \* streaming_since: the claim's stamp, or Null
    claimant,   \* history: the request whose claim `since` is, or NoReq
    messages    \* the stored messages

dbVars == <<now, conv, since, claimant, messages>>

\* streaming_since IS NULL; stamps are positive.
Null == 0

\* `of` names the user message: the message itself, or the one a reply
\* answers; `by` is the request that stored it (both are history for a reply).
Message == [role : {"user", "assistant"}, of : Msg, by : Req, at : Nat]

Questions == {m \in messages : m.role = "user"}
Replies == {m \in messages : m.role = "assistant"}

-----------------------------------------------------------------------------
(* Clock *)

\* Time between two steps is no step of its own: a transaction starts one tick
\* after the last one, or so much later that the claim in the row has aged past
\* the window.  Starts(t) takes t as a transaction's now().
NextTick == now + 1
LapseTick == since + TURN_WINDOW + 1
Starts(t) == t > now /\ now' = t

-----------------------------------------------------------------------------
(* The claim: claim_turn, release_turn, refresh_turn *)

\* claim_turn's WHERE, in a transaction that started at t.
Lapsed(t) == since < t - TURN_WINDOW
Claimable(t) == since = Null \/ Lapsed(t)

ClaimTurnKeepsStamp(r, t) ==
    /\ since' = IF since = Null THEN t ELSE since
    /\ claimant' = r
ClaimTurn(r, t) ==
    /\ since' = t
    /\ claimant' = r

\* The WHERE of release_turn and refresh_turn.
AnyClaim(token) == since # Null
HoldsUnchecked(token) == TRUE
Holds(token) == since = token

ReleaseTurn(token) ==
    IF Holds(token)
    THEN since' = Null /\ claimant' = NoReq
    ELSE UNCHANGED <<since, claimant>>

-----------------------------------------------------------------------------
(* Messages, ordered by created_at *)

AddMessage(role, q, r, t) ==
    messages \cup {[role |-> role, of |-> q, by |-> r, at |-> t]}

Newest(m, S) == \A n \in S : n.at <= m.at

\* last_messages[0] is the user message q.
EndsWith(q) == \E m \in Questions : m.of = q /\ Newest(m, messages)

\* last_messages(n=2) is an assistant reply and, directly before it, the user
\* message q: the set holding that reply, or {}.
ReplyAfter(q) ==
    {a \in Replies :
        /\ Newest(a, messages)
        /\ \E m \in Questions : m.of = q /\ Newest(m, messages \ {a})}

\* DELETE of the row; its messages go with it (ON DELETE CASCADE).
DeleteOwnedNoCascade ==
    /\ conv = "open"
    /\ conv' = "deleted"
    /\ since' = Null /\ claimant' = NoReq
    /\ UNCHANGED messages
DeleteOwnedKeepsClaim ==
    /\ conv = "open"
    /\ conv' = "deleted"
    /\ messages' = {}
    /\ UNCHANGED <<since, claimant>>
DeleteOwned ==
    /\ conv = "open"
    /\ conv' = "deleted"
    /\ since' = Null /\ claimant' = NoReq
    /\ messages' = {}

DbInit ==
    /\ now = 0
    /\ conv = "none"
    /\ since = Null
    /\ claimant = NoReq
    /\ messages = {}

DbTypeOK ==
    /\ now \in Nat
    /\ conv \in {"none", "open", "deleted"}
    /\ since \in 0..now
    /\ claimant \in Req \cup {NoReq}
    /\ messages \subseteq Message
    /\ \A m \in messages : m.at <= now
    /\ conv # "open" => messages = {} /\ since = Null
    /\ since = Null <=> claimant = NoReq
=============================================================================
