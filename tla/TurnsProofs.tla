---------------------------- MODULE TurnsProofs ----------------------------
(* Theorems about Turns, for every set of requests, messages, processes and *)
(* faults.                                                                  *)
EXTENDS Turns, TLAPS

Typed == TypeOK /\ StampsTaken

LEMMA InitTyped == Init => Typed
  BY WindowAssumption, NoReqAssumption, RefreshAssumption
  DEF Init, DbInit, Typed, TypeOK, DbTypeOK, StampsTaken, Null, Holding, Message

LEMMA TypedStep == Typed /\ [Next]_vars => Typed'
  <1> SUFFICES ASSUME Typed, [Next]_vars PROVE Typed'
    OBVIOUS
  <1> USE WindowAssumption, NoReqAssumption, RefreshAssumption
      DEF Typed, TypeOK, DbTypeOK, StampsTaken, Null, Holding, Goto, Says, Opens, Closes,
          Starts, NextTick, dbVars, params, streamVars
  <1>1. ASSUME NEW r \in Req, Begin(r) PROVE Typed'
    <2>0. ClaimTimes \subseteq Nat
      BY DEF ClaimTimes, LapseTick
    <2>1. PICK t \in Nat : t > now /\ now' = t /\ opened' = [opened EXCEPT ![r] = t]
      BY <1>1, <2>0 DEF Begin
    <2>2. now <= now' /\ opened' \in [Req -> 0..now'] /\ token \in [Req -> 0..now']
      BY <2>1
    <2>3. pc'[r] = "claiming" /\ opened'[r] # 0 /\ \A s \in Req \ {r} : pc'[s] = pc[s] /\ opened'[s] = opened[s]
      BY <1>1, <2>1 DEF Begin
    <2>4. DbTypeOK'
      BY <1>1, <2>2 DEF Begin, Message
    <2>5. TypeOK'
      BY <1>1, <2>2, <2>4 DEF Begin
    <2>6. StampsTaken'
      BY <1>1, <2>3 DEF Begin
    <2>7. QED
      BY <2>5, <2>6
  <1>2. ASSUME NEW r \in Req, PersistUserTurn(r) PROVE Typed'
    BY <1>2 DEF PersistUserTurn, CommitClaim, ClaimTurn, AddMessage, Message
  <1>3. ASSUME NEW r \in Req, ClaimForRetry(r) PROVE Typed'
    BY <1>3 DEF ClaimForRetry, CommitClaim, ClaimTurn, ReplyAfter
  <1>4. ASSUME NEW r \in Req, Refuse(r) PROVE Typed'
    BY <1>4 DEF Refuse
  <1>5. ASSUME NEW r \in Req, StartTurn(r) PROVE Typed'
    BY <1>5 DEF StartTurn
  <1>6. ASSUME NEW r \in Req, StartFails(r) PROVE Typed'
    BY <1>6 DEF StartFails
  <1>7. ASSUME NEW r \in Req, StartStream(r) PROVE Typed'
    BY <1>7 DEF StartStream, StreamOnly
  <1>8. ASSUME NEW r \in Req, Write(r) PROVE Typed'
    BY <1>8 DEF Write, StreamOnly
  <1>9. ASSUME NEW r \in Req, StreamEnds(r) PROVE Typed'
    BY <1>9 DEF StreamEnds, StreamOnly
  <1>10. ASSUME NEW r \in Req, StreamCut(r) PROVE Typed'
    BY <1>10 DEF StreamCut, StreamOnly
  <1>11. ASSUME NEW r \in Req, BeginRefresh(r) PROVE Typed'
    <2>1. now' \in Nat /\ now < now' /\ opened' = [opened EXCEPT ![r] = now']
      BY <1>11 DEF BeginRefresh
    <2>2. opened' \in [Req -> 0..now'] /\ token \in [Req -> 0..now'] /\ opened'[r] # 0
      BY <2>1
    <2>3. DbTypeOK'
      BY <1>11, <2>1 DEF BeginRefresh, Message
    <2>4. TypeOK'
      BY <1>11, <2>2, <2>3 DEF BeginRefresh
    <2>5. StampsTaken'
      BY <1>11, <2>1, <2>2 DEF BeginRefresh
    <2>6. QED
      BY <2>4, <2>5
  <1>12. ASSUME NEW r \in Req, Refresh(r) PROVE Typed'
    <2>1. TypeOK'
      BY <1>12 DEF Refresh, Holds, KeepsToken
    <2>2. StampsTaken'
      BY <1>12 DEF Refresh, Holds, KeepsToken
    <2>3. QED
      BY <2>1, <2>2
  <1>13. ASSUME NEW r \in Req, BeginSave(r) PROVE Typed'
    <2>1. now' \in Nat /\ now < now' /\ opened' = [opened EXCEPT ![r] = now']
      BY <1>13 DEF BeginSave
    <2>2. opened' \in [Req -> 0..now'] /\ token \in [Req -> 0..now'] /\ opened'[r] # 0
      BY <2>1
    <2>3. DbTypeOK'
      BY <1>13, <2>1 DEF BeginSave, Message
    <2>4. TypeOK'
      BY <1>13, <2>2, <2>3 DEF BeginSave, HeartbeatStops
    <2>5. StampsTaken'
      BY <1>13, <2>1, <2>2 DEF BeginSave, HeartbeatStops
    <2>6. QED
      BY <2>4, <2>5
  <1>14. ASSUME NEW r \in Req, BeginDrop(r) PROVE Typed'
    <2>1. TypeOK'
      BY <1>14 DEF BeginDrop, HeartbeatStops
    <2>2. StampsTaken'
      BY <1>14 DEF BeginDrop, HeartbeatStops
    <2>3. QED
      BY <2>1, <2>2
  <1>15. ASSUME NEW r \in Req, PersistAssistantTurn(r) PROVE Typed'
    BY <1>15 DEF PersistAssistantTurn, ReleaseTurn, Holds, Outcome, AddMessage, Message
  <1>16. ASSUME NEW r \in Req, SaveFails(r) PROVE Typed'
    BY <1>16 DEF SaveFails
  <1>17. ASSUME NEW r \in Req, ReleaseClaim(r) PROVE Typed'
    BY <1>17 DEF ReleaseClaim, ReleaseTurn, Holds
  <1>18. ASSUME NEW r \in Req, Settle(r) PROVE Typed'
    BY <1>18 DEF Settle, Unregister, OwnEntry
  <1>19. ASSUME NEW p \in Proc, StopReply(p) PROVE Typed'
    BY <1>19 DEF StopReply
  <1>20. ASSUME NEW p \in Proc, DrainTurns(p) PROVE Typed'
    BY <1>20 DEF DrainTurns
  <1>21. ASSUME NEW p \in Proc, Crash(p) PROVE Typed'
    BY <1>21 DEF Crash, Serving
  <1>22. CASE DeleteConversation
    BY <1>22 DEF DeleteConversation, DeleteOwned
  <1>23. CASE UNCHANGED vars
    BY <1>23 DEF vars
  <1>24. QED
    BY <1>1, <1>2, <1>3, <1>4, <1>5, <1>6, <1>7, <1>8, <1>9, <1>10, <1>11, <1>12,
       <1>13, <1>14, <1>15, <1>16, <1>17, <1>18, <1>19, <1>20, <1>21, <1>22, <1>23
    DEF Next, Ask, Start, Stream, Finish

THEOREM TypeCorrect == Spec => []TypeOK
  <1>1. Spec => []Typed
    BY InitTyped, TypedStep, PTL DEF Spec
  <1>2. Typed => TypeOK
    BY DEF Typed
  <1>3. QED
    BY <1>1, <1>2, PTL

-----------------------------------------------------------------------------
(* A claim's value belongs to one turn *)

Owned == StampsDistinct /\ ClaimIsOwn

LEMMA InitOwned == Init => Owned
  BY DEF Init, DbInit, Owned, StampsDistinct, ClaimIsOwn, Null

\* A transaction that starts takes a stamp no request has.
LEMMA OpensOwned ==
  ASSUME Typed, Owned, NEW r \in Req, NEW t \in Nat, t > now,
         opened' = [opened EXCEPT ![r] = t], UNCHANGED <<since, claimant, token>>
  PROVE  Owned'
  <1>1. /\ now \in Nat /\ token \in [Req -> 0..now] /\ opened \in [Req -> 0..now]
    BY DEF Typed, TypeOK, DbTypeOK
  <1>2. \A s \in Req : token[s] < t /\ opened[s] < t
    BY <1>1
  <1>3. opened'[r] = t /\ \A s \in Req \ {r} : opened'[s] = opened[s]
    BY <1>1
  <1>4. QED
    BY <1>2, <1>3, <1>1 DEF Owned, StampsDistinct, ClaimIsOwn

LEMMA OwnedStep == Typed /\ Owned /\ [Next]_vars => Owned'
  <1> SUFFICES ASSUME Typed, Owned, [Next]_vars PROVE Owned'
    OBVIOUS
  <1> USE DEF Closes, dbVars, params, streamVars
  <1>1. ASSUME NEW r \in Req, Begin(r) PROVE Owned'
    <2>1. PICK t \in ClaimTimes : t > now /\ opened' = [opened EXCEPT ![r] = t]
      BY <1>1 DEF Begin, Opens, Starts
    <2>2. t \in Nat
      BY WindowAssumption DEF ClaimTimes, LapseTick, NextTick, Typed, TypeOK, DbTypeOK
    <2>3. QED
      BY <1>1, <2>1, <2>2, OpensOwned DEF Begin
  <1>2. ASSUME NEW r \in Req, BeginRefresh(r) \/ BeginSave(r) PROVE Owned'
    <2>1. now' \in Nat /\ now' > now /\ opened' = [opened EXCEPT ![r] = now']
      BY <1>2 DEF BeginRefresh, BeginSave, Opens, Starts, NextTick, Typed, TypeOK, DbTypeOK
    <2>2. QED
      BY <1>2, <2>1, OpensOwned DEF BeginRefresh, BeginSave
  <1>3. ASSUME NEW r \in Req, PersistUserTurn(r) \/ ClaimForRetry(r) PROVE Owned'
    <2>1. /\ opened[r] # 0 /\ opened' = [opened EXCEPT ![r] = 0]
          /\ since' = opened[r] /\ claimant' = r
          /\ token' = [token EXCEPT ![r] = opened[r]] \/ token' = token
      BY <1>3 DEF PersistUserTurn, ClaimForRetry, CommitClaim, ClaimTurn, Typed, StampsTaken
    <2>2. QED
      BY <2>1 DEF Owned, StampsDistinct, ClaimIsOwn, Typed, TypeOK
  <1>4. ASSUME NEW r \in Req, Refresh(r) PROVE Owned'
    <2>1. /\ opened[r] # 0 /\ token[r] # 0
          /\ opened' = [opened EXCEPT ![r] = 0] /\ claimant' = claimant
      BY <1>4 DEF Refresh, Typed, StampsTaken, Holding
    <2>2. CASE since = token[r] /\ since' = opened[r]
      <3>1. claimant = r
        BY <2>1, <2>2 DEF Owned, ClaimIsOwn, Null
      <3>2. token' = [token EXCEPT ![r] = opened[r]] \/ token' = token
        BY <1>4, <2>2 DEF Refresh, KeepsToken
      <3>3. QED
        BY <2>1, <2>2, <3>1, <3>2 DEF Owned, StampsDistinct, ClaimIsOwn, Typed, TypeOK
    <2>3. CASE UNCHANGED <<since, token>>
      BY <2>1, <2>3 DEF Owned, StampsDistinct, ClaimIsOwn, Typed, TypeOK
    <2>4. QED
      BY <1>4, <2>2, <2>3 DEF Refresh, Holds
  <1>5. ASSUME NEW r \in Req, PersistAssistantTurn(r) \/ ReleaseClaim(r) PROVE Owned'
    <2>1. /\ \/ since' = Null /\ claimant' = NoReq
             \/ UNCHANGED <<since, claimant>>
          /\ opened' = [opened EXCEPT ![r] = 0] \/ opened' = opened
          /\ token' = token
      BY <1>5 DEF PersistAssistantTurn, ReleaseClaim, ReleaseTurn
    <2>2. QED
      BY <2>1 DEF Owned, StampsDistinct, ClaimIsOwn, Typed, TypeOK
  <1>6. ASSUME NEW r \in Req, Refuse(r) \/ SaveFails(r) PROVE Owned'
    BY <1>6 DEF Refuse, SaveFails, Owned, StampsDistinct, ClaimIsOwn, Typed, TypeOK
  <1>7. ASSUME NEW r \in Req, Settle(r) PROVE Owned'
    BY <1>7 DEF Settle, Owned, StampsDistinct, ClaimIsOwn, Typed, TypeOK, Null
  <1>8. ASSUME NEW p \in Proc, Crash(p) PROVE Owned'
    BY <1>8 DEF Crash, Owned, StampsDistinct, ClaimIsOwn, Typed, TypeOK, Null
  <1>9. CASE DeleteConversation
    BY <1>9 DEF DeleteConversation, DeleteOwned, Owned, StampsDistinct, ClaimIsOwn
  <1>10. CASE UNCHANGED <<since, claimant, opened, token>>
    BY <1>10 DEF Owned, StampsDistinct, ClaimIsOwn
  <1>11. ASSUME NEW r \in Req,
                StartTurn(r) \/ StartFails(r) \/ StartStream(r) \/ Write(r)
                  \/ StreamEnds(r) \/ StreamCut(r) \/ BeginDrop(r)
         PROVE  Owned'
    BY <1>10, <1>11
    DEF StartTurn, StartFails, StartStream, Write, StreamEnds, StreamCut, BeginDrop,
        StreamOnly
  <1>12. ASSUME NEW p \in Proc, StopReply(p) \/ DrainTurns(p) PROVE Owned'
    BY <1>10, <1>12 DEF StopReply, DrainTurns
  <1>13. QED
    BY <1>1, <1>2, <1>3, <1>4, <1>5, <1>6, <1>7, <1>8, <1>9, <1>10, <1>11, <1>12
    DEF Next, Ask, Start, Stream, Finish, vars

\* ClaimIsOwn: release_turn and refresh_turn never act on another turn's claim.
THEOREM ClaimsAreOwn == Spec => []ClaimIsOwn
  <1>1. Init => Typed /\ Owned
    BY InitTyped, InitOwned
  <1>2. Typed /\ Owned /\ [Next]_vars => (Typed /\ Owned)'
    BY TypedStep, OwnedStep
  <1>3. Typed /\ Owned => ClaimIsOwn
    BY DEF Owned
  <1>4. QED
    BY <1>1, <1>2, <1>3, PTL DEF Spec

-----------------------------------------------------------------------------
(* created_at orders the messages totally *)

LEMMA InitStamped == Init => MessageStampsDistinct
  BY DEF Init, DbInit, MessageStampsDistinct

\* A transaction that starts takes a stamp no message has.
LEMMA OpensStamped ==
  ASSUME Typed, MessageStampsDistinct, NEW r \in Req, NEW t \in Nat, t > now,
         opened' = [opened EXCEPT ![r] = t], messages' = messages
  PROVE  MessageStampsDistinct'
  <1>1. \A m \in messages : m.at \in Nat /\ m.at < t
    BY DEF Typed, TypeOK, DbTypeOK, Message
  <1>2. opened'[r] = t /\ \A s \in Req \ {r} : opened'[s] = opened[s]
    BY DEF Typed, TypeOK
  <1>3. QED
    BY <1>1, <1>2 DEF MessageStampsDistinct

\* A transaction that commits a message gives it its own stamp.
LEMMA StoresStamped ==
  ASSUME Typed, StampsDistinct, MessageStampsDistinct, NEW r \in Req, opened[r] # 0,
         opened' = [opened EXCEPT ![r] = 0],
         NEW m0, m0.at = opened[r], messages' = messages \cup {m0}
  PROVE  MessageStampsDistinct'
  <1>1. opened'[r] = 0 /\ \A s \in Req \ {r} : opened'[s] = opened[s]
    BY DEF Typed, TypeOK
  <1>2. QED
    BY <1>1 DEF MessageStampsDistinct, StampsDistinct

\* Any other step stores nothing and opens nothing.
LEMMA StampedFrame ==
  ASSUME MessageStampsDistinct, messages' \subseteq messages,
         \A s \in Req : opened'[s] \in {0, opened[s]}
  PROVE  MessageStampsDistinct'
  BY DEF MessageStampsDistinct

LEMMA StampedStep ==
  Typed /\ Owned /\ MessageStampsDistinct /\ [Next]_vars => MessageStampsDistinct'
  <1> SUFFICES ASSUME Typed, Owned, MessageStampsDistinct, [Next]_vars
               PROVE  MessageStampsDistinct'
    OBVIOUS
  <1> DEFINE Frame ==
        messages' \subseteq messages /\ \A s \in Req : opened'[s] \in {0, opened[s]}
  <1> USE DEF Closes, dbVars, params, streamVars
  <1>1. Frame => MessageStampsDistinct'
    BY StampedFrame
  <1>2. opened \in [Req -> Nat]
    BY DEF Typed, TypeOK, DbTypeOK
  <1>3. ASSUME NEW r \in Req, Begin(r) PROVE MessageStampsDistinct'
    <2>1. PICK t \in ClaimTimes : t > now /\ opened' = [opened EXCEPT ![r] = t]
      BY <1>3 DEF Begin, Opens, Starts
    <2>2. t \in Nat
      BY WindowAssumption DEF ClaimTimes, LapseTick, NextTick, Typed, TypeOK, DbTypeOK
    <2>3. QED
      BY <1>3, <2>1, <2>2, OpensStamped DEF Begin
  <1>4. ASSUME NEW r \in Req, BeginRefresh(r) \/ BeginSave(r) PROVE MessageStampsDistinct'
    <2>1. now' \in Nat /\ now' > now /\ opened' = [opened EXCEPT ![r] = now']
      BY <1>4 DEF BeginRefresh, BeginSave, Opens, Starts, NextTick, Typed, TypeOK, DbTypeOK
    <2>2. QED
      BY <1>4, <2>1, OpensStamped DEF BeginRefresh, BeginSave
  <1>5. ASSUME NEW r \in Req, PersistUserTurn(r) PROVE MessageStampsDistinct'
    BY <1>5, StoresStamped
    DEF PersistUserTurn, CommitClaim, AddMessage, Typed, StampsTaken, Owned
  <1>6. ASSUME NEW r \in Req, PersistAssistantTurn(r) PROVE MessageStampsDistinct'
    <2>1. CASE Holds(token[r])
      BY <1>6, <2>1, StoresStamped
      DEF PersistAssistantTurn, AddMessage, Typed, StampsTaken, Owned
    <2>2. CASE ~Holds(token[r])
      <3>1. Frame
        BY <1>2, <1>6, <2>2 DEF PersistAssistantTurn
      <3>2. QED
        BY <1>1, <3>1
    <2>3. QED
      BY <2>1, <2>2
  <1>7. ASSUME NEW r \in Req,
               ClaimForRetry(r) \/ Refuse(r) \/ SaveFails(r) \/ Refresh(r)
                 \/ ReleaseClaim(r) \/ Settle(r)
        PROVE  MessageStampsDistinct'
    <2>1. Frame
      BY <1>2, <1>7 DEF ClaimForRetry, CommitClaim, Refuse, SaveFails, Refresh, ReleaseClaim, Settle
    <2>2. QED
      BY <1>1, <2>1
  <1>8. ASSUME NEW r \in Req,
               StartTurn(r) \/ StartFails(r) \/ StartStream(r) \/ Write(r)
                 \/ StreamEnds(r) \/ StreamCut(r) \/ BeginDrop(r)
        PROVE  MessageStampsDistinct'
    <2>1. Frame
      BY <1>8 DEF StartTurn, StartFails, StartStream, Write, StreamEnds, StreamCut,
                  BeginDrop, StreamOnly
    <2>2. QED
      BY <1>1, <2>1
  <1>9. ASSUME NEW p \in Proc, StopReply(p) \/ DrainTurns(p) \/ Crash(p)
        PROVE  MessageStampsDistinct'
    <2>1. Frame
      BY <1>9 DEF StopReply, DrainTurns, Crash
    <2>2. QED
      BY <1>1, <2>1
  <1>10. CASE DeleteConversation \/ UNCHANGED vars
    <2>1. Frame
      BY <1>10 DEF DeleteConversation, DeleteOwned, vars
    <2>2. QED
      BY <1>1, <2>1
  <1>11. QED
    BY <1>3, <1>4, <1>5, <1>6, <1>7, <1>8, <1>9, <1>10
    DEF Next, Ask, Start, Stream, Finish

-----------------------------------------------------------------------------
(* A question is answered at most once, after it was asked *)

Threaded ==
    OneQuestionPerId /\ OneReplyPerQuestion /\ ReplyAfterItsQuestion /\ QuestionOpen

LEMMA InitThreaded == Init => Threaded
  BY NoReqAssumption
  DEF Init, DbInit, Threaded, OneQuestionPerId, OneReplyPerQuestion,
      ReplyAfterItsQuestion, QuestionOpen, Questions, Replies

\* A step that stores nothing, claims nothing and starts no save.
LEMMA ThreadFrame ==
  ASSUME Threaded, messages' = messages, asked' = asked,
         claimant' \in {claimant, NoReq},
         \A s \in Req : pc'[s] \in Holding => pc[s] \in Holding,
         \A s \in Req : pc'[s] = "saving" => pc[s] = "saving" /\ opened'[s] = opened[s]
  PROVE  Threaded'
  <1>1. Questions' = Questions /\ Replies' = Replies
    BY DEF Questions, Replies
  <1>2. QuestionOpen'
    BY <1>1, NoReqAssumption DEF Threaded, QuestionOpen
  <1>3. QED
    BY <1>1, <1>2 DEF Threaded, OneQuestionPerId, OneReplyPerQuestion, ReplyAfterItsQuestion

\* What a retry finds at the end of the conversation leaves its question stored
\* and unanswered: a reply is stamped after its question, so none can hide
\* before it.
LEMMA RetryLeavesOpen ==
  ASSUME Typed, Threaded, NEW q \in Msg, EndsWith(q) \/ ReplyAfter(q) # {}
  PROVE  /\ \A a \in Replies \ ReplyAfter(q) : a.of # q
         /\ \E m \in Questions : m.of = q
  <1>1. \A m \in messages : m.at \in Nat
    BY DEF Typed, TypeOK, DbTypeOK, Message
  <1>2. Questions \subseteq messages /\ Replies \subseteq messages
    BY DEF Questions, Replies
  <1>3. ASSUME EndsWith(q), NEW a \in Replies, a.of = q PROVE FALSE
    <2>1. PICK m \in Questions : m.of = q /\ a.at <= m.at
      BY <1>2, <1>3 DEF EndsWith, Newest
    <2>2. PICK n \in Questions : n.of = q /\ n.at < a.at
      BY <1>3 DEF Threaded, ReplyAfterItsQuestion
    <2>3. m = n
      BY <2>1, <2>2 DEF Threaded, OneQuestionPerId
    <2>4. QED
      BY <1>1, <1>2, <2>1, <2>2, <2>3
  <1>4. ASSUME ReplyAfter(q) # {}, NEW b \in Replies \ ReplyAfter(q), b.of = q PROVE FALSE
    <2>1. PICK a \in ReplyAfter(q) : TRUE
      BY <1>4
    <2>2. PICK m \in Questions : m.of = q /\ Newest(m, messages \ {a})
      BY <2>1 DEF ReplyAfter
    <2>3. b.at <= m.at
      BY <1>2, <1>4, <2>1, <2>2 DEF Newest
    <2>4. PICK n \in Questions : n.of = q /\ n.at < b.at
      BY <1>4 DEF Threaded, ReplyAfterItsQuestion
    <2>5. m = n
      BY <2>2, <2>4 DEF Threaded, OneQuestionPerId
    <2>6. QED
      BY <1>1, <1>2, <1>4, <2>3, <2>4, <2>5
  <1>5. \E m \in Questions : m.of = q
    BY DEF EndsWith, ReplyAfter
  <1>6. QED
    BY <1>3, <1>4, <1>5

LEMMA PersistUserTurnThreaded ==
  ASSUME Typed, Threaded, NEW r \in Req, PersistUserTurn(r)
  PROVE  Threaded'
  <1> DEFINE m0 == [role |-> "user", of |-> asked[r], by |-> r, at |-> opened[r]]
  <1>1. /\ messages' = messages \cup {m0} /\ claimant' = r /\ asked' = asked
        /\ pc'[r] # "saving"
        /\ \A m \in Questions : m.of # asked[r]
    BY DEF PersistUserTurn, CommitClaim, ClaimTurn, Acceptable, FreshId, AddMessage, Goto,
           params, Typed, TypeOK
  <1>2. Questions' = Questions \cup {m0} /\ Replies' = Replies
    BY <1>1 DEF Questions, Replies
  <1>3. OneQuestionPerId'
    BY <1>1, <1>2 DEF Threaded, OneQuestionPerId
  <1>4. OneReplyPerQuestion' /\ ReplyAfterItsQuestion'
    BY <1>2 DEF Threaded, OneReplyPerQuestion, ReplyAfterItsQuestion
  <1>5. \A a \in Replies : a.of # asked[r]
    BY <1>1 DEF Threaded, ReplyAfterItsQuestion
  <1>6. QuestionOpen'
    <2>1. m0 \in Questions' /\ m0.of = asked'[r]
      BY <1>1, <1>2
    <2>2. QED
      BY <1>1, <1>2, <1>5, <2>1 DEF QuestionOpen
  <1>7. QED
    BY <1>3, <1>4, <1>6 DEF Threaded

LEMMA ClaimForRetryThreaded ==
  ASSUME Typed, Threaded, NEW r \in Req, ClaimForRetry(r)
  PROVE  Threaded'
  <1>1. /\ messages' = messages \ ReplyAfter(asked[r]) /\ claimant' = r /\ asked' = asked
        /\ pc'[r] # "saving" /\ asked[r] \in Msg
        /\ EndsWith(asked[r]) \/ ReplyAfter(asked[r]) # {}
    BY DEF ClaimForRetry, CommitClaim, ClaimTurn, Acceptable, Retriable, Goto, params,
           Typed, TypeOK
  <1>2. Questions' = Questions /\ Replies' = Replies \ ReplyAfter(asked[r])
    BY <1>1 DEF Questions, Replies, ReplyAfter
  <1>3. OneQuestionPerId' /\ OneReplyPerQuestion' /\ ReplyAfterItsQuestion'
    BY <1>2 DEF Threaded, OneQuestionPerId, OneReplyPerQuestion, ReplyAfterItsQuestion
  <1>4. QuestionOpen'
    BY <1>1, <1>2, RetryLeavesOpen DEF QuestionOpen
  <1>5. QED
    BY <1>3, <1>4 DEF Threaded

LEMMA BeginSaveThreaded ==
  ASSUME Typed, Threaded, NEW r \in Req, BeginSave(r)
  PROVE  Threaded'
  <1>1. /\ messages' = messages /\ claimant' = claimant /\ asked' = asked
        /\ pc[r] = "finishing" /\ pc' = [pc EXCEPT ![r] = "saving"]
        /\ opened' = [opened EXCEPT ![r] = now + 1]
    BY DEF BeginSave, Opens, Starts, NextTick, Goto, params
  <1>2. Questions' = Questions /\ Replies' = Replies
    BY <1>1 DEF Questions, Replies
  <1>3. \A m \in Questions : m.at < now + 1
    BY DEF Questions, Typed, TypeOK, DbTypeOK, Message
  <1>4. QuestionOpen'
    BY <1>1, <1>2, <1>3 DEF Threaded, QuestionOpen, Holding, Typed, TypeOK
  <1>5. QED
    BY <1>2, <1>4 DEF Threaded, OneQuestionPerId, OneReplyPerQuestion, ReplyAfterItsQuestion

LEMMA PersistAssistantTurnThreaded ==
  ASSUME Typed, Owned, Threaded, NEW r \in Req, PersistAssistantTurn(r)
  PROVE  Threaded'
  <1> DEFINE a0 == [role |-> "assistant", of |-> asked[r], by |-> r, at |-> opened[r]]
  <1>1. /\ pc[r] = "saving" /\ asked' = asked
        /\ \A s \in Req : pc'[s] \in Holding => pc[s] \in Holding
        /\ \A s \in Req : pc'[s] = "saving" => pc[s] = "saving" /\ opened'[s] = opened[s]
    BY DEF PersistAssistantTurn, Goto, Closes, params, Holding, Typed, TypeOK
  <1>2. CASE Holds(token[r])
    <2>1. claimant = r
      BY <1>1, <1>2 DEF Holds, Typed, StampsTaken, Holding, Owned, ClaimIsOwn, Null
    <2>2. messages' = messages \cup {a0} /\ claimant' = NoReq
      BY <1>2 DEF PersistAssistantTurn, ReleaseTurn, AddMessage
    <2>3. Questions' = Questions /\ Replies' = Replies \cup {a0}
      BY <2>2 DEF Questions, Replies
    <2>4. /\ \A a \in Replies : a.of # asked[r]
          /\ \E m \in Questions : m.of = asked[r] /\ m.at < opened[r]
      BY <1>1, <2>1 DEF Threaded, QuestionOpen, Holding
    <2>5. OneQuestionPerId' /\ OneReplyPerQuestion' /\ ReplyAfterItsQuestion'
      BY <2>3, <2>4 DEF Threaded, OneQuestionPerId, OneReplyPerQuestion, ReplyAfterItsQuestion
    <2>6. QuestionOpen'
      BY <2>2, NoReqAssumption DEF QuestionOpen
    <2>7. QED
      BY <2>5, <2>6 DEF Threaded
  <1>3. CASE ~Holds(token[r])
    <2>1. messages' = messages /\ claimant' = claimant
      BY <1>3 DEF PersistAssistantTurn, ReleaseTurn
    <2>2. QED
      BY <1>1, <2>1, ThreadFrame
  <1>4. QED
    BY <1>2, <1>3

LEMMA ThreadedStep == Typed /\ Owned /\ Threaded /\ [Next]_vars => Threaded'
  <1> SUFFICES ASSUME Typed, Owned, Threaded, [Next]_vars PROVE Threaded'
    OBVIOUS
  <1> DEFINE Frame ==
        /\ messages' = messages /\ asked' = asked /\ claimant' \in {claimant, NoReq}
        /\ \A s \in Req : pc'[s] \in Holding => pc[s] \in Holding
        /\ \A s \in Req : pc'[s] = "saving" => pc[s] = "saving" /\ opened'[s] = opened[s]
  <1> USE DEF Goto, Closes, dbVars, params, streamVars, Holding, Typed, TypeOK
  <1>1. Frame => Threaded'
    BY ThreadFrame
  <1>2. ASSUME NEW r \in Req, Begin(r) \/ BeginRefresh(r) PROVE Threaded'
    <2>1. Frame
      BY <1>2 DEF Begin, BeginRefresh, Opens
    <2>2. QED
      BY <1>1, <2>1
  <1>3. ASSUME NEW r \in Req, Refuse(r) \/ SaveFails(r) \/ Refresh(r) \/ ReleaseClaim(r)
                              \/ Settle(r)
        PROVE  Threaded'
    <2>1. Frame
      BY <1>3 DEF Refuse, SaveFails, Refresh, ReleaseClaim, ReleaseTurn, Settle
    <2>2. QED
      BY <1>1, <2>1
  <1>4. ASSUME NEW r \in Req,
               StartTurn(r) \/ StartFails(r) \/ StartStream(r) \/ Write(r)
                 \/ StreamEnds(r) \/ StreamCut(r) \/ BeginDrop(r)
        PROVE  Threaded'
    <2>1. Frame
      BY <1>4 DEF StartTurn, StartFails, StartStream, Write, StreamEnds, StreamCut,
                  BeginDrop, StreamOnly
    <2>2. QED
      BY <1>1, <2>1
  <1>5. ASSUME NEW p \in Proc, StopReply(p) \/ DrainTurns(p) \/ Crash(p) PROVE Threaded'
    <2>1. Frame
      BY <1>5 DEF StopReply, DrainTurns, Crash, Serving
    <2>2. QED
      BY <1>1, <2>1
  <1>6. CASE DeleteConversation
    BY <1>6, NoReqAssumption
    DEF DeleteConversation, DeleteOwned, Threaded, OneQuestionPerId, OneReplyPerQuestion,
        ReplyAfterItsQuestion, QuestionOpen, Questions, Replies
  <1>7. CASE UNCHANGED vars
    <2>1. Frame
      BY <1>7 DEF vars
    <2>2. QED
      BY <1>1, <2>1
  <1>8. QED
    BY <1>2, <1>3, <1>4, <1>5, <1>6, <1>7, PersistUserTurnThreaded, ClaimForRetryThreaded,
       BeginSaveThreaded, PersistAssistantTurnThreaded
    DEF Next, Ask, Start, Stream, Finish

\* The inductive invariant of Turns.
THEOREM InvHolds == Spec => []Inv
  <1> DEFINE I == Typed /\ Owned /\ MessageStampsDistinct /\ Threaded
  <1>1. Init => I
    BY InitTyped, InitOwned, InitStamped, InitThreaded
  <1>2. I /\ [Next]_vars => I'
    BY TypedStep, OwnedStep, StampedStep, ThreadedStep
  <1>3. I => Inv
    BY DEF Typed, Owned, Threaded, Inv
  <1>4. QED
    BY <1>1, <1>2, <1>3, PTL DEF Spec

\* No question ever has two stored replies.
THEOREM OneReply == Spec => []OneReplyPerQuestion
  BY InvHolds, PTL DEF Inv

\* A reply stands after its question in the order pages and the model are shown.
THEOREM RepliesFollow == Spec => []ReplyAfterItsQuestion
  BY InvHolds, PTL DEF Inv

-----------------------------------------------------------------------------
(* [DONE] means free *)

\* Only a save that released the claim says "done", and a request that said so
\* claims nothing afterwards.
DoneAfterRelease ==
    \A r \in Req :
        /\ pc[r] = "dropping" => verdict[r] # "done"
        /\ verdict[r] = "done" =>
              claimant # r /\ pc[r] \in {"settled", "ended", "dead"}

LEMMA DoneStep == Typed /\ Owned /\ DoneAfterRelease /\ [Next]_vars => DoneAfterRelease'
  <1> SUFFICES ASSUME Typed, Owned, DoneAfterRelease, [Next]_vars PROVE DoneAfterRelease'
    OBVIOUS
  <1> USE NoReqAssumption
      DEF Goto, Says, Closes, dbVars, params, streamVars, Typed, TypeOK, DoneAfterRelease
  <1>1. ASSUME NEW r \in Req, Begin(r) \/ PersistUserTurn(r) \/ ClaimForRetry(r) \/ Refuse(r)
        PROVE  DoneAfterRelease'
    BY <1>1 DEF Begin, PersistUserTurn, ClaimForRetry, Refuse, CommitClaim, ClaimTurn
  <1>2. ASSUME NEW r \in Req,
               StartTurn(r) \/ StartFails(r) \/ StartStream(r) \/ Write(r)
                 \/ StreamEnds(r) \/ StreamCut(r) \/ BeginRefresh(r) \/ Refresh(r)
        PROVE  DoneAfterRelease'
    BY <1>2 DEF StartTurn, StartFails, StartStream, Write, StreamEnds, StreamCut,
                BeginRefresh, Refresh, StreamOnly
  <1>3. ASSUME NEW r \in Req,
               BeginSave(r) \/ BeginDrop(r) \/ SaveFails(r) \/ ReleaseClaim(r) \/ Settle(r)
        PROVE  DoneAfterRelease'
    BY <1>3 DEF BeginSave, BeginDrop, SaveFails, ReleaseClaim, ReleaseTurn, Settle
  <1>4. ASSUME NEW r \in Req, PersistAssistantTurn(r) PROVE DoneAfterRelease'
    <2>1. verdict'[r] = "done" => claimant' = NoReq
      BY <1>4 DEF PersistAssistantTurn, ReleaseTurn, Outcome
    <2>2. claimant' \in {claimant, NoReq}
      BY <1>4 DEF PersistAssistantTurn, ReleaseTurn
    <2>3. pc'[r] = "dropping" => verdict'[r] = "failed"
      BY <1>4 DEF PersistAssistantTurn
    <2>4. pc'[r] \in {"settled", "dropping"} /\ (pc'[r] = "dropping" => verdict'[r] # "done")
      BY <1>4, <2>3 DEF PersistAssistantTurn
    <2>5. \A s \in Req \ {r} : pc'[s] = pc[s] /\ verdict'[s] = verdict[s]
      BY <1>4 DEF PersistAssistantTurn
    <2>6. QED
      BY <2>1, <2>2, <2>4, <2>5
  <1>5. ASSUME NEW p \in Proc, StopReply(p) \/ DrainTurns(p) \/ Crash(p)
        PROVE  DoneAfterRelease'
    BY <1>5 DEF StopReply, DrainTurns, Crash
  <1>6. CASE DeleteConversation \/ UNCHANGED vars
    BY <1>6 DEF DeleteConversation, DeleteOwned, vars
  <1>7. QED
    BY <1>1, <1>2, <1>3, <1>4, <1>5, <1>6 DEF Next, Ask, Start, Stream, Finish

\* A client that sees [DONE] finds the conversation free, or held by a later
\* request.
THEOREM DoneIsFree == Spec => []DoneMeansFree
  <1> DEFINE I == Typed /\ Owned /\ DoneAfterRelease
  <1>1. Init => I
    BY InitTyped, InitOwned DEF Init, DoneAfterRelease
  <1>2. I /\ [Next]_vars => I'
    BY TypedStep, OwnedStep, DoneStep
  <1>3. I => DoneMeansFree
    BY DEF DoneAfterRelease, DoneMeansFree
  <1>4. QED
    BY <1>1, <1>2, <1>3, PTL DEF Spec

-----------------------------------------------------------------------------
(* A drain wins *)

\* A turn cancelled while it streamed has nothing written when it finishes.
DrainCuts ==
    \A r \in Req : signal[r] = "drain" =>
        pc[r] # "saving" /\ (pc[r] = "finishing" => ~written[r])

LEMMA DrainStep == Typed /\ DrainCuts /\ [Next]_vars => DrainCuts'
  <1> SUFFICES ASSUME Typed, DrainCuts, [Next]_vars PROVE DrainCuts'
    OBVIOUS
  <1> USE DEF Goto, dbVars, params, streamVars, Typed, TypeOK, DrainCuts
  <1>1. ASSUME NEW r \in Req, Begin(r) \/ PersistUserTurn(r) \/ ClaimForRetry(r) \/ Refuse(r)
        PROVE  DrainCuts'
    BY <1>1 DEF Begin, PersistUserTurn, ClaimForRetry, Refuse, CommitClaim
  <1>2. ASSUME NEW r \in Req,
               StartTurn(r) \/ StartFails(r) \/ StartStream(r) \/ Write(r)
                 \/ StreamEnds(r) \/ StreamCut(r) \/ BeginRefresh(r) \/ Refresh(r)
        PROVE  DrainCuts'
    BY <1>2 DEF StartTurn, StartFails, StartStream, Write, StreamEnds, StreamCut,
                BeginRefresh, Refresh, StreamOnly, Undrained
  <1>3. ASSUME NEW r \in Req,
               BeginSave(r) \/ BeginDrop(r) \/ PersistAssistantTurn(r) \/ SaveFails(r)
                 \/ ReleaseClaim(r) \/ Settle(r)
        PROVE  DrainCuts'
    BY <1>3 DEF BeginSave, BeginDrop, PersistAssistantTurn, SaveFails, ReleaseClaim, Settle
  <1>4. ASSUME NEW p \in Proc, StopReply(p) \/ DrainTurns(p) \/ Crash(p) PROVE DrainCuts'
    BY <1>4 DEF StopReply, DrainTurns, Draining, Crash, Serving
  <1>5. CASE DeleteConversation \/ UNCHANGED vars
    BY <1>5 DEF DeleteConversation, vars
  <1>6. QED
    BY <1>1, <1>2, <1>3, <1>4, <1>5 DEF Next, Ask, Start, Stream, Finish

\* Only the save of an undrained turn stores a reply, and it stores its own.
LEMMA DrainedStep ==
  ASSUME Typed, DrainCuts, [Next]_vars
  PROVE  [\A r \in Req : signal[r] = "drain" => \A a \in Replies' \ Replies : a.by # r]_vars
  <1> DEFINE Goal == \A r \in Req : signal[r] = "drain" => \A a \in Replies' \ Replies : a.by # r
  <1> USE DEF dbVars, params, streamVars
  <1>1. Replies' \subseteq Replies => Goal
    OBVIOUS
  <1>2. ASSUME NEW r \in Req, PersistAssistantTurn(r) PROVE Goal
    <2>1. pc[r] = "saving" /\ signal[r] # "drain"
      BY <1>2 DEF PersistAssistantTurn, DrainCuts
    <2>2. \A a \in Replies' \ Replies : a.by = r
      BY <1>2 DEF PersistAssistantTurn, AddMessage, Replies
    <2>3. QED
      BY <2>1, <2>2
  <1>3. ASSUME NEW r \in Req, PersistUserTurn(r) \/ ClaimForRetry(r) PROVE Goal
    BY <1>1, <1>3 DEF PersistUserTurn, ClaimForRetry, AddMessage, Replies
  <1>4. ASSUME NEW r \in Req,
               Begin(r) \/ Refuse(r) \/ StartTurn(r) \/ StartFails(r) \/ StartStream(r)
                 \/ Write(r) \/ StreamEnds(r) \/ StreamCut(r) \/ BeginRefresh(r) \/ Refresh(r)
        PROVE  Goal
    BY <1>1, <1>4
    DEF Begin, Refuse, StartTurn, StartFails, StartStream, Write, StreamEnds, StreamCut,
        BeginRefresh, Refresh, StreamOnly, Replies
  <1>5. ASSUME NEW r \in Req,
               BeginSave(r) \/ BeginDrop(r) \/ SaveFails(r) \/ ReleaseClaim(r) \/ Settle(r)
        PROVE  Goal
    BY <1>1, <1>5 DEF BeginSave, BeginDrop, SaveFails, ReleaseClaim, Settle, Replies
  <1>6. ASSUME NEW p \in Proc, StopReply(p) \/ DrainTurns(p) \/ Crash(p) PROVE Goal
    BY <1>1, <1>6 DEF StopReply, DrainTurns, Crash, Replies
  <1>7. CASE DeleteConversation \/ UNCHANGED vars
    BY <1>1, <1>7 DEF DeleteConversation, DeleteOwned, Replies, vars
  <1>8. QED
    BY <1>2, <1>3, <1>4, <1>5, <1>6, <1>7 DEF Next, Ask, Start, Stream, Finish

\* A turn that was cancelled while it streamed never has its reply stored.
THEOREM DrainWins == Spec => DrainedStoresNothing
  <1>1. Init => Typed /\ DrainCuts
    BY InitTyped DEF Init, DrainCuts
  <1>2. Typed /\ DrainCuts /\ [Next]_vars => (Typed /\ DrainCuts)'
    BY TypedStep, DrainStep
  <1>3. QED
    BY <1>1, <1>2, DrainedStep, PTL DEF Spec, DrainedStoresNothing

-----------------------------------------------------------------------------
(* Stop keeps reaching a running turn *)

\* Only three steps touch the registry: the start of a later turn, the end of
\* the turn that holds the entry, and the death of its process.
LEMMA EntryStep ==
  ASSUME TypeOK, [Next]_vars, NEW r \in Req,
         OwnEntry(r), pc[r] \in Tasked, pc'[r] \in Tasked, ~OwnEntry(r)'
  PROVE  \E s \in Req : registry'[proc[r]] = s /\ pc'[s] = "starting"
  <1> USE DEF Goto, params, streamVars, TypeOK, OwnEntry, Tasked
  <1>1. registry' # registry /\ proc' = proc
    <2>1. proc' = proc
      BY DEF Next, Ask, Start, Stream, Finish, Begin, PersistUserTurn, ClaimForRetry, Refuse,
             StartTurn, StartFails, StartStream, Write, StreamEnds, StreamCut, BeginRefresh,
             Refresh, BeginSave, BeginDrop, PersistAssistantTurn, SaveFails, ReleaseClaim,
             Settle, StopReply, DrainTurns, Crash, DeleteConversation, StreamOnly, vars
    <2>2. QED
      BY <2>1
  <1>2. \/ \E s \in Req : StartTurn(s) \/ Settle(s)
        \/ \E p \in Proc : Crash(p)
    BY <1>1
    DEF Next, Ask, Start, Stream, Finish, Begin, PersistUserTurn, ClaimForRetry, Refuse,
        StartFails, StartStream, Write, StreamEnds, StreamCut, BeginRefresh, Refresh,
        BeginSave, BeginDrop, PersistAssistantTurn, SaveFails, ReleaseClaim, StopReply,
        DrainTurns, DeleteConversation, StreamOnly, vars
  <1>3. ASSUME NEW s \in Req, StartTurn(s)
        PROVE  \E t \in Req : registry'[proc[r]] = t /\ pc'[t] = "starting"
    BY <1>1, <1>3 DEF StartTurn
  <1>4. ASSUME NEW s \in Req, Settle(s) PROVE FALSE
    BY <1>1, <1>4 DEF Settle, Unregister
  <1>5. ASSUME NEW p \in Proc, Crash(p) PROVE FALSE
    BY <1>1, <1>5 DEF Crash, Serving
  <1>6. QED
    BY <1>2, <1>3, <1>4, <1>5

\* Stop reaches a running turn until its process dies or a later turn registers.
THEOREM EntryIsKept == Spec => EntryKeptWhileRunning
  <1>1. TypeOK /\ [Next]_vars
        => [\A r \in Req :
              OwnEntry(r) /\ pc[r] \in Tasked /\ pc'[r] \in Tasked /\ ~OwnEntry(r)'
                 => \E s \in Req : registry'[proc[r]] = s /\ pc'[s] = "starting"]_vars
    BY EntryStep
  <1>2. QED
    BY <1>1, TypeCorrect, PTL DEF Spec, EntryKeptWhileRunning

-----------------------------------------------------------------------------
\* Turns implement ReplyContract: a step is one of the contract's or a stutter.
EntryOf(m) == [role |-> m.role, of |-> m.of, by |-> m.by]

LEMMA ThreadIs == Thread = {EntryOf(m) : m \in messages}
  BY DEF Thread, EntryOf

\* The entries of the thread are the messages without their stamps.
LEMMA AskedAnswered ==
  ASSUME NEW q
  PROVE  /\ Contract!IsAsked(q) <=> \E m \in Questions : m.of = q
         /\ Contract!IsAnswered(q) <=> \E a \in Replies : a.of = q
  <1>1. \A e : e \in Thread <=> \E m \in messages : e = EntryOf(m)
    BY ThreadIs
  <1>2. \A m : EntryOf(m).role = m.role /\ EntryOf(m).of = m.of
    BY DEF EntryOf
  <1>3. Contract!IsAsked(q) <=> \E m \in Questions : m.of = q
    BY <1>1, <1>2 DEF Contract!IsAsked, Questions
  <1>4. Contract!IsAnswered(q) <=> \E a \in Replies : a.of = q
    BY <1>1, <1>2 DEF Contract!IsAnswered, Replies
  <1>5. QED
    BY <1>3, <1>4

LEMMA ThreadGrows ==
  ASSUME NEW x, messages' = messages \cup {x}
  PROVE  Thread' = Thread \cup {EntryOf(x)}
  <1>1. Thread' = {EntryOf(m) : m \in messages \cup {x}}
    BY DEF Thread, EntryOf
  <1>2. QED
    BY <1>1, ThreadIs

\* A step that changes no row, claim or message is a stutter of the contract.
LEMMA Stutter ==
  ASSUME conv' = conv, claimant' = claimant, messages' = messages
  PROVE  UNCHANGED Contract!vars
  BY DEF Contract!vars, Thread

\* Storing a question is AskNew: the id is new, so no reply to it can stand.
LEMMA SendAsksNew ==
  ASSUME Inv, NEW r \in Req, PersistUserTurn(r)
  PROVE  Contract!AskNew(r, asked[r])
  <1> DEFINE m0 == [role |-> "user", of |-> asked[r], by |-> r, at |-> opened[r]]
  <1>1. /\ conv # "deleted" /\ conv' = "open" /\ claimant' = r
        /\ messages' = messages \cup {m0}
        /\ \A m \in Questions : m.of # asked[r]
    BY DEF PersistUserTurn, CommitClaim, ClaimTurn, Granted, Acceptable, FreshId, AddMessage
  <1>2. \A a \in Replies : a.of # asked[r]
    BY <1>1 DEF Inv, ReplyAfterItsQuestion
  <1>3. Thread' = Thread \cup {Contract!Question(asked[r], r)}
    <2>1. EntryOf(m0) = Contract!Question(asked[r], r)
      BY DEF EntryOf, Contract!Question
    <2>2. Thread' = Thread \cup {EntryOf(m0)}
      BY <1>1, ThreadGrows
    <2>3. QED
      BY <2>1, <2>2
  <1>4. QED
    BY <1>1, <1>2, <1>3, AskedAnswered DEF Contract!AskNew

\* created_at is a total order, so at most one reply stands last.
LEMMA OneNewest ==
  ASSUME Inv, NEW q, NEW a \in ReplyAfter(q), NEW b \in ReplyAfter(q)
  PROVE  a = b
  <1>1. a \in messages /\ b \in messages /\ a.at <= b.at /\ b.at <= a.at
    BY DEF ReplyAfter, Replies, Newest
  <1>2. a.at \in Nat /\ b.at \in Nat
    BY <1>1 DEF Inv, TypeOK, DbTypeOK, Message
  <1>3. QED
    BY <1>1, <1>2 DEF Inv, MessageStampsDistinct

\* A retry is AskAgain: it deletes at most the one reply that stands last, and
\* its question is then unanswered.
LEMMA RetryAsksAgain ==
  ASSUME Inv, NEW r \in Req, ClaimForRetry(r), NEW q \in Msg, q = asked[r]
  PROVE  Contract!AskAgain(r, q)
  <1>1. /\ claimant' = r /\ conv' = "open"
        /\ messages' = messages \ ReplyAfter(q)
        /\ EndsWith(q) \/ ReplyAfter(q) # {}
        /\ conv = "none" \/ conv = "open"
    BY DEF ClaimForRetry, CommitClaim, ClaimTurn, Granted, Acceptable, Retriable
  <1>3. /\ \A a \in Replies \ ReplyAfter(q) : a.of # q
        /\ \E m \in Questions : m.of = q
    BY <1>1, RetryLeavesOpen DEF Inv, Typed, Threaded
  <1>4. conv = "open"
    BY <1>1, <1>3 DEF Inv, TypeOK, DbTypeOK, Questions
  <1>5. Replies' = Replies \ ReplyAfter(q)
    BY <1>1 DEF Replies
  <1>6. ~Contract!IsAnswered(q)'
    <2>1. \A e : e \in Thread' <=> \E m \in messages' : e = EntryOf(m)
      BY DEF Thread, EntryOf
    <2>2. \A e \in Thread' : ~(e.role = "assistant" /\ e.of = q)
      BY <1>3, <1>5, <2>1 DEF EntryOf, Replies
    <2>3. QED
      BY <2>2 DEF Contract!IsAnswered
  <1>7. \/ Thread' = Thread
        \/ \E e \in Thread : e.role = "assistant" /\ Thread' = Thread \ {e}
    <2>1. CASE ReplyAfter(q) = {}
      BY <1>1, <2>1 DEF Thread
    <2>2. CASE ReplyAfter(q) # {}
      <3>1. PICK a \in ReplyAfter(q) : TRUE
        BY <2>2
      <3>2. ReplyAfter(q) = {a}
        BY <3>1, OneNewest
      <3>3. a \in messages /\ a.role = "assistant"
        BY <3>1 DEF ReplyAfter, Replies
      <3>4. \A m \in messages : EntryOf(m) = EntryOf(a) => m = a
        <4>1. SUFFICES ASSUME NEW m \in messages, EntryOf(m) = EntryOf(a) PROVE m = a
          OBVIOUS
        <4>2. m.role = a.role /\ m.of = a.of
          BY <4>1 DEF EntryOf
        <4>3. QED
          BY <3>3, <4>2 DEF Inv, OneReplyPerQuestion, Replies
      <3>5. Thread' = {EntryOf(m) : m \in messages \ {a}}
        BY <1>1, <3>2 DEF Thread, EntryOf
      <3>6. Thread' = Thread \ {EntryOf(a)}
        BY <3>3, <3>4, <3>5, ThreadIs
      <3>7. EntryOf(a) \in Thread /\ EntryOf(a).role = "assistant"
        BY <3>3, ThreadIs DEF EntryOf
      <3>8. QED
        BY <3>6, <3>7
    <2>3. QED
      BY <2>1, <2>2
  <1>8. Contract!IsAsked(q)
    BY <1>3, AskedAnswered
  <1>9. QED
    BY <1>1, <1>4, <1>6, <1>7, <1>8 DEF Contract!AskAgain

\* A save that releases the turn's own claim is Reply; any other is a stutter.
LEMMA SaveReplies ==
  ASSUME Inv, NEW r \in Req, PersistAssistantTurn(r)
  PROVE  Contract!Reply(r, asked[r]) \/ UNCHANGED Contract!vars
  <1> DEFINE a0 == [role |-> "assistant", of |-> asked[r], by |-> r, at |-> opened[r]]
  <1>1. CASE Holds(token[r])
    <2>1. pc[r] = "saving" /\ conv' = conv /\ claimant' = NoReq
      BY <1>1 DEF PersistAssistantTurn, ReleaseTurn
    <2>2. claimant = r
      BY <1>1, <2>1 DEF Holds, Inv, StampsTaken, Holding, ClaimIsOwn, Null
    <2>3. /\ \A a \in Replies : a.of # asked[r]
          /\ \E m \in Questions : m.of = asked[r]
      BY <2>1, <2>2 DEF Inv, QuestionOpen, Holding
    <2>4. messages' = messages \cup {a0}
      BY <1>1 DEF PersistAssistantTurn, AddMessage
    <2>5. Thread' = Thread \cup {Contract!Answer(asked[r], r)}
      <3>1. EntryOf(a0) = Contract!Answer(asked[r], r)
        BY DEF EntryOf, Contract!Answer
      <3>2. Thread' = Thread \cup {EntryOf(a0)}
        BY <2>4, ThreadGrows
      <3>3. QED
        BY <3>1, <3>2
    <2>6. QED
      BY <2>1, <2>2, <2>3, <2>5, AskedAnswered DEF Contract!Reply
  <1>2. CASE ~Holds(token[r])
    BY <1>2, Stutter DEF PersistAssistantTurn, ReleaseTurn
  <1>3. QED
    BY <1>1, <1>2

LEMMA ReleaseFrees ==
  ASSUME Inv, NEW r \in Req, ReleaseClaim(r)
  PROVE  Contract!Free(r) \/ UNCHANGED Contract!vars
  <1>1. conv' = conv /\ messages' = messages /\ pc[r] = "dropping"
    BY DEF ReleaseClaim
  <1>2. CASE claimant' = claimant
    BY <1>1, <1>2, Stutter
  <1>3. CASE claimant' # claimant
    <2>1. Holds(token[r]) /\ claimant' = NoReq
      BY <1>3 DEF ReleaseClaim, ReleaseTurn
    <2>2. claimant = r
      BY <1>1, <2>1 DEF Holds, Inv, StampsTaken, Holding, ClaimIsOwn, Null
    <2>3. QED
      BY <1>1, <2>1, <2>2 DEF Contract!Free, Thread
  <1>4. QED
    BY <1>2, <1>3

LEMMA StepKeepsContract == Inv /\ [Next]_vars => [Contract!Next]_(Contract!vars)
  <1> SUFFICES ASSUME Inv, [Next]_vars PROVE Contract!Next \/ UNCHANGED Contract!vars
    OBVIOUS
  <1> USE DEF dbVars, params, streamVars
  <1>0. \A r \in Req : asked[r] \in Msg
    BY DEF Inv, TypeOK
  <1>1. ASSUME NEW r \in Req, PersistUserTurn(r) PROVE Contract!Next
    BY <1>0, <1>1, SendAsksNew DEF Contract!Next
  <1>2. ASSUME NEW r \in Req, ClaimForRetry(r) PROVE Contract!Next
    BY <1>0, <1>2, RetryAsksAgain DEF Contract!Next
  <1>3. ASSUME NEW r \in Req, PersistAssistantTurn(r)
        PROVE  Contract!Next \/ UNCHANGED Contract!vars
    BY <1>0, <1>3, SaveReplies DEF Contract!Next
  <1>4. ASSUME NEW r \in Req, ReleaseClaim(r) PROVE Contract!Next \/ UNCHANGED Contract!vars
    BY <1>4, ReleaseFrees DEF Contract!Next
  <1>5. ASSUME NEW r \in Req,
               Begin(r) \/ Refuse(r) \/ StartTurn(r) \/ StartFails(r) \/ StartStream(r)
                 \/ Write(r) \/ StreamEnds(r) \/ StreamCut(r) \/ BeginRefresh(r) \/ Refresh(r)
        PROVE  UNCHANGED Contract!vars
    BY <1>5, Stutter
    DEF Begin, Refuse, StartTurn, StartFails, StartStream, Write, StreamEnds, StreamCut,
        BeginRefresh, Refresh, StreamOnly
  <1>6. ASSUME NEW r \in Req, BeginSave(r) \/ BeginDrop(r) \/ SaveFails(r) \/ Settle(r)
        PROVE  UNCHANGED Contract!vars
    BY <1>6, Stutter DEF BeginSave, BeginDrop, SaveFails, Settle
  <1>7. ASSUME NEW p \in Proc, StopReply(p) \/ DrainTurns(p) \/ Crash(p)
        PROVE  UNCHANGED Contract!vars
    BY <1>7, Stutter DEF StopReply, DrainTurns, Crash
  <1>8. CASE DeleteConversation
    BY <1>8 DEF DeleteConversation, DeleteOwned, Contract!Next, Contract!Delete, Thread
  <1>9. CASE UNCHANGED vars
    BY <1>9, Stutter DEF vars
  <1>10. QED
    BY <1>1, <1>2, <1>3, <1>4, <1>5, <1>6, <1>7, <1>8, <1>9
    DEF Next, Ask, Start, Stream, Finish

\* Turns keep the contract: only the claim's holder stores a reply, to its own
\* question, freeing the conversation in the same step.
THEOREM Refines == Spec => KeepsContract
  <1>1. Init => Contract!Init
    BY DEF Init, DbInit, Contract!Init, Thread
  <1>2. Inv /\ [Next]_vars => [Contract!Next]_(Contract!vars)
    BY StepKeepsContract
  <1>3. QED
    BY <1>1, <1>2, InvHolds, PTL DEF Spec, KeepsContract, Contract!Spec
=============================================================================
