--------------------------- MODULE AccountsProofs ---------------------------
(***************************************************************************)
(* Proofs of the safety properties of Accounts, for every set of requests. *)
(* They rest on one inductive invariant: who holds which lock, what a      *)
(* transaction past its locks may still assume of the committed rows, and  *)
(* what has become of the links a void_unused has seen.                    *)
(***************************************************************************)
EXTENDS Accounts, TLAPS

\* Which requests reach which statement.
KindFits ==
    \A r \in Req :
        /\ pc[r] = "idle" <=> kind[r] = "none"
        /\ pc[r] \in {"account", "linking"} => kind[r] = "oauth"
        /\ pc[r] \in {"link", "void", "locking"} => kind[r] # "oauth"
        /\ pc[r] = "replace" => kind[r] = "signup"
        /\ pc[r] = "flush" => kind[r] \in Confirms \cup {"oauth"}
        /\ kind[r] \in Confirms => via[r] \in Req

\* What a transaction has written by the statement it has reached.
WritesFit ==
    \A r \in Req :
        /\ writes[r] # {} => pc[r] \in {"linking", "flush", "commit"}
        /\ "account" \in writes[r] => pc[r] \in {"flush", "commit"}
        /\ pc[r] \in {"linking", "flush"} /\ HoldsUser(r)
           => "user" \in writes[r] /\ "verified" \in writes[r]
        /\ reach[r] # {}
           => pc[r] \in {"locking", "replace", "flush", "commit", "done", "lost"}
        /\ locked[r] # {} => pc[r] \in {"replace", "flush", "commit"}
        /\ locked[r] \subseteq reach[r]

\* A row has one writer.
LinksApart == \A r, s \in Req : r # s => locked[r] \cap locked[s] = {}
UserApart == \A r, s \in Req : HoldsUser(r) /\ HoldsUser(s) => r = s

\* Where the users row is.
RowThere ==
    /\ user.verified \/ user.linked => user.exists
    /\ \A r \in Req :
          /\ "user" \in writes[r] => ~user.exists
          /\ pc[r] \in {"void", "locking", "replace", "linking", "flush", "commit"}
             => user.exists \/ "user" \in writes[r]
          /\ saw[r].verified => user.verified
          /\ r \in rerun => user.exists /\ pc[r] # "insert"

\* What a commit will leave of verification.
CommitFits ==
    \A r \in Req : pc[r] = "commit" =>
        /\ kind[r] \in Confirms \cup {"oauth"}
           => user.verified \/ "verified" \in writes[r]
        /\ kind[r] = "signup"
           => \/ user.verified /\ writes[r] = {}
              \/ ~user.verified /\ {"link", "password"} \subseteq writes[r]
        /\ kind[r] = "resend" => "link" \in writes[r]
        /\ kind[r] \in {"resend", "forgot"} => ~HoldsUser(r)

\* A link belongs to a request that has committed.
LinksFit ==
    /\ \A l \in Req : link[l] # "none" => pc[l] \in {"done", "lost"}
    /\ \A l \in expired : link[l] # "none"
    /\ \A r \in Req : \A l \in reach[r] :
          /\ link[l] # "none"
          /\ Purpose(l) = Purpose(r)
          /\ pc[r] # "locking" => l \in locked[r] \/ link[l] # "live"

\* A confirm past consume holds its link; one that took effect has used it.
Spending ==
    \A r \in Req : kind[r] \in Confirms =>
        /\ pc[r] \in {"flush", "commit"} => via[r] \in locked[r] /\ link[via[r]] = "live"
        /\ pc[r] \in {"done", "lost"} => link[via[r]] \in {"used", "gone"}

Inv ==
    /\ TypeOK
    /\ KindFits
    /\ WritesFit
    /\ LinksApart
    /\ UserApart
    /\ RowThere
    /\ CommitFits
    /\ LinksFit
    /\ Spending
    /\ PendingHasLink
    /\ LinkSpentOnce
    /\ SignupResolves

-----------------------------------------------------------------------------
(* Type correctness *)

LEMMA RowsTyped == Nobody \in UserRow /\ Placeholder \in UserRow
  BY DEF Nobody, Placeholder, UserRow

LEMMA InitTyped == Init => TypeOK
  BY RowsTyped DEF Init, TypeOK

LEMMA RolledBackTyped ==
  ASSUME TypeOK, NEW r \in Req, RollsBack(r)
  PROVE  /\ saw' \in [Req -> UserRow]
         /\ reach' \in [Req -> SUBSET Req]
         /\ locked' \in [Req -> SUBSET Req]
         /\ writes' \in [Req -> SUBSET {"user", "password", "verified", "account", "link"}]
  BY RowsTyped DEF RollsBack, TypeOK

LEMMA StepTyped == TypeOK /\ [Next]_vars => TypeOK'
  <1> SUFFICES ASSUME TypeOK, [Next]_vars PROVE TypeOK'
    OBVIOUS
  <1> USE DEF rows, request, vars, Goes
  <1>1. ASSUME NEW r \in Req, NEW how \in Ended, Ends(r, how) PROVE TypeOK'
    BY <1>1, RolledBackTyped DEF Ends, TypeOK, Ended
  <1>2. ASSUME NEW r \in Req, Begin(r) PROVE TypeOK'
    BY <1>2 DEF Begin, TypeOK, First, Kinds, Confirms
  <1>3. ASSUME NEW r \in Req, GetValid(r) PROVE TypeOK'
    BY <1>3, <1>1 DEF GetValid, TypeOK, Ended
  <1>4. ASSUME NEW r \in Req, GetUserByAccount(r) PROVE TypeOK'
    BY <1>4, <1>1 DEF GetUserByAccount, TypeOK, Ended
  <1>5. ASSUME NEW r \in Req, GetUser(r) PROVE TypeOK'
    BY <1>5, <1>1 DEF GetUser, TypeOK, Loads, AfterRead, Ended
  <1>6. ASSUME NEW r \in Req, VoidUnused(r) PROVE TypeOK'
    BY <1>6 DEF VoidUnused, TypeOK
  <1>7. ASSUME NEW r \in Req, LockLinks(r) PROVE TypeOK'
    BY <1>7 DEF LockLinks, Locks, TypeOK
  <1>8. ASSUME NEW r \in Req, Consume(r) PROVE TypeOK'
    BY <1>8, <1>1 DEF Consume, Locks, Loses, TypeOK, Ended
  <1>9. ASSUME NEW r \in Req, ReplacePendingPassword(r) PROVE TypeOK'
    BY <1>9 DEF ReplacePendingPassword, TypeOK
  <1>10. ASSUME NEW r \in Req, IntegrityError(r) PROVE TypeOK'
    BY <1>10, RolledBackTyped DEF IntegrityError, Restart, First, Ended, TypeOK
  <1>11. ASSUME NEW r \in Req, InsertUser(r) PROVE TypeOK'
    BY <1>11, <1>10 DEF InsertUser, TypeOK
  <1>12. ASSUME NEW r \in Req, LinkAccount(r) PROVE TypeOK'
    BY <1>12, <1>10 DEF LinkAccount, TypeOK
  <1>13. ASSUME NEW r \in Req, Flush(r) PROVE TypeOK'
    BY <1>13 DEF Flush, Dirty, TypeOK
  <1>14. ASSUME NEW r \in Req, Commit(r) PROVE TypeOK'
    <2>1. user' \in UserRow
      BY <1>14 DEF Commit, UserAfter, NewPassword, UserRow, TypeOK
    <2>2. saw' \in [Req -> UserRow]
      BY <1>14, RowsTyped DEF Commit, TypeOK
    <2>3. QED
      BY <1>14, <2>1, <2>2 DEF Commit, Ended, TypeOK
  <1>15. ASSUME NEW r \in Req, Abort(r) PROVE TypeOK'
    BY <1>15, <1>1 DEF Abort, Ended
  <1>16. ASSUME NEW l \in Req, Expire(l) \/ DeleteDead(l) PROVE TypeOK'
    BY <1>16 DEF Expire, DeleteDead, TypeOK
  <1>17. CASE UNCHANGED vars
    BY <1>17 DEF TypeOK
  <1>18. QED
    BY <1>2, <1>3, <1>4, <1>5, <1>6, <1>7, <1>8, <1>9, <1>11, <1>12, <1>13, <1>14,
       <1>15, <1>16, <1>17 DEF Next

\* Every variable keeps its type, for any number of requests and errors.
THEOREM TypeCorrect == Spec => []TypeOK
  BY InitTyped, StepTyped, PTL DEF Spec

-----------------------------------------------------------------------------
(* The invariant *)

LEMMA InitInv == Init => Inv
  <1> SUFFICES ASSUME Init PROVE Inv
    OBVIOUS
  <1>1. TypeOK
    BY InitTyped
  <1>2. KindFits /\ WritesFit /\ LinksApart /\ UserApart
    BY DEF Init, KindFits, WritesFit, LinksApart, UserApart, HoldsUser, Confirms
  <1>3. RowThere /\ CommitFits /\ LinksFit /\ Spending /\ PendingHasLink
    BY DEF Init, Nobody, Placeholder, RowThere, CommitFits, LinksFit, Spending,
           PendingHasLink, Confirms
  <1>4. LinkSpentOnce /\ SignupResolves
    BY DEF Init, LinkSpentOnce, SignupResolves, Confirms
  <1>5. QED
    BY <1>1, <1>2, <1>3, <1>4 DEF Inv

\* A request that rolls back.
LEMMA EndsKeeps ==
  ASSUME Inv, TypeOK', NEW r \in Req, NEW how \in {"done", "refused", "error"},
         Open(r), Ends(r, how), kind[r] \in Confirms => how # "done"
  PROVE  Inv'
  <1> USE DEF Inv, TypeOK, UserRow, Ended, Confirms, Goes, rows, request, Purpose,
              HoldsUser,
              Open, Ends, RollsBack, Nobody
  <1>1. KindFits' /\ WritesFit' /\ LinksApart' /\ UserApart'
    BY DEF KindFits, WritesFit, LinksApart, UserApart
  <1>2. RowThere' /\ CommitFits' /\ LinksFit' /\ Spending' /\ PendingHasLink'
    BY DEF RowThere, CommitFits, LinksFit, Spending, PendingHasLink
  <1>3. LinkSpentOnce' /\ SignupResolves'
    BY DEF LinkSpentOnce, SignupResolves
  <1>4. QED
    BY <1>1, <1>2, <1>3

\* A refused INSERT: the users row is there.
LEMMA IntegrityErrorKeeps ==
  ASSUME Inv, TypeOK', NEW r \in Req, IntegrityError(r), user.exists,
         pc[r] \in {"insert", "linking"}
  PROVE  Inv'
  <1> USE DEF Inv, TypeOK, UserRow, Ended, Confirms, Goes, rows, request, Purpose,
              HoldsUser,
              IntegrityError, Restart, First, RollsBack, Nobody
  <1>1. KindFits' /\ WritesFit' /\ LinksApart' /\ UserApart'
    BY DEF KindFits, WritesFit, LinksApart, UserApart
  <1>2. PendingHasLink'
    BY DEF PendingHasLink
  <1>3. LinkSpentOnce'
    BY DEF LinkSpentOnce
  <1>4. RowThere'
    BY DEF RowThere
  <1>5. CommitFits'
    BY DEF CommitFits
  <1>6. LinksFit'
    <2>1. link[r] = "none" /\ reach'[r] = {} /\ UNCHANGED <<link, expired, kind>>
      BY DEF LinksFit
    <2>2. ASSUME NEW q \in Req \ {r}
          PROVE  reach'[q] = reach[q] /\ locked'[q] = locked[q] /\ pc'[q] = pc[q]
      OBVIOUS
    <2>3. QED
      BY <2>1, <2>2 DEF LinksFit
  <1>7. Spending'
    BY DEF Spending
  <1>8. SignupResolves'
    BY DEF SignupResolves, RowThere, KindFits
  <1>9. QED
    BY <1>1, <1>2, <1>3, <1>4, <1>5, <1>6, <1>7, <1>8

\* A request has no links yet when it gets its kind.
LEMMA BeginKeeps ==
  ASSUME Inv, TypeOK', NEW r \in Req, Begin(r)
  PROVE  Inv'
  <1> USE DEF Inv, TypeOK, UserRow, Ended, Confirms, Goes, rows, request, Purpose,
              HoldsUser,
              Begin, First, Kinds, Mailed
  <1>1. KindFits'
    BY DEF KindFits
  <1>2. WritesFit'
    BY DEF WritesFit
  <1>3. LinksApart'
    BY DEF LinksApart
  <1>4. UserApart'
    BY DEF UserApart
  <1>5. RowThere' /\ CommitFits'
    BY DEF RowThere, CommitFits
  <1>6. Spending'
    BY DEF Spending
  <1>7. LinkSpentOnce' /\ SignupResolves'
    BY DEF LinkSpentOnce, SignupResolves
  <1>8. LinksFit'
    <2>1. link[r] = "none" /\ reach[r] = {}
      BY DEF LinksFit, WritesFit
    <2>2. ASSUME NEW q \in Req, NEW l \in reach'[q]
          PROVE  q # r /\ l # r /\ l \in reach[q] /\ Purpose(l)' = Purpose(l)
                 /\ Purpose(q)' = Purpose(q) /\ pc'[q] = pc[q]
      BY <2>1 DEF LinksFit
    <2>3. QED
      BY <2>1, <2>2 DEF LinksFit
  <1>9. PendingHasLink'
    BY DEF PendingHasLink, LinksFit
  <1>10. QED
    BY <1>1, <1>2, <1>3, <1>4, <1>5, <1>6, <1>7, <1>8, <1>9

\* get_valid and get_user_by_account, when the request goes on.
LEMMA PassKeeps ==
  ASSUME Inv, TypeOK', NEW r \in Req, pc[r] \in {"link", "account"}, Goes(r, "user"),
         UNCHANGED <<rows, request, saw, reach, locked, writes>>
  PROVE  Inv'
  <1> USE DEF Inv, TypeOK, UserRow, Ended, Confirms, Goes, rows, request, Purpose,
              HoldsUser
  <1>1. KindFits' /\ WritesFit' /\ LinksApart' /\ UserApart'
    BY DEF KindFits, WritesFit, LinksApart, UserApart
  <1>2. RowThere' /\ CommitFits' /\ LinksFit' /\ Spending' /\ PendingHasLink'
    BY DEF RowThere, CommitFits, LinksFit, Spending, PendingHasLink
  <1>3. LinkSpentOnce' /\ SignupResolves'
    BY DEF LinkSpentOnce, SignupResolves
  <1>4. QED
    BY <1>1, <1>2, <1>3

\* What the session loads is no newer than the row.
LEMMA GetUserKeeps ==
  ASSUME Inv, TypeOK', NEW r \in Req, pc[r] = "user", ~NothingToDo(r), Loads(r),
         Goes(r, AfterRead(r)), UNCHANGED <<rows, request, reach, locked>>
  PROVE  Inv'
  <1> USE DEF Inv, TypeOK, UserRow, Ended, Confirms, Goes, rows, request, Purpose,
              HoldsUser,
              Loads, AfterRead, NothingToDo
  <1>1. KindFits' /\ WritesFit' /\ LinksApart' /\ UserApart'
    BY DEF KindFits, WritesFit, LinksApart, UserApart
  <1>2. CommitFits' /\ LinksFit' /\ Spending' /\ PendingHasLink'
    BY DEF CommitFits, LinksFit, Spending, PendingHasLink
  <1>3. LinkSpentOnce' /\ SignupResolves'
    BY DEF LinkSpentOnce, SignupResolves
  <1>4. RowThere'
    <2>1. pc'[r] = "insert" => ~user.exists
      BY DEF AfterRead
    <2>2. pc'[r] # "insert" => user.exists
      BY DEF AfterRead
    <2>3. saw'[r] = user /\ UNCHANGED <<user, rerun, writes>>
      OBVIOUS
    <2>4. QED
      BY <2>1, <2>2, <2>3 DEF RowThere
  <1>5. QED
    BY <1>1, <1>2, <1>3, <1>4

\* The snapshot holds links of the request's purpose.
LEMMA VoidUnusedKeeps ==
  ASSUME Inv, TypeOK', NEW r \in Req, VoidUnused(r)
  PROVE  Inv'
  <1> USE DEF Inv, TypeOK, UserRow, Ended, Confirms, Goes, rows, request, Purpose,
              HoldsUser,
              VoidUnused
  <1>1. KindFits' /\ WritesFit' /\ LinksApart' /\ UserApart'
    BY DEF KindFits, WritesFit, LinksApart, UserApart
  <1>2. RowThere' /\ CommitFits' /\ LinksFit' /\ Spending' /\ PendingHasLink'
    BY DEF RowThere, CommitFits, LinksFit, Spending, PendingHasLink
  <1>3. LinkSpentOnce' /\ SignupResolves'
    BY DEF LinkSpentOnce, SignupResolves
  <1>4. QED
    BY <1>1, <1>2, <1>3

\* Links are locked once nobody else holds them.
LEMMA LockLinksKeeps ==
  ASSUME Inv, TypeOK', NEW r \in Req, LockLinks(r)
  PROVE  Inv'
  <1> USE DEF Inv, TypeOK, UserRow, Ended, Confirms, Goes, rows, request, Purpose,
              HoldsUser,
              LockLinks, Locks, WaitsFor
  <1>1. KindFits'
    BY DEF KindFits
  <1>2. WritesFit'
    BY DEF WritesFit
  <1>3. LinksApart'
    BY DEF LinksApart
  <1>4. UserApart'
    BY DEF UserApart
  <1>5. LinksFit' /\ Spending' /\ PendingHasLink'
    BY DEF LinksFit, Spending, PendingHasLink
  <1>6. LinkSpentOnce' /\ SignupResolves'
    BY DEF LinkSpentOnce, SignupResolves
  <1>7. RowThere'
    BY DEF RowThere, WritesFit
  <1>8. CommitFits'
    BY DEF CommitFits, KindFits
  <1>9. QED
    BY <1>1, <1>2, <1>3, <1>4, <1>5, <1>6, <1>7, <1>8

\* The winner holds its link.
LEMMA ConsumeKeeps ==
  ASSUME Inv, TypeOK', NEW r \in Req, Consume(r), Wins(r)
  PROVE  Inv'
  <1> USE DEF Inv, TypeOK, UserRow, Ended, Confirms, Goes, rows, request, Purpose,
              HoldsUser,
              Consume, Wins, Locks, StillUnused, WaitsFor
  <1>1. RowThere' /\ CommitFits' /\ Spending' /\ PendingHasLink'
    BY DEF RowThere, CommitFits, Spending, PendingHasLink
  <1>2. LinkSpentOnce' /\ SignupResolves'
    BY DEF LinkSpentOnce, SignupResolves
  <1>3. KindFits'
    BY DEF KindFits
  <1>4. WritesFit'
    BY DEF WritesFit
  <1>5. LinksApart'
    BY DEF LinksApart
  <1>6. UserApart'
    BY DEF UserApart
  <1>7. LinksFit'
    <2>1. UNCHANGED <<link, expired, kind, reach>> /\ pc'[r] = "flush" /\ pc[r] = "locking"
      OBVIOUS
    <2>2. ASSUME NEW q \in Req \ {r}
          PROVE  locked'[q] = locked[q] /\ pc'[q] = pc[q]
      OBVIOUS
    <2>3. \A l \in reach[r] : l \in locked'[r] \/ link[l] # "live"
      OBVIOUS
    <2> HIDE DEF Consume, Wins, Locks, StillUnused, WaitsFor, HoldsUser, TypeOK
    <2>4. QED
      BY <2>1, <2>2, <2>3 DEF LinksFit
  <1>8. QED
    BY <1>1, <1>2, <1>3, <1>4, <1>5, <1>6, <1>7

\* A pending password is replaced in an unverified row that nobody is writing.
LEMMA ReplaceKeeps ==
  ASSUME Inv, TypeOK', NEW r \in Req, ReplacePendingPassword(r)
  PROVE  Inv'
  <1> USE DEF Inv, TypeOK, UserRow, Ended, Confirms, Goes, rows, request, Purpose,
              HoldsUser,
              ReplacePendingPassword, Replaces, WaitsFor, WantsUser
  <1>1. KindFits' /\ WritesFit' /\ LinksApart' /\ UserApart'
    BY DEF KindFits, WritesFit, LinksApart, UserApart
  <1>2. LinksFit' /\ PendingHasLink'
    BY DEF LinksFit, PendingHasLink
  <1>3. LinkSpentOnce' /\ SignupResolves'
    BY DEF LinkSpentOnce, SignupResolves
  <1>4. RowThere'
    BY DEF RowThere, WritesFit
  <1>5. CommitFits'
    BY DEF CommitFits, KindFits
  <1>6. Spending'
    BY DEF Spending, KindFits
  <1>7. QED
    BY <1>1, <1>2, <1>3, <1>4, <1>5, <1>6

\* A sign-up inserts the row with its password and its link.
LEMMA InsertPendingKeeps ==
  ASSUME Inv, TypeOK', NEW r \in Req, pc[r] = "insert", WaitsFor(r) = {}, ~user.exists,
         kind[r] = "signup",
         writes' = [writes EXCEPT ![r] = {"user", "password", "link"}], Goes(r, "commit"),
         UNCHANGED <<rows, request, saw, reach, locked>>
  PROVE  Inv'
  <1> USE DEF Inv, TypeOK, UserRow, Ended, Confirms, Goes, rows, request, Purpose,
              HoldsUser,
              WaitsFor, WantsUser
  <1>1. KindFits' /\ WritesFit' /\ LinksApart' /\ UserApart'
    BY DEF KindFits, WritesFit, LinksApart, UserApart
  <1>2. RowThere' /\ LinksFit' /\ Spending' /\ PendingHasLink'
    BY DEF RowThere, LinksFit, Spending, PendingHasLink
  <1>3. LinkSpentOnce' /\ SignupResolves'
    BY DEF LinkSpentOnce, SignupResolves
  <1>4. CommitFits'
    BY DEF CommitFits, RowThere
  <1>5. QED
    BY <1>1, <1>2, <1>3, <1>4

\* A provider sign-in inserts a verified row.
LEMMA InsertVerifiedKeeps ==
  ASSUME Inv, TypeOK', NEW r \in Req, pc[r] = "insert", WaitsFor(r) = {}, ~user.exists,
         kind[r] = "oauth",
         writes' = [writes EXCEPT ![r] = {"user", "verified"}], Goes(r, "linking"),
         UNCHANGED <<rows, request, saw, reach, locked>>
  PROVE  Inv'
  <1> USE DEF Inv, TypeOK, UserRow, Ended, Confirms, Goes, rows, request, Purpose,
              HoldsUser,
              WaitsFor, WantsUser
  <1>1. KindFits' /\ WritesFit' /\ LinksApart' /\ UserApart'
    BY DEF KindFits, WritesFit, LinksApart, UserApart
  <1>2. RowThere' /\ LinksFit' /\ Spending' /\ PendingHasLink'
    BY DEF RowThere, LinksFit, Spending, PendingHasLink
  <1>3. LinkSpentOnce' /\ SignupResolves'
    BY DEF LinkSpentOnce, SignupResolves
  <1>4. CommitFits'
    BY DEF CommitFits, RowThere
  <1>5. QED
    BY <1>1, <1>2, <1>3, <1>4

\* The account is linked by one request at a time.
LEMMA LinkAccountKeeps ==
  ASSUME Inv, TypeOK', NEW r \in Req, pc[r] = "linking", WaitsFor(r) = {}, ~user.linked,
         writes' = [writes EXCEPT ![r] = @ \cup {"account"}], Goes(r, "flush"),
         UNCHANGED <<rows, request, saw, reach, locked>>
  PROVE  Inv'
  <1> USE DEF Inv, TypeOK, UserRow, Ended, Confirms, Goes, rows, request, Purpose,
              HoldsUser
  <1>1. KindFits'
    BY DEF KindFits
  <1>2. LinksApart'
    BY DEF LinksApart
  <1>3. RowThere' /\ CommitFits'
    BY DEF RowThere, CommitFits
  <1>4. LinkSpentOnce' /\ SignupResolves'
    BY DEF LinkSpentOnce, SignupResolves
  <1>5. WritesFit'
    <2>1. writes'[r] = writes[r] \cup {"account"} /\ pc'[r] = "flush" /\ pc[r] = "linking"
      OBVIOUS
    <2>2. ASSUME NEW q \in Req \ {r}
          PROVE  writes'[q] = writes[q] /\ pc'[q] = pc[q]
      OBVIOUS
    <2>3. QED
      BY <2>1, <2>2 DEF WritesFit
  <1>6. UserApart'
    BY DEF UserApart, WritesFit
  <1>7. LinksFit'
    BY DEF LinksFit
  <1>8. Spending'
    BY DEF Spending, KindFits
  <1>9. PendingHasLink'
    BY DEF PendingHasLink
  <1>10. QED
    BY <1>1, <1>2, <1>3, <1>4, <1>5, <1>6, <1>7, <1>8, <1>9

\* The loaded user's new values are written to a row that nobody is writing.
LEMMA FlushKeeps ==
  ASSUME Inv, TypeOK', NEW r \in Req, Flush(r)
  PROVE  Inv'
  <1> USE DEF Inv, TypeOK, UserRow, Ended, Confirms, Goes, rows, request, Purpose,
              HoldsUser,
              Flush
  <1>1. KindFits' /\ WritesFit' /\ LinksApart'
    BY DEF KindFits, WritesFit, LinksApart
  <1>2. LinksFit' /\ Spending' /\ PendingHasLink'
    BY DEF LinksFit, Spending, PendingHasLink
  <1>3. LinkSpentOnce' /\ SignupResolves'
    BY DEF LinkSpentOnce, SignupResolves
  <1>4. UserApart'
    <2>1. \A s \in Req \ {r} : HoldsUser(s)' => HoldsUser(s)
      OBVIOUS
    <2>2. CASE Dirty(r) = {}
      BY <2>1, <2>2 DEF UserApart
    <2>3. CASE Dirty(r) # {}
      <3>1. \A s \in Req \ {r} : ~HoldsUser(s)
        BY <2>3 DEF WaitsFor, WantsUser
      <3>2. QED
        BY <2>1, <3>1 DEF UserApart
    <2>4. QED
      BY <2>2, <2>3
  <1>5. RowThere'
    <2>1. Dirty(r) \subseteq {"verified", "password"}
      BY DEF Dirty
    <2>2. QED
      BY <2>1 DEF RowThere
  <1>6. CommitFits'
    <2>1. user.verified \/ "verified" \in writes'[r]
      <3>1. CASE "user" \in writes[r]
        BY <3>1 DEF WritesFit
      <3>2. CASE "user" \notin writes[r] /\ saw[r].verified
        BY <3>2 DEF RowThere
      <3>3. CASE "user" \notin writes[r] /\ ~saw[r].verified
        BY <3>3 DEF Dirty, KindFits
      <3>4. QED
        BY <3>1, <3>2, <3>3
    <2>2. ASSUME NEW q \in Req \ {r}, pc[q] = "commit"
          PROVE  writes'[q] = writes[q]
      OBVIOUS
    <2>3. kind[r] \in Confirms \cup {"oauth"}
      BY DEF KindFits
    <2>4. QED
      BY <2>1, <2>2, <2>3 DEF CommitFits
  <1>7. QED
    BY <1>1, <1>2, <1>3, <1>4, <1>5, <1>6

\* One commit: the row's only writer, the links' only holder.
LEMMA CommitKeeps ==
  ASSUME Inv, TypeOK', NEW r \in Req, Commit(r)
  PROVE  Inv'
  <1> USE DEF Inv, TypeOK, UserRow, Ended, Confirms, Goes, rows, request, Purpose,
              HoldsUser,
              Commit, Voided, StillUnused, UserAfter, NewPassword, Nobody
  <1>1. KindFits' /\ WritesFit'
    BY DEF KindFits, WritesFit
  <1>2. LinksApart' /\ UserApart'
    BY DEF LinksApart, UserApart
  <1>3. SignupResolves'
    BY DEF SignupResolves
  <1>4. RowThere'
    BY DEF RowThere, KindFits, UserApart
  <1>5. CommitFits'
    BY DEF CommitFits, UserApart
  <1>6. LinksFit'
    BY DEF LinksFit
  <1>7. Spending'
    <2>1. link[r] = "none"
      BY DEF LinksFit
    <2>2. ASSUME NEW q \in Req \ {r}, kind[q] \in Confirms, pc[q] \in {"flush", "commit"}
          PROVE  link'[via[q]] = "live"
      BY <2>2 DEF LinksApart, Spending, KindFits
    <2>3. ASSUME NEW q \in Req \ {r}, kind[q] \in Confirms, pc[q] \in {"done", "lost"}
          PROVE  link'[via[q]] \in {"used", "gone"}
      BY <2>1, <2>3 DEF Spending, KindFits
    <2>4. kind[r] \in Confirms => link'[via[r]] = "used"
      BY DEF Spending, KindFits, LinksFit, WritesFit
    <2>5. kind' = kind /\ via' = via /\ pc'[r] \in {"done", "lost"}
          /\ \A q \in Req \ {r} : pc'[q] = pc[q] /\ locked'[q] = locked[q]
      OBVIOUS
    <2>6. \A q \in Req \ {r} : kind[q] \in Confirms /\ pc[q] \in {"flush", "commit"}
                               => via[q] \in locked[q]
      BY DEF Spending
    <2>7. SUFFICES ASSUME NEW q \in Req, kind[q] \in Confirms
          PROVE  /\ pc'[q] \in {"flush", "commit"}
                    => via[q] \in locked'[q] /\ link'[via[q]] = "live"
                 /\ pc'[q] \in {"done", "lost"} => link'[via[q]] \in {"used", "gone"}
      BY <2>5 DEF Spending
    <2> HIDE DEF Inv, TypeOK, Commit, Confirms, HoldsUser
    <2>8. CASE q = r
      BY <2>4, <2>5, <2>7, <2>8
    <2>9. CASE q # r
      BY <2>2, <2>3, <2>5, <2>6, <2>7, <2>9
    <2>10. QED
      BY <2>8, <2>9
  <1>8. PendingHasLink'
    <2>1. SUFFICES ASSUME user'.exists, ~user'.verified, user'.password # NoReq
          PROVE  \E l \in Req : /\ Purpose(l)' = "verify_email"
                                /\ link'[l] = "live" \/ l \in expired'
      BY DEF PendingHasLink
    <2>2. \A l \in Req : Purpose(l)' = Purpose(l)
      OBVIOUS
    <2>3. ~user.verified /\ "verified" \notin writes[r]
      BY <2>1
    <2>4. CASE "link" \in writes[r] /\ Purpose(r) = "verify_email"
      <3>1. link[r] = "none"
        BY DEF LinksFit
      <3>2. link'[r] = "live"
        BY <2>4, <3>1
      <3>3. QED
        BY <2>2, <2>4, <3>2
    <2>5. CASE kind[r] = "forgot"
      <3>1. user.exists /\ ~user.verified /\ user.password # NoReq
        BY <2>1, <2>5, <2>3 DEF CommitFits, WritesFit
      <3>2. PICK l \in Req : /\ Purpose(l) = "verify_email"
                             /\ link[l] = "live" \/ l \in expired
        BY <2>1, <3>1 DEF PendingHasLink
      <3>3. l \notin Voided(r) /\ (link[l] = "live" => link'[l] = "live")
        BY <2>5, <3>2 DEF LinksFit, WritesFit
      <3>4. QED
        BY <2>2, <3>2, <3>3
    <2>6. kind[r] # "none"
      BY DEF KindFits
    <2>7. QED
      BY <2>3, <2>4, <2>5, <2>6 DEF CommitFits, Kinds
  <1>9. LinkSpentOnce'
    BY DEF LinkSpentOnce, Spending, KindFits
  <1>10. QED
    BY <1>1, <1>2, <1>3, <1>4, <1>5, <1>6, <1>7, <1>8, <1>9

\* Time passes.
LEMMA ExpireKeeps ==
  ASSUME Inv, TypeOK', NEW r \in Req, Expire(r)
  PROVE  Inv'
  <1> USE DEF Inv, TypeOK, UserRow, Ended, Confirms, Goes, rows, request, Purpose,
              HoldsUser,
              Expire
  <1>1. KindFits' /\ WritesFit' /\ LinksApart' /\ UserApart'
    BY DEF KindFits, WritesFit, LinksApart, UserApart
  <1>2. RowThere' /\ CommitFits' /\ LinksFit' /\ Spending' /\ PendingHasLink'
    BY DEF RowThere, CommitFits, LinksFit, Spending, PendingHasLink
  <1>3. LinkSpentOnce' /\ SignupResolves'
    BY DEF LinkSpentOnce, SignupResolves
  <1>4. QED
    BY <1>1, <1>2, <1>3

\* The sweep takes dead links that nobody holds.
LEMMA DeleteDeadKeeps ==
  ASSUME Inv, TypeOK', NEW r \in Req, DeleteDead(r)
  PROVE  Inv'
  <1> USE DEF Inv, TypeOK, UserRow, Ended, Confirms, Goes, rows, request, Purpose,
              HoldsUser,
              DeleteDead
  <1>1. KindFits' /\ WritesFit' /\ LinksApart' /\ UserApart'
    BY DEF KindFits, WritesFit, LinksApart, UserApart
  <1>2. RowThere' /\ CommitFits' /\ LinksFit' /\ Spending' /\ PendingHasLink'
    BY DEF RowThere, CommitFits, LinksFit, Spending, PendingHasLink
  <1>3. LinkSpentOnce' /\ SignupResolves'
    BY DEF LinkSpentOnce, SignupResolves
  <1>4. QED
    BY <1>1, <1>2, <1>3

LEMMA StepInv == Inv /\ [Next]_vars => Inv'
  <1> SUFFICES ASSUME Inv, [Next]_vars PROVE Inv'
    OBVIOUS
  <1> USE DEF Confirms
  <1>1. TypeOK'
    BY StepTyped DEF Inv
  <1>2. ASSUME NEW r \in Req, Begin(r) PROVE Inv'
    BY <1>1, <1>2, BeginKeeps
  <1>3. ASSUME NEW r \in Req, GetValid(r) PROVE Inv'
    <2>1. CASE Ends(r, "refused")
      BY <1>1, <1>3, <2>1, EndsKeeps DEF GetValid, Open, Ended
    <2>2. QED
      BY <1>1, <1>3, <2>1, PassKeeps DEF GetValid
  <1>4. ASSUME NEW r \in Req, GetUserByAccount(r) PROVE Inv'
    <2>1. kind[r] \notin Confirms /\ Open(r)
      BY <1>4 DEF GetUserByAccount, Inv, KindFits, Open, Ended
    <2>2. CASE Ends(r, "refused") \/ Ends(r, "done")
      BY <1>1, <2>1, <2>2, EndsKeeps
    <2>3. QED
      BY <1>1, <1>4, <2>2, PassKeeps DEF GetUserByAccount
  <1>5. ASSUME NEW r \in Req, GetUser(r) PROVE Inv'
    <2>1. CASE NothingToDo(r) /\ Ends(r, "done")
      BY <1>1, <1>5, <2>1, EndsKeeps DEF GetUser, NothingToDo, Open, Ended
    <2>2. QED
      BY <1>1, <1>5, <2>1, GetUserKeeps DEF GetUser
  <1>6. ASSUME NEW r \in Req, VoidUnused(r) \/ LockLinks(r) PROVE Inv'
    BY <1>1, <1>6, VoidUnusedKeeps, LockLinksKeeps
  <1>7. ASSUME NEW r \in Req, Consume(r) PROVE Inv'
    <2>1. CASE Ends(r, "refused")
      BY <1>1, <1>7, <2>1, EndsKeeps DEF Consume, Open, Ended
    <2>2. QED
      BY <1>1, <1>7, <2>1, ConsumeKeeps DEF Consume, Loses
  <1>8. ASSUME NEW r \in Req, ReplacePendingPassword(r) PROVE Inv'
    BY <1>1, <1>8, ReplaceKeeps
  <1>9. ASSUME NEW r \in Req, InsertUser(r) PROVE Inv'
    <2>1. CASE user.exists
      BY <1>1, <1>9, <2>1, IntegrityErrorKeeps DEF InsertUser
    <2>2. CASE ~user.exists /\ kind[r] = "signup"
      BY <1>1, <1>9, <2>2, InsertPendingKeeps DEF InsertUser
    <2>3. QED
      BY <1>1, <1>9, <2>1, <2>2, InsertVerifiedKeeps DEF InsertUser
  <1>10. ASSUME NEW r \in Req, LinkAccount(r) PROVE Inv'
    <2>1. CASE user.linked
      <3>1. user.exists
        BY <2>1 DEF Inv, RowThere
      <3>2. QED
        BY <1>1, <1>10, <2>1, <3>1, IntegrityErrorKeeps DEF LinkAccount
    <2>2. QED
      BY <1>1, <1>10, <2>1, LinkAccountKeeps DEF LinkAccount
  <1>11. ASSUME NEW r \in Req, Flush(r) \/ Commit(r) PROVE Inv'
    BY <1>1, <1>11, FlushKeeps, CommitKeeps
  <1>12. ASSUME NEW r \in Req, Abort(r) PROVE Inv'
    BY <1>1, <1>12, EndsKeeps DEF Abort
  <1>13. ASSUME NEW l \in Req, Expire(l) \/ DeleteDead(l) PROVE Inv'
    BY <1>1, <1>13, ExpireKeeps, DeleteDeadKeeps
  <1>14. CASE UNCHANGED vars
    <2> USE DEF vars, rows, request, HoldsUser, Purpose
    <2>1. KindFits' /\ WritesFit' /\ LinksApart' /\ UserApart'
      BY <1>14 DEF Inv, KindFits, WritesFit, LinksApart, UserApart
    <2>2. RowThere' /\ CommitFits' /\ LinksFit' /\ Spending'
      BY <1>14 DEF Inv, RowThere, CommitFits, LinksFit, Spending
    <2>3. PendingHasLink' /\ LinkSpentOnce' /\ SignupResolves'
      BY <1>14 DEF Inv, PendingHasLink, LinkSpentOnce, SignupResolves
    <2>4. QED
      BY <1>1, <2>1, <2>2, <2>3 DEF Inv
  <1>15. QED
    BY <1>2, <1>3, <1>4, <1>5, <1>6, <1>7, <1>8, <1>9, <1>10, <1>11, <1>12, <1>13,
       <1>14 DEF Next

\* The inductive invariant holds in every state.
THEOREM InvHolds == Spec => []Inv
  BY InitInv, StepInv, PTL DEF Spec

-----------------------------------------------------------------------------
(* The properties *)

\* consume: of the confirms sent with one link, at most one takes effect.
THEOREM SpentOnce == Spec => []LinkSpentOnce
  <1>1. Inv => LinkSpentOnce
    BY DEF Inv
  <1>2. QED
    BY <1>1, InvHolds, PTL

\* A password waiting for verification has a link that verifies it, or one
\* that has expired.
THEOREM PendingIsVerifiable == Spec => []PendingHasLink
  <1>1. Inv => PendingHasLink
    BY DEF Inv
  <1>2. QED
    BY <1>1, InvHolds, PTL

\* signup's one re-run meets no conflict.
THEOREM SignupsResolve == Spec => []SignupResolves
  <1>1. Inv => SignupResolves
    BY DEF Inv
  <1>2. QED
    BY <1>1, InvHolds, PTL

\* Every link void_unused found live is dead once its transaction commits.
THEOREM VoidsAll == Spec => []VoidsWhatItSaw
  <1>1. Inv => VoidsWhatItSaw
    BY DEF Inv, LinksFit, WritesFit, VoidsWhatItSaw
  <1>2. QED
    BY <1>1, InvHolds, PTL

\* Tokens before accounts before users: a transaction that waits for the users
\* row waits for one that waits for nobody.
LEMMA UserHolderRuns ==
  ASSUME Inv, NEW u \in Req, HoldsUser(u) \/ "account" \in writes[u], WaitsFor(u) # {}
  PROVE  \/ /\ pc[u] = "linking" /\ "user" \in writes[u]
         \/ /\ pc[u] = "flush" /\ "user" \notin writes[u] /\ "account" \in writes[u]
  <1>1. pc[u] \in {"linking", "flush", "commit"}
    BY DEF Inv, WritesFit, HoldsUser
  <1>2. pc[u] # "commit"
    BY DEF WaitsFor, WantsUser
  <1>3. CASE pc[u] = "linking"
    BY <1>3 DEF Inv, WritesFit
  <1>4. CASE pc[u] = "flush"
    <2>1. Dirty(u) # {}
      BY <1>4 DEF WaitsFor, WantsUser
    <2>2. "user" \notin writes[u]
      BY <2>1 DEF Dirty
    <2>3. QED
      BY <1>4, <2>2 DEF Inv, WritesFit
  <1>5. QED
    BY <1>1, <1>2, <1>3, <1>4

LEMMA InvNoDeadlock == Inv => NoDeadlock
  <1> SUFFICES ASSUME Inv, NEW S \in SUBSET Req, S # {},
                      \A r \in S : WaitsFor(r) \cap S # {}
               PROVE  FALSE
    BY DEF NoDeadlock
  <1>1. ASSUME NEW u \in S, pc[u] = "flush", "user" \notin writes[u]
        PROVE  FALSE
    <2>1. PICK s \in S : s \in WaitsFor(u)
      OBVIOUS
    <2>2. HoldsUser(s) /\ s # u
      BY <1>1, <2>1 DEF WaitsFor
    <2>3. "user" \in writes[s]
      BY <2>2, UserHolderRuns DEF Inv, WritesFit
    <2>4. user.exists /\ ~user.exists
      BY <1>1, <2>3 DEF Inv, RowThere
    <2>5. QED
      BY <2>4
  <1>2. ASSUME NEW u \in S, HoldsUser(u) \/ "account" \in writes[u]
        PROVE  FALSE
    <2>1. pc[u] = "linking" /\ "user" \in writes[u]
      BY <1>1, <1>2, UserHolderRuns
    <2>2. PICK s \in S : s \in WaitsFor(u)
      OBVIOUS
    <2>3. "account" \in writes[s] /\ s # u
      BY <2>1, <2>2 DEF WaitsFor, WantsUser
    <2>4. WaitsFor(s) # {}
      OBVIOUS
    <2>5. \/ pc[s] = "linking" /\ "user" \in writes[s]
          \/ pc[s] = "flush" /\ "user" \notin writes[s]
      BY <2>3, <2>4, UserHolderRuns
    <2>6. QED
      BY <1>1, <2>1, <2>3, <2>5 DEF Inv, UserApart, HoldsUser
  <1>3. PICK r \in S : TRUE
    OBVIOUS
  <1>4. PICK s \in S : s \in WaitsFor(r)
    BY <1>3
  <1>5. locked[s] # {}
    BY <1>2, <1>4 DEF WaitsFor
  <1>6. pc[s] \in {"replace", "flush"}
    <2>1. PICK t \in S : t \in WaitsFor(s)
      OBVIOUS
    <2>2. QED
      BY <1>5, <2>1 DEF WaitsFor, WantsUser, Inv, WritesFit
  <1>7. PICK t \in S : t \in WaitsFor(s)
    OBVIOUS
  <1>8. HoldsUser(t)
    BY <1>6, <1>7 DEF WaitsFor
  <1>9. QED
    BY <1>2, <1>8

\* No set of requests waits on itself, for any number of them.
THEOREM DeadlockFree == Spec => []NoDeadlock
  BY InvNoDeadlock, InvHolds, PTL

\* A sign-up never sets the password of a verified account.
THEOREM VerifiedKept == Spec => SignupKeepsVerified
  <1>1. Inv /\ [Next]_vars
        => [\A r \in Req : user.verified /\ kind[r] = "signup" /\ user'.password = r
                         => user.password = r]_vars
    <2> SUFFICES ASSUME Inv, [Next]_vars, NEW r \in Req, user.verified, kind[r] = "signup",
                        user'.password = r
                 PROVE  user.password = r
      OBVIOUS
    <2> USE DEF rows, request
    <2>1. CASE UNCHANGED user
      BY <2>1
    <2>2. ASSUME NEW s \in Req, Commit(s)
          PROVE  user.password = r
      <3>1. CASE "password" \notin writes[s]
        BY <2>2, <3>1 DEF Commit, UserAfter
      <3>2. CASE "password" \in writes[s]
        <4>1. s = r
          BY <2>2, <3>2, NoReqAssumption DEF Commit, UserAfter, NewPassword
        <4>2. QED
          BY <2>2, <3>2, <4>1 DEF Inv, CommitFits, Commit
      <3>3. QED
        BY <3>1, <3>2
    <2>3. ASSUME NEW s \in Req, ~Commit(s),
                 \/ Begin(s) \/ GetValid(s) \/ GetUserByAccount(s) \/ GetUser(s)
                 \/ VoidUnused(s) \/ LockLinks(s) \/ Consume(s) \/ Abort(s)
                 \/ ReplacePendingPassword(s) \/ InsertUser(s) \/ LinkAccount(s)
                 \/ Flush(s) \/ Expire(s) \/ DeleteDead(s)
          PROVE  UNCHANGED user
      BY <2>3 DEF Begin, GetValid, GetUserByAccount, GetUser, VoidUnused, LockLinks,
                  Consume, Loses, Abort, Ends, ReplacePendingPassword, InsertUser,
                  LinkAccount, IntegrityError, Flush, Expire, DeleteDead
    <2>4. CASE UNCHANGED vars
      BY <2>4 DEF vars
    <2>5. QED
      BY <2>1, <2>2, <2>3, <2>4 DEF Next
  <1>2. QED
    BY <1>1, InvHolds, PTL DEF Spec, SignupKeepsVerified
=============================================================================
