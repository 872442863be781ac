------------------------------ MODULE Accounts ------------------------------
(***************************************************************************)
(* One email address: the requests that sign it up, mail its links, spend  *)
(* them and sign in with a provider (routers/auth.py, internal_auth.py),   *)
(* as the READ COMMITTED transactions they are.  A statement sees what is  *)
(* committed when it starts; an UPDATE or INSERT that meets a row another  *)
(* transaction has written waits for that transaction to end, then looks   *)
(* again.  What a transaction has written shows only when it commits.      *)
(*                                                                         *)
(* A request mails at most one link and sets at most one password, so both *)
(* carry the name of their request.                                        *)
(***************************************************************************)
EXTENDS Naturals, FiniteSets

CONSTANTS
    Req,      \* requests about this address
    NoReq,    \* no password, or no link
    MaxErrors \* bound: transactions that fail, or commit and lose the answer

ASSUME NoReqAssumption == NoReq \notin Req
ASSUME MaxErrorsAssumption == MaxErrors \in Nat

VARIABLES
    user,       \* the committed users row, with its accounts row (linked)
    link,       \* email_tokens row of each request: "none", "live" (unused),
                \* "used" or "gone" (swept)
    expired,    \* links past expires_at
    kind,       \* what each request is
    via,        \* the link a confirm was sent with
    pc,         \* the statement each request has reached, or how it ended
    saw,        \* the users row as the request's session has loaded it
    reach,      \* links the snapshot of a request's void_unused contained
    locked,     \* links a transaction's void_unused has locked
    writes,     \* what else a transaction has written
    rerun       \* requests in their one re-run after an IntegrityError

rows == <<user, link, expired>>
request == <<kind, via, rerun>>
vars == <<rows, request, pc, saw, reach, locked, writes>>

Kinds == {"signup", "resend", "verify", "forgot", "reset", "oauth"}
Confirms == {"verify", "reset"}
Ended == {"done", "lost", "refused", "error", "conflict"}

UserRow == [exists : BOOLEAN, verified : BOOLEAN,
            password : Req \cup {NoReq}, linked : BOOLEAN]
Nobody == [exists |-> FALSE, verified |-> FALSE, password |-> NoReq, linked |-> FALSE]
\* BOOTSTRAP_USER_EMAIL: a row the first migration made for older data.
Placeholder == [Nobody EXCEPT !.exists = TRUE]

Purpose(r) == IF kind[r] \in {"forgot", "reset"} THEN "reset_password"
                                                 ELSE "verify_email"
Open(r) == pc[r] \notin Ended \cup {"idle"}
Goes(r, l) == pc' = [pc EXCEPT ![r] = l]

Init ==
    /\ user \in {Nobody, Placeholder}
    /\ link = [r \in Req |-> "none"]
    /\ expired = {}
    /\ kind = [r \in Req |-> "none"]
    /\ via = [r \in Req |-> NoReq]
    /\ pc = [r \in Req |-> "idle"]
    /\ saw = [r \in Req |-> Nobody]
    /\ reach = [r \in Req |-> {}]
    /\ locked = [r \in Req |-> {}]
    /\ writes = [r \in Req |-> {}]
    /\ rerun = {}

-----------------------------------------------------------------------------
(* Locks *)

\* The attributes the ORM will flush: those a route assigned a new value,
\* judged by the row as it was loaded (mark_email_verified, reset_password,
\* claim_by_verified_email).
Dirty(r) ==
    {c \in {"verified", "password"} :
        /\ kind[r] \in Confirms \cup {"oauth"}
        /\ "user" \notin writes[r]
        /\ \/ c = "verified" /\ ~saw[r].verified
           \/ c = "password" /\ kind[r] = "reset"
           \/ c = "password" /\ kind[r] = "oauth"
                             /\ ~saw[r].verified /\ saw[r].password # NoReq}

HoldsUser(r) == writes[r] \cap {"user", "password", "verified"} # {}
WantsUser(r) == \/ pc[r] \in {"insert", "replace"}
                \/ pc[r] = "flush" /\ Dirty(r) # {}

\* The transactions r's next statement has to wait for.
WaitsFor(r) ==
    {s \in Req \ {r} :
        \/ pc[r] = "locking" /\ reach[r] \cap locked[s] # {}
        \/ WantsUser(r) /\ HoldsUser(s)
        \/ pc[r] = "linking" /\ "account" \in writes[s]}

\* Ends r's transaction without its writes.
RollsBack(r) ==
    /\ saw' = [saw EXCEPT ![r] = Nobody]
    /\ reach' = [reach EXCEPT ![r] = {}]
    /\ locked' = [locked EXCEPT ![r] = {}]
    /\ writes' = [writes EXCEPT ![r] = {}]

Ends(r, how) ==
    /\ Goes(r, how)
    /\ RollsBack(r)
    /\ UNCHANGED <<rows, request>>

-----------------------------------------------------------------------------
(* Reading *)

First(k) == CASE k \in Confirms -> "link"
              [] k = "oauth" -> "account"
              [] OTHER -> "user"

\* A link can be spent once _mail has sent it, after the commit.
Mailed(l) == link[l] # "none" /\ pc[l] = "done"

Begin(r) ==
    /\ pc[r] = "idle"
    /\ \E k \in Kinds, l \in Req \cup {NoReq} :
          /\ IF k \in Confirms THEN l \in Req /\ Mailed(l) ELSE l = NoReq
          /\ kind' = [kind EXCEPT ![r] = k]
          /\ via' = [via EXCEPT ![r] = l]
          /\ Goes(r, First(k))
    /\ UNCHANGED <<rows, rerun, saw, reach, locked, writes>>

Valid(r) ==
    /\ link[via[r]] = "live"
    /\ via[r] \notin expired
    /\ Purpose(via[r]) = Purpose(r)

\* tokens_repo.get_valid
GetValid(r) ==
    /\ pc[r] = "link"
    /\ \/ ~Valid(r) /\ Ends(r, "refused")
       \/ /\ Valid(r)
          /\ Goes(r, "user")
          /\ UNCHANGED <<rows, request, saw, reach, locked, writes>>

\* accounts_repo.get_user_by_account; body.email_verified may be false.
GetUserByAccount(r) ==
    /\ pc[r] = "account"
    /\ \/ user.linked /\ Ends(r, "done")
       \/ ~user.linked /\ Ends(r, "refused")
       \/ /\ ~user.linked
          /\ Goes(r, "user")
          /\ UNCHANGED <<rows, request, saw, reach, locked, writes>>

\* The route answers 202 with no row to write.
NothingToDo(r) ==
    \/ kind[r] = "signup" /\ user.verified
    \/ kind[r] = "resend" /\ (user.verified \/ user.password = NoReq)
    \/ kind[r] = "forgot" /\ ~user.exists

AfterRead(r) == IF ~user.exists THEN "insert"
                ELSE IF kind[r] = "oauth" THEN "linking" ELSE "void"

\* Mutant: verify_email marks the address before it spends the link.
LoadsAndMarks(r) ==
    /\ kind[r] = "verify" => \A s \in Req : ~HoldsUser(s)
    /\ saw' = [saw EXCEPT ![r] = user]
    /\ writes' = [writes EXCEPT ![r] = IF kind[r] = "verify" THEN {"verified"} ELSE {}]

Loads(r) == saw' = [saw EXCEPT ![r] = user] /\ UNCHANGED writes

\* users_repo.get_by_email, get_by_id
GetUser(r) ==
    /\ pc[r] = "user"
    /\ \/ NothingToDo(r) /\ Ends(r, "done")
       \/ /\ ~NothingToDo(r)
          /\ Loads(r)
          /\ Goes(r, AfterRead(r))
          /\ UNCHANGED <<rows, request, reach, locked>>

-----------------------------------------------------------------------------
(* Links: tokens_repo.void_unused, one UPDATE *)

VoidUnused(r) ==
    /\ pc[r] = "void"
    /\ reach' = [reach EXCEPT ![r] =
                    {l \in Req : link[l] = "live" /\ Purpose(l) = Purpose(r)}]
    /\ Goes(r, "locking")
    /\ UNCHANGED <<rows, request, saw, locked, writes>>

\* Mutant: a confirm spends its own link and leaves the others.
StillUnusedOwn(r) ==
    {l \in reach[r] : link[l] = "live" /\ (kind[r] \in Confirms => l = via[r])}

\* The rows of the snapshot that are still unused once their locks are free.
StillUnused(r) == {l \in reach[r] : link[l] = "live"}

\* An UPDATE also keeps the lock of a row it waited for and then left alone.
Locks(r) == {l \in reach[r] : link[l] # "gone"}

\* signup goes on to the users row; resend and request-password-reset add
\* their link.
LockLinks(r) ==
    /\ pc[r] = "locking"
    /\ kind[r] \notin Confirms
    /\ WaitsFor(r) = {}
    /\ locked' = [locked EXCEPT ![r] = Locks(r)]
    /\ \/ /\ kind[r] = "signup"
          /\ Goes(r, "replace")
          /\ UNCHANGED writes
       \/ /\ kind[r] # "signup"
          /\ Goes(r, "commit")
          /\ writes' = [writes EXCEPT ![r] = {"link"}]
    /\ UNCHANGED <<rows, request, saw, reach>>

\* Mutant: a confirm trusts get_valid.
WinsTrusting(r) == TRUE

\* consume's answer
Wins(r) == via[r] \in StillUnused(r)

\* Mutant: the loser's voiding is committed with its 400.
LosesCommitting(r) ==
    /\ link' = [l \in Req |-> IF l \in StillUnused(r) THEN "used" ELSE link[l]]
    /\ Goes(r, "refused")
    /\ RollsBack(r)
    /\ UNCHANGED <<user, expired, request>>

Loses(r) == Ends(r, "refused")

\* _spend_token, once its link was valid
Consume(r) ==
    /\ pc[r] = "locking"
    /\ kind[r] \in Confirms
    /\ WaitsFor(r) = {}
    /\ \/ ~Wins(r) /\ Loses(r)
       \/ /\ Wins(r)
          /\ locked' = [locked EXCEPT ![r] = Locks(r)]
          /\ Goes(r, "flush")
          /\ UNCHANGED <<rows, request, saw, reach, writes>>

-----------------------------------------------------------------------------
(* The users and accounts rows *)

\* Mutant: the replacement trusts the row signup read.
ReplacesTrusting(r) == ~saw[r].verified

Replaces(r) == ~user.verified

\* users_repo.replace_pending_password, then the new link if it replaced one
ReplacePendingPassword(r) ==
    /\ pc[r] = "replace"
    /\ WaitsFor(r) = {}
    /\ writes' = [writes EXCEPT ![r] = IF Replaces(r) THEN {"password", "link"}
                                                      ELSE {}]
    /\ Goes(r, "commit")
    /\ UNCHANGED <<rows, request, saw, reach, locked>>

\* Mutant: the re-run repeats the INSERT without the lookups.
RestartBlind(r) == IF kind[r] = "signup" THEN "insert" ELSE First(kind[r])

Restart(r) == First(kind[r])

\* A unique index refuses r's INSERT: one re-run, then the error is answered.
IntegrityError(r) ==
    /\ RollsBack(r)
    /\ \/ r \notin rerun /\ rerun' = rerun \cup {r} /\ Goes(r, Restart(r))
       \/ r \in rerun /\ Goes(r, "conflict") /\ UNCHANGED rerun
    /\ UNCHANGED <<rows, kind, via>>

\* users_repo.create_password_user with its link, users_repo.create_oauth_user
InsertUser(r) ==
    /\ pc[r] = "insert"
    /\ WaitsFor(r) = {}
    /\ \/ user.exists /\ IntegrityError(r)
       \/ /\ ~user.exists
          /\ \/ /\ kind[r] = "signup"
                /\ writes' = [writes EXCEPT ![r] = {"user", "password", "link"}]
                /\ Goes(r, "commit")
             \/ /\ kind[r] = "oauth"
                /\ writes' = [writes EXCEPT ![r] = {"user", "verified"}]
                /\ Goes(r, "linking")
          /\ UNCHANGED <<rows, request, saw, reach, locked>>

\* accounts_repo.link.  The unit of work orders the mappers by class, so the
\* account is inserted before the users row is updated.
LinkAccount(r) ==
    /\ pc[r] = "linking"
    /\ WaitsFor(r) = {}
    /\ \/ user.linked /\ IntegrityError(r)
       \/ /\ ~user.linked
          /\ writes' = [writes EXCEPT ![r] = @ \cup {"account"}]
          /\ Goes(r, "flush")
          /\ UNCHANGED <<rows, request, saw, reach, locked>>

\* The flush of the loaded user's new values, by primary key and on no other
\* condition.
Flush(r) ==
    /\ pc[r] = "flush"
    /\ WaitsFor(r) = {}
    /\ writes' = [writes EXCEPT ![r] = @ \cup Dirty(r)]
    /\ Goes(r, "commit")
    /\ UNCHANGED <<rows, request, saw, reach, locked>>

-----------------------------------------------------------------------------
(* Ends of transactions *)

\* The database connection may still fail.
MayFail == Cardinality({r \in Req : pc[r] \in {"lost", "error"}}) < MaxErrors

\* Mutant: a claim stores an empty hash, which is not "no password".
NewPasswordEmpty(r) == IF kind[r] = "oauth" THEN "" ELSE r

NewPassword(r) == IF kind[r] = "oauth" THEN NoReq ELSE r

UserAfter(r) ==
    [exists   |-> user.exists \/ "user" \in writes[r],
     verified |-> user.verified \/ "verified" \in writes[r],
     password |-> IF "password" \in writes[r] THEN NewPassword(r) ELSE user.password,
     linked   |-> user.linked \/ "account" \in writes[r]]

\* The lock keeps a link as LockLinks or Consume found it.
Voided(r) == locked[r] \cap StillUnused(r)

\* session.commit; the answer may be lost, and then no mail goes out.
Commit(r) ==
    /\ pc[r] = "commit"
    /\ user' = UserAfter(r)
    /\ link' = [l \in Req |-> IF l \in Voided(r) THEN "used"
                              ELSE IF l = r /\ "link" \in writes[r] THEN "live"
                              ELSE link[l]]
    /\ \/ Goes(r, "done")
       \/ MayFail /\ Goes(r, "lost")
    /\ saw' = [saw EXCEPT ![r] = Nobody]
    /\ locked' = [locked EXCEPT ![r] = {}]
    /\ writes' = [writes EXCEPT ![r] = {}]
    /\ UNCHANGED <<expired, request, reach>>

\* A statement fails, or waits past lock_timeout.
Abort(r) ==
    /\ MayFail
    /\ Open(r)
    /\ Ends(r, "error")

-----------------------------------------------------------------------------
(* The clock and the daily sweep *)

Expire(l) ==
    /\ link[l] = "live"
    /\ l \notin expired
    /\ expired' = expired \cup {l}
    /\ UNCHANGED <<user, link, request, pc, saw, reach, locked, writes>>

\* tokens_repo.delete_dead: SKIP LOCKED
DeleteDead(l) ==
    /\ \/ link[l] = "used"
       \/ link[l] = "live" /\ l \in expired
    /\ \A r \in Req : l \notin locked[r]
    /\ link' = [link EXCEPT ![l] = "gone"]
    /\ UNCHANGED <<user, expired, request, pc, saw, reach, locked, writes>>

Next ==
    \/ \E r \in Req :
          \/ Begin(r) \/ GetValid(r) \/ GetUserByAccount(r) \/ GetUser(r)
          \/ VoidUnused(r) \/ LockLinks(r) \/ Consume(r)
          \/ ReplacePendingPassword(r) \/ InsertUser(r) \/ LinkAccount(r)
          \/ Flush(r) \/ Commit(r) \/ Abort(r)
    \/ \E l \in Req : Expire(l) \/ DeleteDead(l)

Spec == Init /\ [][Next]_vars

-----------------------------------------------------------------------------
(* Properties *)

\* The types of the variables.
TypeOK ==
    /\ user \in UserRow
    /\ link \in [Req -> {"none", "live", "used", "gone"}]
    /\ expired \subseteq Req
    /\ kind \in [Req -> Kinds \cup {"none"}]
    /\ via \in [Req -> Req \cup {NoReq}]
    /\ pc \in [Req -> Ended \cup {"idle", "link", "account", "user", "void",
                                  "locking", "replace", "insert", "linking",
                                  "flush", "commit"}]
    /\ saw \in [Req -> UserRow]
    /\ reach \in [Req -> SUBSET Req]
    /\ locked \in [Req -> SUBSET Req]
    /\ writes \in [Req -> SUBSET {"user", "password", "verified", "account", "link"}]
    /\ rerun \subseteq Req

\* consume's promise: of the confirms sent with one link, at most one takes
\* effect, however their reads and their UPDATEs overlap.
LinkSpentOnce ==
    \A r, s \in Req :
        /\ r # s
        /\ kind[r] \in Confirms /\ pc[r] \in {"done", "lost"}
        /\ kind[s] \in Confirms /\ pc[s] \in {"done", "lost"}
        => via[r] # via[s]

\* When a request that voids links commits, every link its void_unused found
\* live is dead, also those another transaction held and gave back.
VoidsWhatItSaw ==
    \A r \in Req : pc[r] \in {"done", "lost"} =>
        \A l \in reach[r] : link[l] # "live"

\* A password waiting for verification always has a link that verifies it,
\* until that link expires: whoever voids the last one verifies the row or
\* commits a new link with the voiding.
PendingHasLink ==
    /\ user.exists /\ ~user.verified /\ user.password # NoReq
    => \E l \in Req : /\ Purpose(l) = "verify_email"
                      /\ link[l] = "live" \/ l \in expired

\* replace_pending_password: a sign-up never sets the password of a verified
\* account, even if the account was verified after the sign-up read it.
SignupKeepsVerified ==
    [][\A r \in Req : user.verified /\ kind[r] = "signup" /\ user'.password = r
                      => user.password = r]_vars

\* Tokens before users, accounts before users: no set of requests waits on
\* itself.
NoDeadlock ==
    ~ \E S \in SUBSET Req : S # {} /\ \A r \in S : WaitsFor(r) \cap S # {}

\* signup: the one re-run takes the re-signup branch and meets no conflict.
SignupResolves == \A r \in Req : kind[r] = "signup" => pc[r] # "conflict"

\* claim_by_verified_email: the password it clears is one "on a never-verified
\* row"; the password of a verified account changes by a reset only.
ClaimKeepsVerified ==
    [][user.verified /\ user'.password # user.password
       => \E r \in Req : kind[r] = "reset" /\ user'.password = r]_vars
=============================================================================
