------------------------------- MODULE Sessions -------------------------------
(***************************************************************************)
(* Session revocation for one user, and a demo visitor's life.             *)
(*                                                                         *)
(* A session is known by the second of its login (the token's auth_time).  *)
(* `user.cutoff` is users.sessions_valid_after, also in seconds: a session *)
(* older than it is revoked.  Redis holds a copy of the cutoff for TTL     *)
(* seconds (packages/core/auth/revocation.py), every request reads it, and *)
(* whoever moves the cutoff commits first and publishes afterwards.  A     *)
(* visitor's row is deleted by the daily sweep, and its cache entry purged *)
(* after that commit; until its token reads as revoked it may send turns,  *)
(* each of which spends one of DEMO_TURN_LIMIT counted in Redis.           *)
(***************************************************************************)
EXTENDS Naturals, RateLimit

CONSTANTS
    Pub,              \* requests that move the cutoff (reset, sign-up, claim)
    Req,              \* authenticated requests
    TTL,              \* SVA_CACHE_TTL_S
    DELAY,            \* the longest step between the database and Redis
    RETENTION,        \* ANON_RETENTION_DAYS
    DAY,              \* the sweep's period
    DEMO_TURN_LIMIT,
    MaxHits,          \* bound on INCRs of the visitor's counter
    HOUR,             \* from the row's birth to the next sweep
    MemberTime,       \* bounds on the clock, by the kind of user
    VisitorTime,
    Faults            \* a subset of {"redis", "db", "crash"}

ASSUME TimesAssumption ==
    /\ TTL \in Nat
    /\ DELAY \in Nat
    /\ DELAY < TTL
    /\ RETENTION \in Nat
    /\ DAY \in Nat
    /\ HOUR \in 0 .. DAY - 1
ASSUME BoundsAssumption == DEMO_TURN_LIMIT \in Nat /\ MaxHits \in Nat

VARIABLES
    now,
    user,       \* the users row
    cache,      \* the key sva:{user_id}
    job,        \* each publisher
    req,        \* each request
    sweep,      \* the sweep: the time to the next, whether it is due, the purge it owes
    turns,      \* the key rl:demo_turns:{user_id}
    stored,     \* user turns the visitor has stored
    failedOpen, \* hits allowed because Redis failed
    peak,       \* the latest cutoff the row has had
    changed,    \* when the cutoff last moved, or the row went
    sent        \* the cutoff of the last SET that succeeded

vars == <<now, user, cache, job, req, sweep, turns, stored, failedOpen,
          peak, changed, sent>>
demoVars == <<turns, stored, failedOpen>>
rowVars == <<user, peak, changed>>

----------------------------------------------------------------------------
\* The row, the cache entry and the requests.

\* demo.py's _turn_window_s: the counter outlives the row by a day at least.
\* Mutant: exactly the retention.
TurnWindowExact == RETENTION
TurnWindow == RETENTION + 2 * DAY

Row == [email : BOOLEAN, there : BOOLEAN, cutoff : Nat]
CacheEntry == [cutoff : Nat, until : Nat]
JobAt == {"idle", "writes", "set", "del", "published", "unpublished"}
Job == [at : JobAt, cutoff : Nat, since : Nat]
ReqAt == {"idle", "get", "fetch", "fetch_only", "fill", "refused", "accepted",
          "expire", "ttl", "limited", "persist", "done"}
Request == [at : ReqAt, session : Nat, saw : Nat, since : Nat]
SweepState == [at : {"idle", "purge"}, wait : 0 .. DAY - 1, due : BOOLEAN, since : Nat]

Miss == [cutoff |-> 0, until |-> 0]
Hit == cache.until # 0
Entry(cutoff) == [cutoff |-> cutoff, until |-> now + TTL]

\* EX: an entry is gone once its time is up.
\* Mutant: a SET without EX.
EntryForever(time) == cache
EntryAt(time) == IF cache.until <= time THEN Miss ELSE cache

JobIdle == [at |-> "idle", cutoff |-> 0, since |-> 0]
ReqIdle == [at |-> "idle", session |-> 0, saw |-> 0, since |-> 0]

Visitor == ~user.email

\* A visitor's row is created with its cutoff at the time of its birth.
Init ==
    /\ now = 0
    /\ \E member \in BOOLEAN : user = [email |-> member, there |-> TRUE, cutoff |-> 0]
    /\ cache = Miss
    /\ job = [p \in Pub |-> JobIdle]
    /\ req = [r \in Req |-> ReqIdle]
    /\ sweep = [at |-> "idle", wait |-> HOUR, due |-> FALSE, since |-> 0]
    /\ turns = NoKey
    /\ stored = 0
    /\ failedOpen = 0
    /\ peak = 0
    /\ changed = 0
    /\ sent = 0

----------------------------------------------------------------------------
\* Moving the cutoff: commit, then write through.

\* Between its commit and its last Redis command a publisher is on the clock.
JobTo(p, place) ==
    job' = [job EXCEPT ![p].at = place, ![p].since = IF place = "set" THEN now ELSE 0]

\* The application takes the time (reset_password, replace_pending_password,
\* claim_by_verified_email), and writes it with the rest of its transaction.
TakeCutoff(p) ==
    /\ user.email
    /\ job[p].at = "idle"
    /\ job' = [job EXCEPT ![p] = [at |-> "writes", cutoff |-> now, since |-> 0]]
    /\ UNCHANGED <<now, user, cache, req, sweep, demoVars, peak, changed, sent>>

\* Overlapping transactions write the row in the order they get its lock.
WriteCutoff(p) ==
    /\ job[p].at = "writes"
    /\ user' = [user EXCEPT !.cutoff = job[p].cutoff]
    /\ peak' = IF job[p].cutoff > peak THEN job[p].cutoff ELSE peak
    /\ changed' = now

Commit(p) ==
    /\ WriteCutoff(p)
    /\ JobTo(p, "set")
    /\ UNCHANGED <<now, cache, req, sweep, demoVars, sent>>

\* The transaction fails, or commits and its answer is lost: nothing is published.
CommitFails(p) ==
    /\ "db" \in Faults
    /\ job[p].at = "writes"
    /\ JobTo(p, "unpublished")
    /\ \/ WriteCutoff(p)
       \/ UNCHANGED rowVars
    /\ UNCHANGED <<now, cache, req, sweep, demoVars, sent>>

\* publish_sva: an unconditional SET.
PublishSva(p) ==
    /\ job[p].at = "set"
    /\ cache' = Entry(job[p].cutoff)
    /\ sent' = job[p].cutoff
    /\ JobTo(p, "published")
    /\ UNCHANGED <<now, rowVars, req, sweep, demoVars>>

\* A SET that raises may have been applied; publish_sva then drops the key.
SetFails(p) ==
    /\ "redis" \in Faults
    /\ job[p].at = "set"
    /\ cache' \in {cache, Entry(job[p].cutoff)}
    /\ job' = [job EXCEPT ![p].at = "del"]
    /\ UNCHANGED <<now, rowVars, req, sweep, demoVars, sent>>

DropCached(p) ==
    /\ job[p].at = "del"
    /\ cache' = Miss
    /\ JobTo(p, "unpublished")
    /\ UNCHANGED <<now, rowVars, req, sweep, demoVars, sent>>

\* The DEL fails too, or the process dies before it has published.
PublishLost(p) ==
    /\ \/ "redis" \in Faults /\ job[p].at = "del"
       \/ "crash" \in Faults /\ job[p].at \in {"set", "del"}
    /\ JobTo(p, "unpublished")
    /\ UNCHANGED <<now, rowVars, cache, req, sweep, demoVars, sent>>

----------------------------------------------------------------------------
\* A request: current_user and its session_revoked.

\* The steps of a request that are on the clock.
Hurried == {"fill", "expire", "ttl", "persist"}

ReqTo(r, place) ==
    req' = [req EXCEPT ![r].at = place, ![r].since = IF place \in Hurried THEN now ELSE 0]

\* auth_time < cutoff is revoked.
\* Mutant: <= refuses the cutoff's own second.
RevokedInclusive(session, cutoff) == session <= cutoff
Revoked(session, cutoff) == session < cutoff
Judge(r, cutoff) ==
    req' = [req EXCEPT ![r] = [ReqIdle EXCEPT
        !.at = IF Revoked(req[r].session, cutoff) THEN "refused" ELSE "accepted"]]

\* A member logs in at any time; a visitor's one login creates its row.
LoggedIn == IF Visitor THEN {0} ELSE 0 .. now

Begin(r, session) ==
    /\ req[r].at = "idle"
    /\ req' = [req EXCEPT ![r] = [at |-> "get", session |-> session, saw |-> 0, since |-> 0]]
    /\ UNCHANGED <<now, rowVars, cache, job, sweep, demoVars, sent>>

GetHit(r) ==
    /\ req[r].at = "get"
    /\ Hit
    /\ Judge(r, cache.cutoff)
    /\ UNCHANGED <<now, rowVars, cache, job, sweep, demoVars, sent>>

\* A miss reads the database and fills; a Redis error only reads it.
GetMiss(r) ==
    /\ req[r].at = "get"
    /\ \/ ~Hit /\ ReqTo(r, "fetch")
       \/ "redis" \in Faults /\ ReqTo(r, "fetch_only")
    /\ UNCHANGED <<now, rowVars, cache, job, sweep, demoVars, sent>>

\* fetch_sva: no row means revoked.
FetchSva(r) ==
    /\ req[r].at \in {"fetch", "fetch_only"}
    /\ \/ ~user.there /\ ReqTo(r, "refused")
       \/ user.there /\ req[r].at = "fetch_only" /\ Judge(r, user.cutoff)
       \/ /\ user.there /\ req[r].at = "fetch"
          /\ req' = [req EXCEPT ![r].at = "fill", ![r].saw = user.cutoff, ![r].since = now]
    /\ UNCHANGED <<now, rowVars, cache, job, sweep, demoVars, sent>>

\* SET NX: only a key that is still absent is filled.
\* Mutant: without NX.
FilledAlways(cutoff) == Entry(cutoff)
Filled(cutoff) == IF Hit THEN cache ELSE Entry(cutoff)

\* Whether the fill works or not, the request is judged by what it fetched.
Fill(r) ==
    /\ req[r].at = "fill"
    /\ \/ cache' = Filled(req[r].saw)
       \/ "redis" \in Faults /\ UNCHANGED cache
    /\ Judge(r, req[r].saw)
    /\ UNCHANGED <<now, rowVars, job, sweep, demoVars, sent>>

\* A member's request, a refused one, or one whose process dies, ends here.
End(r) ==
    /\ \/ req[r].at \in {"refused", "limited", "done"}
       \/ req[r].at = "accepted" /\ ~Visitor
       \/ "crash" \in Faults /\ req[r].at # "idle"
    /\ req' = [req EXCEPT ![r] = ReqIdle]
    /\ UNCHANGED <<now, rowVars, cache, job, sweep, demoVars, sent>>

----------------------------------------------------------------------------
\* A visitor's turn: enforce_turn_cap, then persist_user_turn.

IncrTurns(r) ==
    /\ req[r].at = "accepted" /\ Visitor
    /\ turns.n < MaxHits
    /\ turns' = Incr(turns)
    /\ req' = [req EXCEPT ![r].at = AfterIncr(turns.n + 1), ![r].saw = turns.n + 1, ![r].since = now]
    /\ UNCHANGED <<now, rowVars, cache, job, sweep, stored, failedOpen, sent>>

\* hit's verdict, on the count its own INCR answered.
Allowed(count) == count <= DEMO_TURN_LIMIT
Verdict(r) == ReqTo(r, IF Allowed(req[r].saw) THEN "persist" ELSE "limited")

\* Mutant: no healing of a missing TTL.
TtlIgnored(r) ==
    /\ req[r].at = "ttl"
    /\ Verdict(r)
    /\ UNCHANGED <<now, rowVars, cache, job, sweep, demoVars, sent>>

TtlTurns(r) ==
    /\ req[r].at = "ttl"
    /\ \/ LacksTtl(turns) /\ ReqTo(r, "expire")
       \/ ~LacksTtl(turns) /\ Verdict(r)
    /\ UNCHANGED <<now, rowVars, cache, job, sweep, demoVars, sent>>

ExpireTurns(r) ==
    /\ req[r].at = "expire"
    /\ turns' = Expire(turns, now + TurnWindow)
    /\ Verdict(r)
    /\ UNCHANGED <<now, rowVars, cache, job, sweep, stored, failedOpen, sent>>

\* Any command of hit raises: the turn is allowed.
HitFailsOpen(r) ==
    /\ "redis" \in Faults
    /\ Visitor
    /\ req[r].at \in {"accepted", "ttl", "expire"}
    /\ failedOpen < DEMO_TURN_LIMIT
    /\ failedOpen' = failedOpen + 1
    /\ ReqTo(r, "persist")
    /\ UNCHANGED <<now, rowVars, cache, job, sweep, turns, stored, sent>>

\* The conversation's foreign key refuses an owner who is gone.
\* Mutant: a turn is refunded that was never counted.
PersistTurnRefunds(r) ==
    /\ req[r].at = "persist"
    /\ stored' = stored - 1
    /\ ReqTo(r, "done")
    /\ UNCHANGED <<now, rowVars, cache, job, sweep, turns, failedOpen, sent>>

PersistTurn(r) ==
    /\ req[r].at = "persist"
    /\ stored' = IF user.there THEN stored + 1 ELSE stored
    /\ ReqTo(r, "done")
    /\ UNCHANGED <<now, rowVars, cache, job, sweep, turns, failedOpen, sent>>

----------------------------------------------------------------------------
\* The sweep, and time.

\* created_at < now - retention, in the statement that deletes.
Stale == now > RETENTION

\* delete_stale_anonymous and its commit: never a row with an email.
Sweep ==
    /\ sweep.due
    /\ LET gone == Visitor /\ user.there /\ Stale
       IN  /\ user' = [user EXCEPT !.there = @ /\ ~gone]
           /\ changed' = IF gone THEN now ELSE changed
           /\ sweep' = [sweep EXCEPT !.due = FALSE,
                                     !.at = IF gone THEN "purge" ELSE @,
                                     !.since = IF gone THEN now ELSE @]
    /\ UNCHANGED <<now, cache, job, req, demoVars, peak, sent>>

PurgeRevocationCache ==
    /\ sweep.at = "purge"
    /\ cache' = Miss
    /\ sweep' = [sweep EXCEPT !.at = "idle"]
    /\ UNCHANGED <<now, rowVars, job, req, demoVars, sent>>

\* Redis fails, the commit's answer is lost, or the worker dies.
PurgeLost ==
    /\ Faults # {}
    /\ sweep.at = "purge"
    /\ sweep' = [sweep EXCEPT !.at = "idle"]
    /\ UNCHANGED <<now, rowVars, cache, job, req, demoVars, sent>>

\* A step between two stores ends, or its process dies, within DELAY.
InTime(since) == now < since + DELAY
Prompt ==
    /\ \A p \in Pub : job[p].at \in {"set", "del"} => InTime(job[p].since)
    /\ \A r \in Req : req[r].at \in Hurried => InTime(req[r].since)
    /\ sweep.at = "purge" => InTime(sweep.since)

\* The schedule, one run a day; a member's is of no effect, and left out.
NextWait == IF sweep.wait = 0 THEN DAY - 1 ELSE sweep.wait - 1
NextSweep == IF Visitor THEN [sweep EXCEPT !.wait = NextWait, !.due = NextWait = 0] ELSE sweep

\* A day's sweep has run before its hour is over.
Tick ==
    /\ now < IF Visitor THEN VisitorTime ELSE MemberTime
    /\ Prompt
    /\ ~sweep.due
    /\ now' = now + 1
    /\ cache' = EntryAt(now + 1)
    /\ turns' = Aged(turns, now + 1)
    /\ sweep' = NextSweep
    /\ UNCHANGED <<rowVars, job, req, stored, failedOpen, sent>>

----------------------------------------------------------------------------
Publish(p) ==
    \/ TakeCutoff(p) \/ Commit(p) \/ CommitFails(p)
    \/ PublishSva(p) \/ SetFails(p) \/ DropCached(p) \/ PublishLost(p)

Authenticate(r) ==
    \/ \E session \in LoggedIn : Begin(r, session)
    \/ GetHit(r) \/ GetMiss(r) \/ FetchSva(r) \/ Fill(r) \/ End(r)
    \/ IncrTurns(r) \/ TtlTurns(r) \/ ExpireTurns(r) \/ HitFailsOpen(r) \/ PersistTurn(r)

Next ==
    \/ \E p \in Pub : Publish(p)
    \/ \E r \in Req : Authenticate(r)
    \/ Sweep \/ PurgeRevocationCache \/ PurgeLost
    \/ Tick

Spec == Init /\ [][Next]_vars

----------------------------------------------------------------------------
\* Properties.

TypeOK ==
    /\ now \in Nat
    /\ user \in Row
    /\ cache \in CacheEntry
    /\ job \in [Pub -> Job]
    /\ req \in [Req -> Request]
    /\ sweep \in SweepState
    /\ turns \in Counter
    /\ stored \in Nat /\ failedOpen \in Nat
    /\ peak \in Nat /\ changed \in Nat /\ sent \in Nat

Accepts(r) == req[r].at # "accepted" /\ req'[r].at = "accepted"
Refuses(r) == req[r].at # "refused" /\ req'[r].at = "refused"

\* revocation.py:4-10: whatever is lost or late between the database and Redis,
\* a session that the row no longer allows, or whose row is gone, is accepted
\* for less than one TTL after the commit that revoked it, and the delay of the
\* step that may still have filled the cache with what was true before.
RevocationTakesHold ==
    [][\A r \in Req :
        Accepts(r) /\ (~user.there \/ Revoked(req[r].session, user.cutoff))
            => now < changed + DELAY + TTL]_vars

\* internal_auth.py:137-138: the cache never leads the database. A refused
\* session is older than a cutoff that was committed, or its row is gone; a
\* login in the cutoff's own second is not refused.
RefusedForCause ==
    [][\A r \in Req :
        Refuses(r) => ~user.there \/ req[r].session < peak]_vars

\* revocation.py:4-6: a cutoff whose publication went through is what Redis
\* answers from then on. Once every publisher has published and the last one
\* wrote the row's own cutoff, no fill that read an older one can put it back.
PublishIsInstant ==
    /\ \A p \in Pub : job[p].at \in {"idle", "writes", "published"}
    /\ sent = user.cutoff
    /\ Hit
    => cache.cutoff = user.cutoff

\* demo.py:3-7, 28-32: a visitor stores at most DEMO_TURN_LIMIT turns in its
\* whole life, save for hits that Redis failed to count: the counter outlives
\* the row, and concurrent sends cannot read the same count.
TurnsAreCapped == stored <= DEMO_TURN_LIMIT + failedOpen

\* rate_limit.py:28-30: nobody is locked out for good. A hit that is refused
\* leaves a counter that ends, whatever died between INCR and EXPIRE.
RefusalExpires ==
    [][\A r \in Req :
        req[r].at # "limited" /\ req'[r].at = "limited" => ~LacksTtl(turns')]_vars
=============================================================================
