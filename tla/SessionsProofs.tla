---------------------------- MODULE SessionsProofs ----------------------------
(* Proofs about Sessions, for all publishers, requests, times and faults.     *)
EXTENDS Sessions, FiniteSetTheorems, TLAPS

USE DEF demoVars, rowVars

----------------------------------------------------------------------------
\* Types.

LEMMA TypeInit == Init => TypeOK
  BY TimesAssumption
  DEF Init, TypeOK, Miss, JobIdle, ReqIdle, NoKey, Never, Counter, Row, CacheEntry,
      Job, JobAt, Request, ReqAt, SweepState

\* Where a job, a request or the row goes, its type goes too.
LEMMA JobToType ==
  ASSUME TypeOK, NEW p \in Pub, NEW place \in JobAt, JobTo(p, place)
  PROVE job' \in [Pub -> Job]
  BY DEF TypeOK, JobTo, Job

LEMMA WriteType ==
  ASSUME TypeOK, NEW p \in Pub, WriteCutoff(p)
  PROVE user' \in Row /\ peak' \in Nat /\ changed' \in Nat
  BY DEF TypeOK, WriteCutoff, Row, Job

LEMMA EntryType ==
  ASSUME TypeOK, NEW cutoff \in Nat
  PROVE Entry(cutoff) \in CacheEntry /\ Filled(cutoff) \in CacheEntry /\ Miss \in CacheEntry
  BY TimesAssumption DEF TypeOK, Entry, Filled, CacheEntry, Miss

LEMMA ReqToType ==
  ASSUME TypeOK, NEW r \in Req, NEW place \in ReqAt, ReqTo(r, place)
  PROVE req' \in [Req -> Request]
  BY DEF TypeOK, ReqTo, Request

LEMMA JudgeType ==
  ASSUME TypeOK, NEW r \in Req, NEW cutoff, Judge(r, cutoff)
  PROVE req' \in [Req -> Request]
  BY DEF TypeOK, Judge, ReqIdle, Request, ReqAt

LEMMA TypePublish ==
  ASSUME TypeOK, NEW p \in Pub, Publish(p)
  PROVE TypeOK'
  <1>1. CASE TakeCutoff(p)
    <2>1. job' \in [Pub -> Job]
      BY <1>1 DEF TypeOK, TakeCutoff, Job, JobAt
    <2> QED
      BY <1>1, <2>1 DEF TypeOK, TakeCutoff
  <1>2. CASE Commit(p)
    BY <1>2, WriteType, JobToType DEF TypeOK, Commit, JobAt
  <1>3. CASE CommitFails(p)
    <2>1. job' \in [Pub -> Job]
      BY <1>3, JobToType DEF CommitFails, JobAt
    <2> QED
      BY <1>3, <2>1, WriteType DEF TypeOK, CommitFails
  <1>4. CASE PublishSva(p)
    <2>1. job[p].cutoff \in Nat
      BY DEF TypeOK, Job
    <2> QED
      BY <1>4, <2>1, EntryType, JobToType DEF TypeOK, PublishSva, JobAt
  <1>5. CASE SetFails(p)
    <2>1. job[p].cutoff \in Nat /\ job' \in [Pub -> Job]
      BY <1>5 DEF TypeOK, SetFails, Job, JobAt
    <2> QED
      BY <1>5, <2>1, EntryType DEF TypeOK, SetFails
  <1>6. CASE DropCached(p)
    BY <1>6, EntryType, JobToType DEF TypeOK, DropCached, JobAt
  <1>7. CASE PublishLost(p)
    BY <1>7, JobToType DEF TypeOK, PublishLost, JobAt
  <1> QED
    BY <1>1, <1>2, <1>3, <1>4, <1>5, <1>6, <1>7 DEF Publish

LEMMA TypeAuthenticate ==
  ASSUME TypeOK, NEW r \in Req, Authenticate(r)
  PROVE TypeOK'
  <1>0. req[r].saw \in Nat
    BY DEF TypeOK, Request
  <1>1. ASSUME NEW session \in LoggedIn, Begin(r, session) PROVE TypeOK'
    <2>1. req' \in [Req -> Request]
      BY <1>1 DEF TypeOK, Begin, LoggedIn, Request, ReqAt
    <2> QED
      BY <1>1, <2>1 DEF TypeOK, Begin
  <1>2. CASE GetHit(r)
    BY <1>2, JudgeType DEF TypeOK, GetHit
  <1>3. CASE GetMiss(r)
    BY <1>3, ReqToType DEF TypeOK, GetMiss, ReqAt
  <1>4. CASE FetchSva(r)
    <2>1. req' \in [Req -> Request]
      <3>1. CASE ~user.there /\ ReqTo(r, "refused")
        BY <3>1, ReqToType DEF ReqAt
      <3>2. CASE Judge(r, user.cutoff)
        BY <3>2, JudgeType
      <3>3. CASE req' = [req EXCEPT ![r].at = "fill", ![r].saw = user.cutoff, ![r].since = now]
        <4>1. user.cutoff \in Nat /\ now \in Nat /\ "fill" \in ReqAt /\ req \in [Req -> Request]
          BY DEF TypeOK, Row, ReqAt
        <4> QED
          BY ONLY <3>3, <4>1, r \in Req DEF Request
      <3> QED
        BY <1>4, <3>1, <3>2, <3>3 DEF FetchSva
    <2> QED
      BY <1>4, <2>1 DEF TypeOK, FetchSva
  <1>5. CASE Fill(r)
    BY <1>0, <1>5, JudgeType, EntryType DEF TypeOK, Fill
  <1>6. CASE End(r)
    <2>1. req' \in [Req -> Request]
      BY <1>6 DEF TypeOK, End, ReqIdle, Request, ReqAt
    <2> QED
      BY <1>6, <2>1 DEF TypeOK, End
  <1>7. CASE IncrTurns(r)
    <2>0. turns.n + 1 \in Nat /\ AfterIncr(turns.n + 1) \in ReqAt
      BY DEF TypeOK, Counter, AfterIncr, ReqAt
    <2>1. req' \in [Req -> Request]
      BY <1>7, <2>0 DEF TypeOK, IncrTurns, Request
    <2>2. turns' \in Counter
      BY <1>7 DEF TypeOK, IncrTurns, Incr, Counter
    <2> QED
      BY <1>7, <2>1, <2>2 DEF TypeOK, IncrTurns
  <1>8. CASE TtlTurns(r)
    <2>1. req' \in [Req -> Request]
      BY <1>8, ReqToType DEF TtlTurns, Verdict, ReqAt
    <2> QED
      BY <1>8, <2>1 DEF TypeOK, TtlTurns
  <1>9. CASE ExpireTurns(r)
    <2>1. turns' \in Counter
      BY <1>9, TimesAssumption DEF TypeOK, ExpireTurns, Expire, Counter, TurnWindow
    <2>2. req' \in [Req -> Request]
      BY <1>9, ReqToType DEF ExpireTurns, Verdict, ReqAt
    <2> QED
      BY <1>9, <2>1, <2>2 DEF TypeOK, ExpireTurns
  <1>10. CASE HitFailsOpen(r)
    BY <1>10, ReqToType DEF TypeOK, HitFailsOpen, ReqAt
  <1>11. CASE PersistTurn(r)
    BY <1>11, ReqToType DEF TypeOK, PersistTurn, ReqAt
  <1> QED
    BY <1>1, <1>2, <1>3, <1>4, <1>5, <1>6, <1>7, <1>8, <1>9, <1>10, <1>11 DEF Authenticate

LEMMA TypeSweep ==
  ASSUME TypeOK, Sweep \/ PurgeRevocationCache \/ PurgeLost
  PROVE TypeOK'
  <1>1. CASE Sweep
    <2>1. user' \in Row /\ changed' \in Nat
      BY <1>1 DEF TypeOK, Sweep, Row
    <2>2. sweep' \in SweepState
      BY <1>1 DEF TypeOK, Sweep, SweepState
    <2> QED
      BY <1>1, <2>1, <2>2 DEF TypeOK, Sweep
  <1>2. CASE PurgeRevocationCache
    BY <1>2, EntryType DEF TypeOK, PurgeRevocationCache, SweepState
  <1>3. CASE PurgeLost
    BY <1>3 DEF TypeOK, PurgeLost, SweepState
  <1> QED
    BY <1>1, <1>2, <1>3

LEMMA TypeTick ==
  ASSUME TypeOK, Tick
  PROVE TypeOK'
  <1>1. NextSweep \in SweepState
    <2>1. NextWait \in 0 .. DAY - 1
      BY TimesAssumption DEF TypeOK, NextWait, SweepState
    <2>2. (NextWait = 0) \in BOOLEAN
      OBVIOUS
    <2> QED
      BY <2>1, <2>2 DEF TypeOK, NextSweep, SweepState
  <1>2. EntryAt(now + 1) \in CacheEntry
    BY EntryType DEF TypeOK, EntryAt
  <1>3. Aged(turns, now + 1) \in Counter
    BY DEF TypeOK, Aged, Counter, NoKey, Never
  <1> QED
    BY <1>1, <1>2, <1>3 DEF TypeOK, Tick

LEMMA TypeStep == TypeOK /\ [Next]_vars => TypeOK'
  <1>1. TypeOK /\ Next => TypeOK'
    BY TypePublish, TypeAuthenticate, TypeSweep, TypeTick DEF Next
  <1>2. TypeOK /\ UNCHANGED vars => TypeOK'
    BY DEF vars, TypeOK
  <1> QED
    BY <1>1, <1>2

\* Type correctness of Sessions.
THEOREM TypeCorrect == Spec => []TypeOK
  BY TypeInit, TypeStep, PTL DEF Spec

----------------------------------------------------------------------------
\* The invariant.

\* Who still owes Redis a command is within its DELAY, and the entry within its
\* TTL: an entry that differs from the row was written soon after the row moved.
Timely ==
    /\ changed <= now
    /\ Hit => now < cache.until /\ cache.until <= now + TTL
    /\ Hit /\ (~user.there \/ cache.cutoff # user.cutoff)
       => cache.until <= changed + DELAY + TTL
    /\ \A p \in Pub : job[p].at \in {"set", "del"}
       => now <= job[p].since + DELAY /\ job[p].since <= changed
    /\ \A r \in Req : req[r].at = "fill"
       => /\ now <= req[r].since + DELAY
          /\ req[r].since <= now
          /\ ~user.there \/ req[r].saw # user.cutoff => req[r].since <= changed

\* Whatever a session is judged by was in the row at some time.
Justified ==
    /\ user.cutoff <= peak
    /\ Hit => cache.cutoff <= peak
    /\ \A p \in Pub : job[p].at \in {"set", "del"} => job[p].cutoff <= peak
    /\ \A r \in Req : req[r].at = "fill" => req[r].saw <= peak

\* Every publication went through, and the last one wrote the row's cutoff.
Settled ==
    /\ \A p \in Pub : job[p].at \in {"idle", "writes", "published"}
    /\ sent = user.cutoff

\* Then the entry is right, and outlives every fill that would write another.
Published ==
    /\ Settled /\ Hit => cache.cutoff = user.cutoff
    /\ Settled => \A r \in Req : req[r].at = "fill" /\ req[r].saw # user.cutoff
                  => Hit /\ req[r].since + DELAY < cache.until
    /\ sweep.at = "purge" => Visitor
    /\ Visitor => \A p \in Pub : job[p].at = "idle"
    /\ Visitor => \A r \in Req : req[r].at = "fill" => req[r].saw = user.cutoff

Inv == TypeOK /\ Timely /\ Justified /\ Published

\* The parts of TypeOK the invariant's arithmetic needs.
LEMMA Numbers ==
  ASSUME TypeOK
  PROVE /\ now \in Nat /\ peak \in Nat /\ changed \in Nat /\ sent \in Nat
        /\ cache.cutoff \in Nat /\ cache.until \in Nat /\ user.cutoff \in Nat
        /\ \A p \in Pub : job[p].cutoff \in Nat /\ job[p].since \in Nat
        /\ \A r \in Req : req[r].saw \in Nat /\ req[r].since \in Nat /\ req[r].session \in Nat
        /\ TTL \in Nat /\ DELAY \in Nat /\ DELAY < TTL
  BY TimesAssumption DEF TypeOK, CacheEntry, Row, Job, Request

LEMMA InvInit == Init => Inv
  <1> SUFFICES ASSUME Init PROVE Inv
    OBVIOUS
  <1>1. TypeOK
    BY TypeInit
  <1>2. /\ now = 0 /\ changed = 0 /\ user.cutoff = 0 /\ peak = 0 /\ cache.until = 0 /\ cache.cutoff = 0 /\ sweep.at = "idle"
    BY DEF Init, Miss
  <1>3. (\A p \in Pub : job[p].at = "idle") /\ (\A r \in Req : req[r].at = "idle")
    BY DEF Init, JobIdle, ReqIdle
  <1>4. Timely
    BY <1>2, <1>3 DEF Timely, Hit
  <1>5. Justified
    BY <1>2, <1>3 DEF Justified, Hit
  <1>6. Published
    BY <1>2, <1>3 DEF Published, Settled, Hit
  <1> QED
    BY <1>1, <1>4, <1>5, <1>6 DEF Inv

\* A step of a request that leaves the cache alone and starts no fill.
LEMMA QuietRequest ==
  ASSUME Inv, UNCHANGED <<now, user, cache, job, peak, changed, sent, sweep>>,
         \A r \in Req : req'[r].at = "fill" => req'[r] = req[r]
  PROVE Timely' /\ Justified' /\ Published'
  <1>1. Timely'
    BY DEF Inv, Timely, Hit
  <1>2. Justified'
    BY DEF Inv, Justified, Hit
  <1>3. Published'
    BY DEF Inv, Published, Settled, Hit, Visitor
  <1> QED
    BY <1>1, <1>2, <1>3

LEMMA ReqToElsewhere ==
  ASSUME TypeOK, NEW r \in Req, NEW place \in ReqAt \ {"fill"}, ReqTo(r, place)
  PROVE \A s \in Req : req'[s].at = "fill" => req'[s] = req[s]
  BY DEF TypeOK, ReqTo, Request

LEMMA JudgeElsewhere ==
  ASSUME TypeOK, NEW r \in Req, NEW cutoff, Judge(r, cutoff)
  PROVE \A s \in Req : req'[s].at = "fill" => req'[s] = req[s]
  BY DEF TypeOK, Judge, ReqIdle, Request

LEMMA InvRequest ==
  ASSUME Inv, NEW r \in Req, Authenticate(r), ~Fill(r), ~FetchSva(r)
  PROVE Timely' /\ Justified' /\ Published'
  <1>0. TypeOK
    BY DEF Inv
  <1>1. ASSUME NEW session \in LoggedIn, Begin(r, session)
        PROVE \A s \in Req : req'[s].at = "fill" => req'[s] = req[s]
    BY <1>0, <1>1 DEF TypeOK, Begin, Request
  <1>2. CASE GetHit(r)
    BY <1>0, <1>2, JudgeElsewhere, QuietRequest DEF GetHit
  <1>3. CASE GetMiss(r)
    BY <1>0, <1>3, ReqToElsewhere, QuietRequest DEF GetMiss, ReqAt
  <1>4. CASE End(r)
    <2>1. \A s \in Req : req'[s].at = "fill" => req'[s] = req[s]
      BY <1>0, <1>4 DEF TypeOK, End, ReqIdle, Request
    <2> QED
      BY <1>4, <2>1, QuietRequest DEF End
  <1>5. CASE IncrTurns(r)
    <2>1. \A s \in Req : req'[s].at = "fill" => req'[s] = req[s]
      BY <1>0, <1>5 DEF TypeOK, IncrTurns, AfterIncr, Request
    <2> QED
      BY <1>5, <2>1, QuietRequest DEF IncrTurns
  <1>6. CASE TtlTurns(r)
    <2>1. \A s \in Req : req'[s].at = "fill" => req'[s] = req[s]
      BY <1>0, <1>6, ReqToElsewhere DEF TtlTurns, Verdict, ReqAt
    <2> QED
      BY <1>6, <2>1, QuietRequest DEF TtlTurns
  <1>7. CASE ExpireTurns(r)
    <2>1. \A s \in Req : req'[s].at = "fill" => req'[s] = req[s]
      BY <1>0, <1>7, ReqToElsewhere DEF ExpireTurns, Verdict, ReqAt
    <2> QED
      BY <1>7, <2>1, QuietRequest DEF ExpireTurns
  <1>8. CASE HitFailsOpen(r)
    BY <1>0, <1>8, ReqToElsewhere, QuietRequest DEF HitFailsOpen, ReqAt
  <1>9. CASE PersistTurn(r)
    BY <1>0, <1>9, ReqToElsewhere, QuietRequest DEF PersistTurn, ReqAt
  <1>10. ASSUME NEW session \in LoggedIn, Begin(r, session)
         PROVE Timely' /\ Justified' /\ Published'
    BY <1>1, <1>10, QuietRequest DEF Begin
  <1> QED
    BY <1>2, <1>3, <1>4, <1>5, <1>6, <1>7, <1>8, <1>9, <1>10 DEF Authenticate

LEMMA InvFetch ==
  ASSUME Inv, NEW r \in Req, FetchSva(r)
  PROVE Timely' /\ Justified' /\ Published'
  <1>0. TypeOK
    BY DEF Inv
  <1>1. CASE ~user.there /\ ReqTo(r, "refused")
    BY <1>0, <1>1, FetchSva(r), ReqToElsewhere, QuietRequest DEF FetchSva, ReqAt
  <1>2. CASE Judge(r, user.cutoff)
    BY <1>0, <1>2, FetchSva(r), JudgeElsewhere, QuietRequest DEF FetchSva
  <1>3. CASE /\ user.there
             /\ req' = [req EXCEPT ![r].at = "fill", ![r].saw = user.cutoff, ![r].since = now]
    <2>1. UNCHANGED <<now, user, cache, job, peak, changed, sent, sweep>>
      BY FetchSva(r) DEF FetchSva
    <2>2. \A s \in Req \ {r} : req'[s] = req[s]
      BY <1>3, <1>0 DEF TypeOK
    <2>3. req'[r].saw = user.cutoff /\ req'[r].since = now
      <3>1. req[r] \in Request
        BY <1>0 DEF TypeOK
      <3>2. req'[r] = [req[r] EXCEPT !.at = "fill", !.saw = user.cutoff, !.since = now]
        BY <1>0, <1>3 DEF TypeOK
      <3> QED
        BY <3>1, <3>2 DEF Request
    <2>4. Timely'
      <3>1. now <= now + DELAY
        BY <1>0, Numbers
      <3>2. req'[r].at = "fill" => now' <= req'[r].since + DELAY /\ req'[r].since <= now'
                                   /\ user'.there /\ req'[r].saw = user'.cutoff
        BY <1>0, <1>3, <2>1, <2>3, <3>1, Numbers
      <3> QED
        BY <2>1, <2>2, <3>2 DEF Inv, Timely, Hit
    <2>5. Justified'
      BY <2>1, <2>2, <2>3 DEF Inv, Justified, Hit
    <2>6. Published'
      BY <2>1, <2>2, <2>3 DEF Inv, Published, Settled, Hit, Visitor
    <2> QED
      BY <2>4, <2>5, <2>6
  <1> QED
    BY <1>1, <1>2, <1>3, FetchSva(r) DEF FetchSva

\* A fill that writes finds no entry: what it read is then the row's cutoff, or
\* nothing is Settled.
LEMMA InvFill ==
  ASSUME Inv, NEW r \in Req, Fill(r)
  PROVE Timely' /\ Justified' /\ Published'
  <1>0. TypeOK /\ req[r].at = "fill"
    BY DEF Inv, Fill
  <1>1. \A s \in Req : req'[s].at = "fill" => req'[s] = req[s]
    BY <1>0, JudgeElsewhere DEF Fill
  <1>2. UNCHANGED <<now, user, job, peak, changed, sent, sweep>>
    BY DEF Fill
  <1>3. CASE UNCHANGED cache
    BY <1>1, <1>2, <1>3, QuietRequest
  <1>4. CASE ~Hit /\ cache' = Entry(req[r].saw)
    <2>1. cache'.cutoff = req[r].saw /\ cache'.until = now + TTL
      BY <1>4 DEF Entry
    <2>2. Timely'
      BY <1>0, <1>1, <1>2, <2>1, Numbers DEF Inv, Timely, Hit
    <2>3. Justified'
      BY <1>0, <1>1, <1>2, <2>1, Numbers DEF Inv, Justified, Hit
    <2>4. Published'
      BY <1>0, <1>1, <1>2, <1>4, <2>1, Numbers DEF Inv, Published, Settled, Hit, Visitor
    <2> QED
      BY <2>2, <2>3, <2>4
  <1> QED
    BY <1>3, <1>4 DEF Fill, Filled

----------------------------------------------------------------------------
\* Publishers.

LEMMA InvPublish ==
  ASSUME Inv, NEW p \in Pub, Publish(p)
  PROVE Timely' /\ Justified' /\ Published'
  <1>0. TypeOK
    BY DEF Inv
  <1>1. CASE TakeCutoff(p)
    <2>1. \A q \in Pub \ {p} : job'[q] = job[q]
      BY <1>0, <1>1 DEF TypeOK, TakeCutoff
    <2>2. job'[p].at = "writes"
      BY <1>0, <1>1 DEF TypeOK, TakeCutoff
    <2>3. UNCHANGED <<now, user, cache, req, peak, changed, sent, sweep>> /\ ~Visitor /\ job[p].at = "idle"
      BY <1>1 DEF TakeCutoff, Visitor
    <2>4. Timely'
      BY <2>1, <2>2, <2>3 DEF Inv, Timely, Hit
    <2>5. Justified'
      BY <2>1, <2>2, <2>3 DEF Inv, Justified, Hit
    <2>6. Published'
      BY <2>1, <2>2, <2>3 DEF Inv, Published, Settled, Hit, Visitor
    <2> QED
      BY <2>4, <2>5, <2>6
  <1>2. ASSUME WriteCutoff(p), NEW place \in {"set", "unpublished"}, JobTo(p, place),
               UNCHANGED <<now, cache, req, sweep, sent>>
        PROVE Timely' /\ Justified' /\ Published'
    <2>1. \A q \in Pub \ {p} : job'[q] = job[q]
      BY <1>0, <1>2 DEF TypeOK, JobTo
    <2>2. /\ job'[p].at = place /\ job'[p].cutoff = job[p].cutoff
          /\ place = "set" => job'[p].since = now
      BY <1>0, <1>2 DEF TypeOK, JobTo, Job
    <2>3. /\ user'.cutoff = job[p].cutoff /\ user'.there = user.there /\ user'.email = user.email
          /\ changed' = now /\ peak \in Nat /\ peak' \in Nat /\ peak <= peak' /\ job[p].cutoff <= peak'
      BY <1>0, <1>2, Numbers DEF WriteCutoff, TypeOK, Row
    <2>4. job[p].at = "writes"
      BY <1>2 DEF WriteCutoff
    <2>5. Timely'
      BY <1>0, <1>2, <2>1, <2>2, <2>3, Numbers DEF Inv, Timely, Hit
    <2>6. Justified'
      BY <1>0, <1>2, <2>1, <2>2, <2>3, Numbers DEF Inv, Justified, Hit
    <2>7. ~Settled'
      BY <2>2 DEF Settled
    <2>8. ~Visitor
      BY <2>4 DEF Inv, Published
    <2>9. Published'
      BY <1>2, <2>3, <2>7, <2>8 DEF Inv, Published, Visitor
    <2> QED
      BY <2>5, <2>6, <2>9
  <1>3. CASE Commit(p)
    BY <1>2, <1>3 DEF Commit
  <1>4. ASSUME job[p].at # "idle", job'[p].at = "unpublished", UNCHANGED <<now, user, req, sweep, peak, changed, sent>>,
               \A q \in Pub \ {p} : job'[q] = job[q],
               UNCHANGED cache \/ cache' = Miss
        PROVE Timely' /\ Justified' /\ Published'
    <2>1. ~Settled'
      BY <1>4 DEF Settled
    <2>2. ~Visitor
      BY <1>4 DEF Inv, Published
    <2>3. Timely'
      BY <1>0, <1>4 DEF Inv, Timely, Hit, Miss
    <2>4. Justified'
      BY <1>0, <1>4 DEF Inv, Justified, Hit, Miss
    <2>5. Published'
      BY <1>4, <2>1, <2>2 DEF Inv, Published, Visitor
    <2> QED
      BY <2>3, <2>4, <2>5
  <1>5. CASE CommitFails(p)
    <2>1. CASE WriteCutoff(p)
      BY <1>2, <1>5, <2>1 DEF CommitFails
    <2>2. CASE UNCHANGED rowVars
      <3>1. job[p].at # "idle" /\ job'[p].at = "unpublished" /\ \A q \in Pub \ {p} : job'[q] = job[q]
        BY <1>0, <1>5 DEF CommitFails, JobTo, TypeOK, Job
      <3> QED
        BY <1>4, <1>5, <2>2, <3>1 DEF CommitFails
    <2> QED
      BY <1>5, <2>1, <2>2 DEF CommitFails
  <1>6. CASE PublishSva(p)
    <2>1. /\ \A q \in Pub \ {p} : job'[q] = job[q]
          /\ job'[p].at = "published"
          /\ job[p].at = "set"
      BY <1>0, <1>6 DEF PublishSva, JobTo, TypeOK, Job
    <2>2. /\ cache'.cutoff = job[p].cutoff /\ cache'.until = now + TTL /\ sent' = job[p].cutoff
          /\ UNCHANGED <<now, user, peak, changed, req, sweep>>
      BY <1>6 DEF PublishSva, Entry
    <2>3. Timely'
      BY <1>0, <2>1, <2>2, Numbers DEF Inv, Timely, Hit
    <2>4. Justified'
      BY <1>0, <2>1, <2>2, Numbers DEF Inv, Justified, Hit
    <2>5. ~Visitor
      BY <2>1 DEF Inv, Published
    <2>6. Published'
      BY <1>0, <2>1, <2>2, <2>5, Numbers DEF Inv, Timely, Published, Settled, Hit, Visitor
    <2> QED
      BY <2>3, <2>4, <2>6
  <1>7. CASE SetFails(p)
    <2>1. /\ \A q \in Pub \ {p} : job'[q] = job[q]
          /\ job'[p].at = "del" /\ job'[p].since = job[p].since /\ job'[p].cutoff = job[p].cutoff
          /\ job[p].at = "set"
      BY <1>0, <1>7 DEF SetFails, TypeOK, Job
    <2>2. /\ \/ cache' = cache
             \/ cache'.cutoff = job[p].cutoff /\ cache'.until = now + TTL
          /\ UNCHANGED <<now, user, peak, changed, req, sweep, sent>>
      BY <1>7 DEF SetFails, Entry
    <2>3. Timely'
      BY <1>0, <2>1, <2>2, Numbers DEF Inv, Timely, Hit
    <2>4. Justified'
      BY <1>0, <2>1, <2>2, Numbers DEF Inv, Justified, Hit
    <2>5. ~Visitor /\ ~Settled'
      BY <2>1 DEF Inv, Published, Settled
    <2>6. Published'
      BY <2>2, <2>5 DEF Inv, Published, Visitor
    <2> QED
      BY <2>3, <2>4, <2>6
  <1>8. CASE DropCached(p)
    <2>1. /\ \A q \in Pub \ {p} : job'[q] = job[q]
          /\ job'[p].at = "unpublished"
          /\ job[p].at # "idle"
      BY <1>0, <1>8 DEF DropCached, JobTo, TypeOK, Job
    <2> QED
      BY <1>4, <1>8, <2>1 DEF DropCached
  <1>9. CASE PublishLost(p)
    <2>1. /\ \A q \in Pub \ {p} : job'[q] = job[q]
          /\ job'[p].at = "unpublished"
          /\ job[p].at # "idle"
      BY <1>0, <1>9 DEF PublishLost, JobTo, TypeOK, Job
    <2> QED
      BY <1>4, <1>9, <2>1 DEF PublishLost
  <1> QED
    BY <1>1, <1>3, <1>5, <1>6, <1>7, <1>8, <1>9 DEF Publish

----------------------------------------------------------------------------
\* The sweep and the clock.

LEMMA InvSweep ==
  ASSUME Inv, Sweep \/ PurgeRevocationCache \/ PurgeLost
  PROVE Timely' /\ Justified' /\ Published'
  <1>0. TypeOK
    BY DEF Inv
  <1>1. CASE Sweep
    <2>1. /\ user'.cutoff = user.cutoff /\ user'.email = user.email
          /\ \/ user'.there = user.there /\ changed' = changed /\ sweep'.at = sweep.at
             \/ ~user.email /\ changed' = now
          /\ UNCHANGED <<now, cache, job, req, peak, sent>>
      BY <1>0, <1>1 DEF Sweep, TypeOK, Row, SweepState, Visitor
    <2>2. Timely'
      BY <1>0, <2>1, Numbers DEF Inv, Timely, Hit
    <2>3. Justified'
      BY <2>1 DEF Inv, Justified, Hit
    <2>4. Published'
      BY <2>1 DEF Inv, Published, Settled, Hit, Visitor
    <2> QED
      BY <2>2, <2>3, <2>4
  <1>2. CASE PurgeRevocationCache \/ PurgeLost
    <2>1. /\ UNCHANGED <<now, user, job, req, peak, changed, sent>>
          /\ cache' = cache \/ cache' = Miss
          /\ sweep.at = "purge" /\ sweep'.at = "idle"
      BY <1>0, <1>2 DEF PurgeRevocationCache, PurgeLost, TypeOK, SweepState
    <2>2. Timely'
      BY <2>1 DEF Inv, Timely, Hit, Miss
    <2>3. Justified'
      BY <2>1 DEF Inv, Justified, Hit, Miss
    <2>4. Published'
      BY <2>1 DEF Inv, Published, Settled, Hit, Visitor, Miss
    <2> QED
      BY <2>2, <2>3, <2>4
  <1> QED
    BY <1>1, <1>2

LEMMA InvTick ==
  ASSUME Inv, Tick
  PROVE Timely' /\ Justified' /\ Published'
  <1>0. TypeOK
    BY DEF Inv
  <1>1. UNCHANGED <<user, job, req, peak, changed, sent>> /\ now' = now + 1
    BY DEF Tick
  <1>2. \/ cache' = Miss /\ cache.until <= now + 1
        \/ cache' = cache /\ now + 1 < cache.until
    BY <1>0, Numbers DEF Tick, EntryAt
  <1>3. sweep'.at = sweep.at
    BY <1>0 DEF Tick, NextSweep, TypeOK, SweepState
  <1>4. /\ \A p \in Pub : job[p].at \in {"set", "del"} => now < job[p].since + DELAY
        /\ \A r \in Req : req[r].at = "fill" => now < req[r].since + DELAY
    BY DEF Tick, Prompt, InTime, Hurried
  <1>5. Timely'
    BY <1>0, <1>1, <1>2, <1>4, Numbers DEF Inv, Timely, Hit, Miss
  <1>6. Justified'
    BY <1>1, <1>2 DEF Inv, Justified, Hit, Miss
  <1>7. Published'
    BY <1>0, <1>1, <1>2, <1>3, <1>4, Numbers DEF Inv, Published, Settled, Hit, Visitor, Miss
  <1> QED
    BY <1>5, <1>6, <1>7

LEMMA InvStep == Inv /\ [Next]_vars => Inv'
  <1>1. ASSUME Inv, Next PROVE Timely' /\ Justified' /\ Published'
    BY <1>1, InvPublish, InvRequest, InvFetch, InvFill, InvSweep, InvTick DEF Next
  <1>2. ASSUME Inv, UNCHANGED vars PROVE Timely' /\ Justified' /\ Published'
    BY <1>2, QuietRequest DEF vars
  <1>3. Inv /\ [Next]_vars => TypeOK'
    BY TypeStep DEF Inv
  <1> QED
    BY <1>1, <1>2, <1>3 DEF Inv

\* The invariant of Sessions, checked by the proofs below.
THEOREM InvHolds == Spec => []Inv
  BY InvInit, InvStep, PTL DEF Spec

----------------------------------------------------------------------------
\* What follows.

\* Once every publication has gone through, Redis answers the row's cutoff.
THEOREM PublishingIsInstant == Spec => []PublishIsInstant
  <1>1. Inv => PublishIsInstant
    BY DEF Inv, Published, Settled, PublishIsInstant
  <1> QED
    BY <1>1, InvHolds, PTL

\* The steps that judge a request.
LEMMA Judged ==
  ASSUME TypeOK, Next, NEW r \in Req, Accepts(r)
  PROVE GetHit(r) \/ Fill(r) \/ FetchSva(r)
  <1>1. req' # req
    BY DEF Accepts
  <1>2. PICK s \in Req : Authenticate(s)
    BY <1>1 DEF Next, Publish, TakeCutoff, Commit, CommitFails, PublishSva, SetFails, DropCached,
           PublishLost, Sweep, PurgeRevocationCache, PurgeLost, Tick
  <1>3. ASSUME NEW place \in ReqAt \ {"accepted"}, ReqTo(s, place) PROVE FALSE
    BY <1>3 DEF Accepts, ReqTo, TypeOK, Request
  <1>4. ~\E session \in LoggedIn : Begin(s, session)
    BY DEF Accepts, Begin, TypeOK, Request
  <1>5. ~GetMiss(s)
    BY <1>3 DEF GetMiss, ReqAt
  <1>6. ~End(s)
    BY DEF Accepts, End, ReqIdle, TypeOK, Request
  <1>7. ~IncrTurns(s)
    BY DEF Accepts, IncrTurns, AfterIncr, TypeOK, Request
  <1>8. ~TtlTurns(s) /\ ~ExpireTurns(s)
    BY <1>3 DEF TtlTurns, ExpireTurns, Verdict, ReqAt
  <1>9. ~HitFailsOpen(s) /\ ~PersistTurn(s)
    BY <1>3 DEF HitFailsOpen, PersistTurn, ReqAt
  <1>10. GetHit(s) \/ Fill(s) \/ FetchSva(s)
    BY <1>2, <1>4, <1>5, <1>6, <1>7, <1>8, <1>9 DEF Authenticate
  <1>11. s = r
    <2>1. CASE GetHit(s) \/ Fill(s)
      BY <2>1 DEF GetHit, Fill, Judge, TypeOK, Accepts
    <2>2. CASE FetchSva(s)
      BY <2>2, <1>3 DEF FetchSva, Judge, TypeOK, Accepts, ReqAt
    <2> QED
      BY <1>10, <2>1, <2>2
  <1> QED
    BY <1>10, <1>11

\* A revoked session is accepted for less than DELAY + TTL.
THEOREM RevocationsTakeHold == Spec => RevocationTakesHold
  <1>1. ASSUME Inv, Next, NEW r \in Req, Accepts(r), ~user.there \/ Revoked(req[r].session, user.cutoff)
        PROVE now < changed + DELAY + TTL
    <2>0. TypeOK
      BY <1>1 DEF Inv
    <2>1. CASE GetHit(r)
      <3>1. Hit /\ ~Revoked(req[r].session, cache.cutoff)
        BY <1>1, <2>0, <2>1 DEF GetHit, Judge, ReqIdle, TypeOK, Accepts
      <3> QED
        BY <1>1, <2>0, <3>1, Numbers DEF Inv, Timely, Revoked
    <2>2. CASE Fill(r)
      <3>1. ~Revoked(req[r].session, req[r].saw)
        BY <1>1, <2>0, <2>2 DEF Fill, Judge, ReqIdle, TypeOK, Accepts
      <3> QED
        BY <1>1, <2>0, <2>2, <3>1, Numbers DEF Inv, Timely, Revoked, Fill
    <2>3. CASE FetchSva(r)
      BY <1>1, <2>0, <2>3 DEF FetchSva, ReqTo, Judge, ReqIdle, TypeOK, Request, Accepts
    <2> QED
      BY <1>1, <2>0, <2>1, <2>2, <2>3, Judged
  <1>2. ASSUME UNCHANGED vars, NEW r \in Req PROVE ~Accepts(r)
    BY <1>2 DEF vars, Accepts
  <1>3. Inv /\ [Next]_vars
        => \A r \in Req : Accepts(r) /\ (~user.there \/ Revoked(req[r].session, user.cutoff))
                          => now < changed + DELAY + TTL
    BY <1>1, <1>2
  <1> QED
    BY <1>3, InvHolds, PTL DEF Spec, RevocationTakesHold

\* A refused session is older than a cutoff that was committed, or has no row.
THEOREM RefusalsHaveCause == Spec => RefusedForCause
  <1>1. ASSUME Inv, Next, NEW r \in Req, Refuses(r)
        PROVE ~user.there \/ req[r].session < peak
    <2>0. TypeOK
      BY <1>1 DEF Inv
    <2>1. req' # req
      BY <1>1 DEF Refuses
    <2>2. PICK s \in Req : Authenticate(s)
      BY <1>1, <2>1 DEF Next, Publish, TakeCutoff, Commit, CommitFails, PublishSva, SetFails, DropCached,
           PublishLost, Sweep, PurgeRevocationCache, PurgeLost, Tick
    <2>3. ASSUME NEW place \in ReqAt \ {"refused"}, ReqTo(s, place) PROVE FALSE
      BY <1>1, <2>0, <2>3 DEF Refuses, ReqTo, TypeOK, Request
    <2>4. ASSUME NEW cutoff \in Nat, Judge(s, cutoff), cutoff <= peak PROVE req[r].session < peak
      <3>1. req[r].session < cutoff
        BY <1>1, <2>0, <2>4 DEF Refuses, Judge, ReqIdle, TypeOK, Revoked
      <3> QED
        BY <2>0, <2>4, <3>1, Numbers
    <2>5. ~\E session \in LoggedIn : Begin(s, session)
      BY <1>1, <2>0 DEF Refuses, Begin, TypeOK, Request
    <2>6. ~GetMiss(s)
      BY <2>3 DEF GetMiss, ReqAt
    <2>7. ~End(s)
      BY <1>1, <2>0 DEF Refuses, End, ReqIdle, TypeOK, Request
    <2>8. ~IncrTurns(s)
      BY <1>1, <2>0 DEF Refuses, IncrTurns, AfterIncr, TypeOK, Request
    <2>9. ~TtlTurns(s) /\ ~ExpireTurns(s)
      BY <2>3 DEF TtlTurns, ExpireTurns, Verdict, ReqAt
    <2>10. ~HitFailsOpen(s) /\ ~PersistTurn(s)
      BY <2>3 DEF HitFailsOpen, PersistTurn, ReqAt
    <2>11. CASE GetHit(s)
      BY <1>1, <2>0, <2>4, <2>11, Numbers DEF GetHit, Inv, Justified
    <2>12. CASE Fill(s)
      BY <1>1, <2>0, <2>4, <2>12, Numbers DEF Fill, Inv, Justified
    <2>13. CASE FetchSva(s)
      <3>1. CASE user.there /\ Judge(s, user.cutoff)
        BY <1>1, <2>0, <2>4, <3>1, Numbers DEF Inv, Justified
      <3>2. CASE req' = [req EXCEPT ![s].at = "fill", ![s].saw = user.cutoff, ![s].since = now]
        BY <1>1, <2>0, <3>2 DEF Refuses, TypeOK, Request
      <3> QED
        BY <2>13, <3>1, <3>2 DEF FetchSva
    <2> QED
      BY <2>2, <2>5, <2>6, <2>7, <2>8, <2>9, <2>10, <2>11, <2>12, <2>13 DEF Authenticate
  <1>2. ASSUME UNCHANGED vars, NEW r \in Req PROVE ~Refuses(r)
    BY <1>2 DEF vars, Refuses
  <1>3. Inv /\ [Next]_vars
        => \A r \in Req : Refuses(r) => ~user.there \/ req[r].session < peak
    BY <1>1, <1>2
  <1> QED
    BY <1>3, InvHolds, PTL DEF Spec, RefusedForCause

\* A refused hit leaves a counter that ends.
THEOREM RefusalsExpire == Spec => RefusalExpires
  <1>1. ASSUME TypeOK, Next, NEW r \in Req, req[r].at # "limited", req'[r].at = "limited"
        PROVE ~LacksTtl(turns')
    <2>1. PICK s \in Req : Authenticate(s)
      BY <1>1 DEF Next, Publish, TakeCutoff, Commit, CommitFails, PublishSva, SetFails, DropCached,
           PublishLost, Sweep, PurgeRevocationCache, PurgeLost, Tick
    <2>2. ASSUME NEW place \in ReqAt \ {"limited"}, ReqTo(s, place) PROVE FALSE
      BY <1>1, <2>2 DEF ReqTo, TypeOK, Request
    <2>3. ASSUME NEW cutoff, Judge(s, cutoff) PROVE FALSE
      BY <1>1, <2>3 DEF Judge, ReqIdle, TypeOK, Request
    <2>4. ~(\E session \in LoggedIn : Begin(s, session)) /\ ~End(s) /\ ~IncrTurns(s)
      BY <1>1 DEF Begin, End, ReqIdle, IncrTurns, AfterIncr, TypeOK, Request
    <2>5. ~GetHit(s) /\ ~GetMiss(s) /\ ~Fill(s)
      BY <2>2, <2>3 DEF GetHit, GetMiss, Fill, ReqAt
    <2>6. ~FetchSva(s)
      <3>1. ~(req' = [req EXCEPT ![s].at = "fill", ![s].saw = user.cutoff, ![s].since = now])
        BY <1>1 DEF TypeOK, Request
      <3> QED
        BY <2>2, <2>3, <3>1 DEF FetchSva, ReqAt
    <2>7. ~HitFailsOpen(s) /\ ~PersistTurn(s)
      BY <2>2 DEF HitFailsOpen, PersistTurn, ReqAt
    <2>8. CASE TtlTurns(s)
      BY <2>2, <2>8 DEF TtlTurns, ReqAt
    <2>9. CASE ExpireTurns(s)
      BY <1>1, <2>9, TimesAssumption DEF ExpireTurns, Expire, LacksTtl, TurnWindow, TypeOK, Counter, Never, NoKey
    <2> QED
      BY <2>1, <2>4, <2>5, <2>6, <2>7, <2>8, <2>9 DEF Authenticate
  <1>2. ASSUME UNCHANGED vars, NEW r \in Req PROVE ~(req[r].at # "limited" /\ req'[r].at = "limited")
    BY <1>2 DEF vars
  <1>3. TypeOK /\ [Next]_vars
        => \A r \in Req : req[r].at # "limited" /\ req'[r].at = "limited" => ~LacksTtl(turns')
    BY <1>1, <1>2
  <1> QED
    BY <1>3, TypeCorrect, PTL DEF Spec, RefusalExpires

----------------------------------------------------------------------------
\* A visitor's turns are capped.

\* When the sweep runs next, if it is not late. A visitor's row does not outlive
\* the first run past its retention.
NextRun ==
    IF sweep.due THEN now ELSE IF sweep.wait = 0 THEN now + DAY ELSE now + sweep.wait
RowIsSwept ==
    /\ sweep.due => sweep.wait = 0
    /\ Visitor /\ user.there => NextRun <= RETENTION + DAY

\* The counter ends, if it does, after the row. A key whose EXPIRE was lost does
\* not end by itself.
CounterOutlives == turns.until # Never => TurnWindow <= turns.until

\* The requests that may still store a turn which their own INCR has paid for.
Counted ==
    {r \in Req : \/ req[r].at = "persist"
                 \/ req[r].at \in {"expire", "ttl"} /\ Allowed(req[r].saw)}
Coming(r) == IF r \in Counted THEN 1 ELSE 0
Spent == IF Allowed(turns.n) THEN turns.n ELSE DEMO_TURN_LIMIT

\* While the row is there every stored or coming turn was paid for, and once it
\* is gone nothing is stored. A member is never asked to pay.
Paid ==
    /\ IsFiniteSet(Counted)
    /\ TurnsAreCapped
    /\ Visitor /\ user.there => stored + Cardinality(Counted) <= Spent + failedOpen
    /\ ~Visitor => stored = 0 /\ \A r \in Req : req[r].at \notin {"expire", "ttl", "persist"}

Capped == RowIsSwept /\ CounterOutlives /\ Paid

LEMMA CappedInit == Init => Capped
  <1> SUFFICES ASSUME Init PROVE Capped
    OBVIOUS
  <1>1. Counted = {}
    BY DEF Init, Counted, ReqIdle
  <1>2. Cardinality(Counted) = 0 /\ IsFiniteSet(Counted)
    BY <1>1, FS_EmptySet
  <1>3. Paid
    BY <1>2, BoundsAssumption DEF Init, Paid, TurnsAreCapped, Spent, Allowed, NoKey, ReqIdle
  <1>4. RowIsSwept
    BY TimesAssumption DEF Init, RowIsSwept, NextRun
  <1>5. CounterOutlives
    BY DEF Init, CounterOutlives, NoKey
  <1> QED
    BY <1>3, <1>4, <1>5 DEF Capped

\* What was paid for is within the limit.
LEMMA WithinLimit ==
  ASSUME NEW stores \in Nat, NEW coming \in Nat, NEW spent \in Nat, NEW failed \in Nat,
         NEW limit \in Nat, stores + coming <= spent + failed, spent <= limit
  PROVE stores <= limit + failed
  OBVIOUS

LEMMA StaysWithinLimit ==
  ASSUME NEW before \in Nat, NEW after \in Nat, NEW failed \in Nat, NEW later \in Nat,
         NEW limit \in Nat, after <= before, before <= limit + failed, failed <= later
  PROVE after <= limit + later
  OBVIOUS

\* One request moves: what it stores or may store is paid for.
LEMMA PaidStep ==
  ASSUME TypeOK, TypeOK', Paid, NEW r \in Req,
         \A s \in Req \ {r} : req'[s] = req[s],
         UNCHANGED user, Visitor,
         failedOpen <= failedOpen',
         ~user.there => stored' <= stored,
         user.there => stored' + Coming(r)' + Spent + failedOpen
                       <= stored + Coming(r) + Spent' + failedOpen'
  PROVE Paid'
  <1>1. Counted' = IF r \in Counted' THEN (Counted \ {r}) \cup {r} ELSE Counted \ {r}
    BY DEF Counted, Allowed
  <1>2. IsFiniteSet(Counted \ {r}) /\ Cardinality(Counted) \in Nat
        /\ Cardinality(Counted \ {r}) = Cardinality(Counted) - (IF r \in Counted THEN 1 ELSE 0)
        /\ Cardinality(Counted \ {r}) \in Nat
    BY FS_RemoveElement, FS_CardinalityType DEF Paid
  <1>3. IsFiniteSet((Counted \ {r}) \cup {r})
        /\ Cardinality((Counted \ {r}) \cup {r}) = Cardinality(Counted \ {r}) + 1
    BY <1>2, FS_AddElement
  <1>4. IsFiniteSet(Counted')
    BY <1>1, <1>2, <1>3
  <1>5. Cardinality(Counted') = Cardinality(Counted) - Coming(r) + Coming(r)'
    <2>1. CASE r \in Counted'
      <3>1. Cardinality(Counted') = Cardinality(Counted \ {r}) + 1
        BY <1>1, <1>3, <2>1
      <3> QED
        BY <1>2, <2>1, <3>1 DEF Coming
    <2>2. CASE r \notin Counted'
      <3>1. Cardinality(Counted') = Cardinality(Counted \ {r})
        BY <1>1, <2>2
      <3> QED
        BY <1>2, <2>2, <3>1 DEF Coming
    <2> QED
      BY <2>1, <2>2
  <1>6. /\ stored \in Nat /\ stored' \in Nat /\ failedOpen \in Nat /\ failedOpen' \in Nat
        /\ Spent \in Nat /\ Spent' \in Nat /\ Spent' <= DEMO_TURN_LIMIT
        /\ DEMO_TURN_LIMIT \in Nat /\ Coming(r) \in Nat /\ Coming(r)' \in Nat
    BY BoundsAssumption DEF TypeOK, Counter, Spent, Allowed, Coming
  <1>7. user.there => stored' + Cardinality(Counted') <= Spent' + failedOpen'
    BY <1>2, <1>5, <1>6 DEF Paid
  <1>8. Cardinality(Counted') \in Nat
    BY <1>4, FS_CardinalityType
  <1>9. stored' <= DEMO_TURN_LIMIT + failedOpen'
    <2>1. CASE user.there
      <3>1. stored' + Cardinality(Counted') <= Spent' + failedOpen'
        BY <1>7, <2>1
      <3> QED
        BY <1>6, <1>8, <3>1, WithinLimit, Zenon
    <2>2. CASE ~user.there
      <3>1. stored' <= stored /\ stored <= DEMO_TURN_LIMIT + failedOpen /\ failedOpen <= failedOpen'
        BY <2>2 DEF Paid, TurnsAreCapped
      <3> QED
        BY <1>6, <3>1, StaysWithinLimit, Zenon
    <2> QED
      BY <2>1, <2>2
  <1> QED
    BY <1>4, <1>7, <1>9 DEF Paid, TurnsAreCapped, Visitor

\* A step that leaves the visitor's turns alone.
LEMMA PaidFrame ==
  ASSUME Paid, UNCHANGED <<turns, stored, failedOpen, req>>,
         user'.email = user.email, user'.there => user.there
  PROVE Paid'
  <1>1. Counted' = Counted
    BY DEF Counted, Allowed
  <1> QED
    BY <1>1 DEF Paid, TurnsAreCapped, Visitor, Spent, Allowed

LEMMA PaidMember ==
  ASSUME Paid, ~Visitor, UNCHANGED <<user, stored, failedOpen>>,
         \A r \in Req : req'[r].at \notin {"expire", "ttl", "persist"}
  PROVE Paid'
  <1>1. Counted' = {}
    BY DEF Counted
  <1>2. IsFiniteSet(Counted')
    BY <1>1, FS_EmptySet
  <1> QED
    BY <1>2 DEF Paid, TurnsAreCapped, Visitor

\* A request on its way through `hit`, by where it is and where it goes.
LEMMA PaidAuthenticate ==
  ASSUME TypeOK, TypeOK', Paid, NEW r \in Req, Authenticate(r)
  PROVE Paid'
  <1>0. /\ UNCHANGED user
        /\ \A s \in Req \ {r} : req'[s] = req[s]
        /\ stored \in Nat /\ failedOpen \in Nat /\ turns.n \in Nat /\ DEMO_TURN_LIMIT \in Nat
        /\ req[r] \in Request
    <2>1. UNCHANGED user /\ \A s \in Req \ {r} : req'[s] = req[s]
      BY DEF Authenticate, Begin, GetHit, GetMiss, FetchSva, Fill, End, IncrTurns, TtlTurns,
             ExpireTurns, HitFailsOpen, PersistTurn, Judge, ReqTo, Verdict, TypeOK
    <2> QED
      BY <2>1, BoundsAssumption DEF TypeOK, Counter
  <1>1. ASSUME req'[r].at \notin {"expire", "ttl", "persist"}, UNCHANGED <<turns, stored, failedOpen>>
        PROVE Paid'
    <2>1. r \notin Counted'
      BY <1>1 DEF Counted
    <2>2. Spent' = Spent /\ Spent \in Nat
      BY <1>0, <1>1 DEF Spent, Allowed
    <2>3. CASE Visitor
      BY <1>0, <1>1, <2>1, <2>2, <2>3, PaidStep DEF Coming
    <2>4. CASE ~Visitor
      BY <1>0, <1>1, <2>4, PaidMember DEF Paid
    <2> QED
      BY <2>3, <2>4
  <1>2. ASSUME NEW session \in LoggedIn, Begin(r, session) PROVE Paid'
    BY <1>1, <1>2 DEF Begin, TypeOK
  <1>3. CASE GetHit(r) \/ GetMiss(r) \/ FetchSva(r) \/ Fill(r) \/ End(r)
    <2>1. req'[r].at \notin {"expire", "ttl", "persist"}
      BY <1>0, <1>3 DEF GetHit, GetMiss, FetchSva, Fill, End, Judge, ReqTo, ReqIdle, TypeOK, Request
    <2> QED
      BY <1>1, <1>3, <2>1 DEF GetHit, GetMiss, FetchSva, Fill, End
  <1>4. CASE IncrTurns(r)
    <2>1. /\ Visitor /\ UNCHANGED <<stored, failedOpen>> /\ turns'.n = turns.n + 1
          /\ req'[r].at \in {"expire", "ttl"} /\ req'[r].saw = turns.n + 1
          /\ req[r].at = "accepted"
      BY <1>0, <1>4 DEF IncrTurns, Incr, AfterIncr, TypeOK, Counter, Request
    <2>2. r \notin Counted /\ (r \in Counted' <=> Allowed(turns.n + 1))
      BY <2>1 DEF Counted, Allowed
    <2>3. Spent \in Nat /\ Spent' = Spent + (IF Allowed(turns.n + 1) THEN 1 ELSE 0)
      BY <1>0, <2>1 DEF Spent, Allowed
    <2> QED
      BY <1>0, <2>1, <2>2, <2>3, PaidStep DEF Coming
  <1>5. ASSUME Verdict(r), req[r].at \in {"expire", "ttl"}, turns'.n = turns.n,
               UNCHANGED <<stored, failedOpen>>
        PROVE Paid'
    <2>1. r \in Counted' => r \in Counted
      BY <1>0, <1>5 DEF Verdict, ReqTo, Counted, TypeOK, Request
    <2>2. Spent' = Spent /\ Spent \in Nat
      BY <1>0, <1>5 DEF Spent, Allowed
    <2>3. Visitor
      BY <1>5 DEF Paid
    <2> QED
      BY <1>0, <1>5, <2>1, <2>2, <2>3, PaidStep DEF Coming
  <1>6. CASE TtlTurns(r)
    <2>1. CASE ReqTo(r, "expire")
      <3>1. /\ req[r].at = "ttl" /\ req'[r].at = "expire" /\ req'[r].saw = req[r].saw
            /\ UNCHANGED <<turns, stored, failedOpen>>
        BY <1>0, <1>6, <2>1 DEF TtlTurns, ReqTo, TypeOK, Request
      <3>2. r \in Counted' <=> r \in Counted
        BY <3>1 DEF Counted, Allowed
      <3>3. Spent' = Spent /\ Spent \in Nat
        BY <1>0, <3>1 DEF Spent, Allowed
      <3>4. Visitor
        BY <3>1 DEF Paid
      <3> QED
        BY <1>0, <3>1, <3>2, <3>3, <3>4, PaidStep DEF Coming
    <2>2. CASE Verdict(r)
      BY <1>5, <1>6, <2>2 DEF TtlTurns
    <2> QED
      BY <1>6, <2>1, <2>2 DEF TtlTurns
  <1>7. CASE ExpireTurns(r)
    <2>1. turns'.n = turns.n
      BY <1>7 DEF ExpireTurns, Expire, TypeOK, Counter
    <2> QED
      BY <1>5, <1>7, <2>1 DEF ExpireTurns
  <1>8. CASE HitFailsOpen(r)
    <2>1. Visitor /\ UNCHANGED <<turns, stored>> /\ failedOpen' = failedOpen + 1
      BY <1>8 DEF HitFailsOpen
    <2>2. Spent' = Spent /\ Spent \in Nat
      BY <1>0, <2>1 DEF Spent, Allowed
    <2> QED
      BY <1>0, <2>1, <2>2, PaidStep DEF Coming
  <1>9. CASE PersistTurn(r)
    <2>1. /\ req[r].at = "persist" /\ req'[r].at = "done" /\ UNCHANGED <<turns, failedOpen>>
          /\ stored' = IF user.there THEN stored + 1 ELSE stored
      BY <1>0, <1>9 DEF PersistTurn, ReqTo, TypeOK, Request
    <2>2. r \in Counted /\ r \notin Counted'
      BY <2>1 DEF Counted
    <2>3. Spent' = Spent /\ Spent \in Nat
      BY <1>0, <2>1 DEF Spent, Allowed
    <2>4. Visitor
      BY <2>1 DEF Paid
    <2> QED
      BY <1>0, <2>1, <2>2, <2>3, <2>4, PaidStep DEF Coming
  <1> QED
    BY <1>2, <1>3, <1>4, <1>6, <1>7, <1>8, <1>9 DEF Authenticate

\* The steps of the sweep and of the clock keep the row's end before the counter's.
LEMMA CappedSweep ==
  ASSUME TypeOK, Capped, Sweep
  PROVE Capped'
  <1>0. now \in Nat /\ RETENTION \in Nat /\ DAY \in Nat
    BY TimesAssumption DEF TypeOK
  <1>1. /\ sweep.due /\ sweep.wait = 0 /\ ~sweep'.due /\ sweep'.wait = 0
        /\ user'.email = user.email
        /\ user'.there <=> user.there /\ ~(Visitor /\ user.there /\ Stale)
        /\ UNCHANGED <<now, turns, stored, failedOpen, req>>
    BY DEF Sweep, TypeOK, Row, SweepState, Capped, RowIsSwept
  <1>2. RowIsSwept'
    BY <1>0, <1>1 DEF RowIsSwept, NextRun, Visitor, Stale
  <1>3. Paid'
    BY <1>1, PaidFrame DEF Capped
  <1> QED
    BY <1>1, <1>2, <1>3 DEF Capped, CounterOutlives

LEMMA CappedTick ==
  ASSUME TypeOK, TypeOK', Capped, Tick
  PROVE Capped'
  <1>0. now \in Nat /\ RETENTION \in Nat /\ DAY \in Nat /\ sweep.wait \in 0 .. DAY - 1
        /\ turns.until \in Nat
    BY TimesAssumption DEF TypeOK, SweepState, Counter
  <1>1. /\ UNCHANGED <<user, req, stored, failedOpen>> /\ now' = now + 1 /\ ~sweep.due
        /\ turns' = Aged(turns, now + 1)
    BY DEF Tick
  <1>2. RowIsSwept'
    <2>1. CASE Visitor
      <3>1. sweep'.wait = NextWait /\ (sweep'.due <=> NextWait = 0)
        BY <2>1 DEF Tick, NextSweep, TypeOK, SweepState
      <3>2. user.there => NextRun <= RETENTION + DAY
        BY <2>1 DEF Capped, RowIsSwept
      <3>3. CASE sweep.wait = 0
        <4>1. NextRun = now + DAY
          BY <1>1, <3>3 DEF NextRun
        <4>2. NextRun' = now + DAY
          BY <1>0, <1>1, <3>1, <3>3 DEF NextRun, NextWait
        <4> QED
          BY <1>1, <3>1, <3>2, <4>1, <4>2 DEF RowIsSwept
      <3>4. CASE sweep.wait # 0
        <4>1. NextRun = now + sweep.wait
          BY <1>1, <3>4 DEF NextRun
        <4>2. NextRun' = now + sweep.wait
          BY <1>0, <1>1, <3>1, <3>4 DEF NextRun, NextWait
        <4> QED
          BY <1>1, <3>1, <3>2, <4>1, <4>2 DEF RowIsSwept
      <3> QED
        BY <3>3, <3>4
    <2>2. CASE ~Visitor
      BY <1>1, <2>2 DEF Tick, NextSweep, Capped, RowIsSwept, Visitor
    <2> QED
      BY <2>1, <2>2
  <1>3. CounterOutlives'
    BY <1>1 DEF Capped, CounterOutlives, Aged, NoKey, TurnWindow
  <1>4. CASE Visitor /\ user.there
    <2>1. now + 1 <= RETENTION + DAY
      <3>1. NextRun' <= RETENTION + DAY
        BY <1>1, <1>2, <1>4 DEF RowIsSwept, Visitor
      <3>2. NextRun' \in Nat /\ now' <= NextRun'
        <4>1. now' \in Nat /\ sweep'.wait \in Nat
          BY <1>0 DEF TypeOK, SweepState
        <4>2. now' + DAY \in Nat /\ now' <= now' + DAY
          BY <1>0, <1>1
        <4>3. now' + sweep'.wait \in Nat /\ now' <= now' + sweep'.wait
          BY <4>1
        <4>4. NextRun' \in {now', now' + DAY, now' + sweep'.wait} /\ now' <= now'
          BY <4>1 DEF NextRun
        <4> QED
          BY <4>1, <4>2, <4>3, <4>4
      <3> QED
        BY <1>0, <1>1, <3>1, <3>2
    <2>2. turns' = turns
      BY <1>0, <1>1, <2>1, TimesAssumption DEF Aged, Capped, CounterOutlives, TurnWindow
    <2> QED
      BY <1>1, <1>2, <1>3, <2>2, PaidFrame DEF Capped
  <1>5. CASE ~(Visitor /\ user.there)
    <2>1. Counted' = Counted
      BY <1>1 DEF Counted, Allowed
    <2>2. Paid'
      BY <1>1, <1>5, <2>1 DEF Capped, Paid, TurnsAreCapped, Visitor
    <2> QED
      BY <1>2, <1>3, <2>2 DEF Capped
  <1> QED
    BY <1>4, <1>5

LEMMA CappedStep == TypeOK /\ Capped /\ [Next]_vars => Capped'
  <1> SUFFICES ASSUME TypeOK, Capped, [Next]_vars PROVE Capped'
    OBVIOUS
  <1>0. TypeOK'
    BY TypeStep
  <1>1. ASSUME UNCHANGED <<now, sweep, turns, stored, failedOpen, req>>,
               user'.email = user.email, user'.there = user.there
        PROVE Capped'
    BY <1>1, PaidFrame DEF Capped, RowIsSwept, NextRun, CounterOutlives, Visitor
  <1>2. ASSUME NEW p \in Pub, Publish(p) PROVE Capped'
    <2>1. UNCHANGED <<now, sweep, turns, stored, failedOpen, req>>
      BY <1>2 DEF Publish, TakeCutoff, Commit, CommitFails, PublishSva, SetFails, DropCached, PublishLost
    <2>2. user'.email = user.email /\ user'.there = user.there
      BY <1>2 DEF Publish, TakeCutoff, Commit, CommitFails, PublishSva, SetFails, DropCached,
                  PublishLost, WriteCutoff, TypeOK, Row
    <2> QED
      BY <1>1, <2>1, <2>2
  <1>3. ASSUME NEW r \in Req, Authenticate(r) PROVE Capped'
    <2>1. UNCHANGED <<now, sweep, user>>
      BY <1>3 DEF Authenticate, Begin, GetHit, GetMiss, FetchSva, Fill, End, IncrTurns, TtlTurns,
                  ExpireTurns, HitFailsOpen, PersistTurn
    <2>2. CounterOutlives'
      <3>1. CASE ExpireTurns(r)
        <4>1. now \in Nat /\ TurnWindow \in Nat
          BY TimesAssumption DEF TypeOK, TurnWindow
        <4>2. turns' = Expire(turns, now + TurnWindow)
          BY <3>1 DEF ExpireTurns
        <4>3. turns'.until \in {turns.until, now + TurnWindow}
          BY <4>2 DEF Expire, TypeOK, Counter
        <4> QED
          BY <4>1, <4>3 DEF Capped, CounterOutlives, TurnWindow
      <3>2. CASE ~ExpireTurns(r)
        <4>1. turns'.until = turns.until
          BY <1>3, <3>2 DEF Authenticate, Begin, GetHit, GetMiss, FetchSva, Fill, End, IncrTurns,
                  TtlTurns, HitFailsOpen, PersistTurn, Incr, TypeOK, Counter
        <4> QED
          BY <4>1 DEF Capped, CounterOutlives, TurnWindow
      <3> QED
        BY <3>1, <3>2
    <2> QED
      BY <1>0, <1>3, <2>1, <2>2, PaidAuthenticate DEF Capped, RowIsSwept, NextRun, Visitor
  <1>4. CASE PurgeRevocationCache \/ PurgeLost
    <2>1. UNCHANGED <<now, user, turns, stored, failedOpen, req>>
          /\ sweep'.due = sweep.due /\ sweep'.wait = sweep.wait
      BY <1>4 DEF PurgeRevocationCache, PurgeLost, TypeOK, SweepState
    <2> QED
      BY <2>1, PaidFrame DEF Capped, RowIsSwept, NextRun, CounterOutlives, Visitor
  <1>5. CASE UNCHANGED vars
    BY <1>1, <1>5 DEF vars
  <1> QED
    BY <1>0, <1>2, <1>3, <1>4, <1>5, CappedSweep, CappedTick DEF Next

\* A visitor stores at most DEMO_TURN_LIMIT turns in its whole life, save for hits
\* that Redis failed to count.
THEOREM VisitorsAreCapped == Spec => []TurnsAreCapped
  <1>1. Init => TypeOK /\ Capped
    BY TypeInit, CappedInit
  <1>2. TypeOK /\ Capped /\ [Next]_vars => (TypeOK /\ Capped)'
    BY TypeStep, CappedStep
  <1>3. TypeOK /\ Capped => TurnsAreCapped
    BY DEF Capped, Paid
  <1> QED
    BY <1>1, <1>2, <1>3, PTL DEF Spec
=============================================================================
