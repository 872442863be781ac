-------------------------- MODULE ChatClientProofs --------------------------
(* Theorems about ChatClient, for every bound on the turns and any faults. *)
EXTENDS ChatClient, SequenceTheorems, WellFoundedInduction, TLAPS

\* Threads: what is appended, cut, taken out or put in.

LEMMA AppendedThread ==
  ASSUME NEW S, NEW s \in Seq(S), NEW m \in S
  PROVE  /\ Append(s, m) \in Seq(S) /\ Append(s, m) # <<>>
         /\ Last(Append(s, m)) = m
         /\ ToSet(Append(s, m)) = ToSet(s) \cup {m}
         /\ DOMAIN s \subseteq DOMAIN Append(s, m)
         /\ \A i \in DOMAIN s : Append(s, m)[i] = s[i]
         /\ \A i \in DOMAIN Append(s, m) : i \notin DOMAIN s => i = Len(s) + 1 /\ Append(s, m)[i] = m
  <1> DEFINE a == Append(s, m)
  <1>1. Len(s) \in Nat /\ DOMAIN s = 1 .. Len(s)
    BY LenProperties
  <1>2. /\ a \in Seq(S) /\ a # <<>> /\ Len(a) = Len(s) + 1
        /\ \A i \in 1 .. Len(s) : a[i] = s[i]
        /\ a[Len(s) + 1] = m
    BY AppendProperties
  <1>3. DOMAIN a = 1 .. Len(s) + 1
    BY <1>2, LenProperties
  <1> HIDE DEF a
  <1>4. \A i \in 1 .. Len(s) + 1 : i \in 1 .. Len(s) \/ i = Len(s) + 1
    BY <1>1
  <1>5. 1 .. Len(s) \subseteq 1 .. Len(s) + 1 /\ Len(s) + 1 \in 1 .. Len(s) + 1
    BY <1>1
  <1>6. ToSet(a) = ToSet(s) \cup {m}
    BY <1>1, <1>2, <1>3, <1>4, <1>5 DEF ToSet
  <1> QED
    BY <1>1, <1>2, <1>3, <1>4, <1>5, <1>6 DEF Last, a

LEMMA Places ==
  ASSUME NEW n \in Nat \ {0}
  PROVE  /\ (IF 1 <= n - 1 THEN (n - 1) - 1 + 1 ELSE 0) = n - 1
         /\ (n - 1) - 1 + 1 = n - 1
         /\ \A i \in 1 .. n - 1 : 1 + i - 1 = i /\ i \in 1 .. n /\ i # n
         /\ \A i \in 1 .. n : i = n \/ i \in 1 .. n - 1
         /\ n \in 1 .. n
  OBVIOUS

LEMMA CutThread ==
  ASSUME NEW S, NEW s \in Seq(S), s # <<>>
  PROVE  /\ Front(s) \in Seq(S) /\ Len(Front(s)) = Len(s) - 1
         /\ Len(s) \in DOMAIN s /\ Last(s) \in S
         /\ \A i \in DOMAIN Front(s) : i \in DOMAIN s /\ Front(s)[i] = s[i] /\ i # Len(s)
         /\ \A i \in DOMAIN s : i = Len(s) \/ i \in DOMAIN Front(s)
         /\ ToSet(Front(s)) \subseteq ToSet(s)
  <1> DEFINE f == SubSeq(s, 1, Len(s) - 1)
  <1>1. Len(s) \in Nat \ {0} /\ DOMAIN s = 1 .. Len(s)
    BY LenProperties, EmptySeq
  <1>2. \A i \in 1 .. Len(s) : s[i] \in S
    BY ElementOfSeq
  <1>3. \A i \in 1 .. Len(s) - 1 : s[i] \in S
    BY <1>1, <1>2
  <1>4. /\ f \in Seq(S)
        /\ Len(f) = IF 1 <= Len(s) - 1 THEN (Len(s) - 1) - 1 + 1 ELSE 0
        /\ \A i \in 1 .. (Len(s) - 1) - 1 + 1 : f[i] = s[1 + i - 1]
    BY <1>1, <1>3, SubSeqProperties
  <1>5. DOMAIN f = 1 .. Len(f)
    BY <1>4, LenProperties
  <1> HIDE DEF f
  <1>0. /\ (IF 1 <= Len(s) - 1 THEN (Len(s) - 1) - 1 + 1 ELSE 0) = Len(s) - 1
        /\ (Len(s) - 1) - 1 + 1 = Len(s) - 1
        /\ \A i \in 1 .. Len(s) - 1 : 1 + i - 1 = i /\ i \in 1 .. Len(s) /\ i # Len(s)
        /\ \A i \in 1 .. Len(s) : i = Len(s) \/ i \in 1 .. Len(s) - 1
        /\ Len(s) \in 1 .. Len(s)
    BY <1>1, Places, Zenon
  <1>6. Len(f) = Len(s) - 1
    BY <1>0, <1>4, Zenon
  <1>7. \A i \in 1 .. Len(s) - 1 : f[i] = s[i] /\ i \in 1 .. Len(s) /\ i # Len(s)
    BY <1>0, <1>4, Zenon
  <1>8. \A i \in 1 .. Len(s) : i = Len(s) \/ i \in 1 .. Len(s) - 1
    BY <1>0
  <1>9. ToSet(f) \subseteq ToSet(s)
    BY <1>1, <1>5, <1>6, <1>7 DEF ToSet
  <1>10. Len(s) \in 1 .. Len(s)
    BY <1>0
  <1> QED
    BY <1>1, <1>2, <1>4, <1>5, <1>6, <1>7, <1>8, <1>9, <1>10 DEF Front, Last, f

LEMMA SliceOf ==
  ASSUME NEW S, NEW s \in Seq(S), NEW m \in Int, NEW n \in Int, 1 <= m, n <= Len(s)
  PROVE  SubSeq(s, m, n) \in Seq(S) /\ ToSet(SubSeq(s, m, n)) \subseteq ToSet(s)
  <1> DEFINE f == SubSeq(s, m, n)
  <1>1. Len(s) \in Nat /\ DOMAIN s = 1 .. Len(s) /\ \A i \in 1 .. Len(s) : s[i] \in S
    BY LenProperties, ElementOfSeq
  <1>2. \A i \in m .. n : s[i] \in S
    BY <1>1
  <1>3. /\ f \in Seq(S)
        /\ Len(f) = IF m <= n THEN n - m + 1 ELSE 0
        /\ \A i \in 1 .. n - m + 1 : f[i] = s[m + i - 1]
    BY <1>2, SubSeqProperties
  <1>4. DOMAIN f = 1 .. Len(f)
    BY <1>3, LenProperties
  <1> HIDE DEF f
  <1>5. \A i \in 1 .. Len(f) : i \in 1 .. n - m + 1 /\ m + i - 1 \in 1 .. Len(s)
    <2>1. CASE m <= n
      BY <1>1, <1>3, <2>1
    <2>2. CASE ~(m <= n)
      BY <1>1, <1>3, <2>2
    <2> QED
      BY <2>1, <2>2
  <1>6. ToSet(f) \subseteq ToSet(s)
    BY <1>1, <1>3, <1>4, <1>5 DEF ToSet
  <1> QED
    BY <1>3, <1>6 DEF f

LEMMA SidePlaces ==
  ASSUME NEW n \in Nat, NEW k \in Nat
  PROVE  \A i \in 1 .. n + k :
           IF i <= n THEN i \in 1 .. n ELSE i - n \in 1 .. k
  OBVIOUS

LEMMA JoinedThread ==
  ASSUME NEW S, NEW s \in Seq(S), NEW t \in Seq(S)
  PROVE  s \o t \in Seq(S) /\ ToSet(s \o t) \subseteq ToSet(s) \cup ToSet(t)
  <1>1. /\ Len(s) \in Nat /\ DOMAIN s = 1 .. Len(s)
        /\ Len(t) \in Nat /\ DOMAIN t = 1 .. Len(t)
    BY LenProperties
  <1> DEFINE c == s \o t
  <1>2. /\ c \in Seq(S) /\ Len(c) = Len(s) + Len(t)
        /\ \A i \in 1 .. Len(s) + Len(t) : c[i] = IF i <= Len(s) THEN s[i] ELSE t[i - Len(s)]
    BY ConcatProperties
  <1>3. DOMAIN c = 1 .. Len(s) + Len(t)
    BY <1>2, LenProperties
  <1> HIDE DEF c
  <1>4. \A i \in 1 .. Len(s) + Len(t) :
          IF i <= Len(s) THEN i \in 1 .. Len(s) ELSE i - Len(s) \in 1 .. Len(t)
    BY <1>1, SidePlaces, Zenon
  <1>5. ToSet(c) \subseteq ToSet(s) \cup ToSet(t)
    BY <1>1, <1>2, <1>3, <1>4 DEF ToSet
  <1> QED
    BY <1>2, <1>5 DEF c

LEMMA OneThread ==
  ASSUME NEW S, NEW m \in S
  PROVE  <<m>> \in Seq(S) /\ ToSet(<<m>>) = {m} /\ <<m>> # <<>> /\ <<m>>[1] = m /\ Len(<<m>>) = 1
  BY DEF ToSet

LEMMA TwoThread ==
  ASSUME NEW S, NEW a \in S, NEW b \in S
  PROVE  <<a, b>> \in Seq(S) /\ Len(<<a, b>>) = 2 /\ <<a, b>>[1] = a /\ <<a, b>>[2] = b
         /\ ToSet(<<a, b>>) = {a, b} /\ DOMAIN <<a, b>> = {1, 2}
  BY DEF ToSet

LEMMA WithoutThread ==
  ASSUME NEW S, NEW s \in Seq(S), NEW m
  PROVE  Without(s, m) \in Seq(S) /\ ToSet(Without(s, m)) \subseteq ToSet(s)
  <1>1. CASE m \notin ToSet(s)
    BY <1>1 DEF Without
  <1>2. CASE m \in ToSet(s)
    <2> DEFINE i == CHOOSE i \in DOMAIN s : s[i] = m
    <2>1. Len(s) \in Nat /\ DOMAIN s = 1 .. Len(s)
      BY LenProperties
    <2>2. i \in 1 .. Len(s)
      BY <1>2, <2>1 DEF ToSet
    <2>3. Without(s, m) = SubSeq(s, 1, i - 1) \o SubSeq(s, i + 1, Len(s))
      BY <1>2 DEF Without, RemoveAt
    <2> HIDE DEF i
    <2>4. /\ SubSeq(s, 1, i - 1) \in Seq(S) /\ ToSet(SubSeq(s, 1, i - 1)) \subseteq ToSet(s)
          /\ SubSeq(s, i + 1, Len(s)) \in Seq(S) /\ ToSet(SubSeq(s, i + 1, Len(s))) \subseteq ToSet(s)
      BY <2>1, <2>2, SliceOf
    <2>5. /\ SubSeq(s, 1, i - 1) \o SubSeq(s, i + 1, Len(s)) \in Seq(S)
          /\ ToSet(SubSeq(s, 1, i - 1) \o SubSeq(s, i + 1, Len(s)))
               \subseteq ToSet(SubSeq(s, 1, i - 1)) \cup ToSet(SubSeq(s, i + 1, Len(s)))
      BY <2>4, JoinedThread
    <2> QED
      BY <2>3, <2>4, <2>5
  <1> QED
    BY <1>1, <1>2

LEMMA InsertedThread ==
  ASSUME NEW S, NEW s \in Seq(S), NEW m \in S, NEW i \in 1 .. Len(s) + 1
  PROVE  InsertAt(s, i, m) \in Seq(S) /\ ToSet(InsertAt(s, i, m)) \subseteq ToSet(s) \cup {m}
  <1>1. Len(s) \in Nat
    BY LenProperties
  <1>2. /\ SubSeq(s, 1, i - 1) \in Seq(S) /\ ToSet(SubSeq(s, 1, i - 1)) \subseteq ToSet(s)
        /\ SubSeq(s, i, Len(s)) \in Seq(S) /\ ToSet(SubSeq(s, i, Len(s))) \subseteq ToSet(s)
    BY <1>1, SliceOf
  <1>3. <<m>> \in Seq(S) /\ ToSet(<<m>>) = {m}
    BY OneThread
  <1>4. /\ SubSeq(s, 1, i - 1) \o <<m>> \in Seq(S)
        /\ ToSet(SubSeq(s, 1, i - 1) \o <<m>>)
             \subseteq ToSet(SubSeq(s, 1, i - 1)) \cup ToSet(<<m>>)
    BY <1>2, <1>3, JoinedThread
  <1>5. /\ (SubSeq(s, 1, i - 1) \o <<m>>) \o SubSeq(s, i, Len(s)) \in Seq(S)
        /\ ToSet((SubSeq(s, 1, i - 1) \o <<m>>) \o SubSeq(s, i, Len(s)))
             \subseteq ToSet(SubSeq(s, 1, i - 1) \o <<m>>) \cup ToSet(SubSeq(s, i, Len(s)))
    BY <1>2, <1>4, JoinedThread
  <1> QED
    BY <1>2, <1>3, <1>4, <1>5 DEF InsertAt

-----------------------------------------------------------------------------
\* The types, and the owner of the page's flags.

RequestType == [kind : {"send", "retry"}, turn : Turn, after : Turn, replace : BOOLEAN]
Read == [at : {"off", "asked", "half", "ready"}, replying : BOOLEAN, thread : Seq(Message)]
Page == [shown : Seq(Message), known : BOOLEAN, loading : BOOLEAN, streaming : BOOLEAN,
         still : BOOLEAN, limited : BOOLEAN, notice : BOOLEAN, sending : BOOLEAN,
         stopped : BOOLEAN,
         error : {"none", "interrupted", "refused", "load", "slow", "notSent"}]
Run == [at : {"idle", "waiting", "reading", "rereading", "refetching"},
        kind : {"send", "retry"}, turn : Turn \cup {None}, after : Turn \cup {None},
        hidden : Seq(Message), hadId : BOOLEAN]
Poll == [at : {"off", "resting", "reading"}, kind : {"settle", "outcome", "confirm"},
         misses : 0..1]

ServerTyped ==
    /\ conv \in {"none", "open", "deleted"}
    /\ thread \in Seq(Message) /\ ToSet(thread) \subseteq ever /\ ever \subseteq Message
    /\ running \in {Nobody} \cup [turn : Turn, of : Turn]
NetTyped ==
    /\ turns \in [last : Turn, others : SUBSET Turn, late : SUBSET Turn, blind : BOOLEAN]
    /\ requests \subseteq RequestType
    /\ answer \in {"none"} \cup Streaming \cup Refusals
    /\ stops \subseteq Turn /\ hits \subseteq Turn \X Turn
    /\ stop \in [turn : Turn \cup {None}, answer : {"none", "ok", "refused"}]
PageTyped ==
    /\ reads \in [{"load", "poll", "run"} -> Read]
    /\ page \in Page /\ run \in Run /\ poll \in Poll
    /\ run.turn = None <=> run.after = None
    /\ run.at # "idle" => run.turn # None
    /\ run.kind = "retry" => run.at # "idle"

\* `loading` and `sending` have one owner.
Owned ==
    /\ run.at = "idle" \/ poll.at = "off"
    /\ page.loading <=> run.at # "idle" \/ poll.at # "off"
    /\ page.still <=> poll.at # "off"
    /\ page.sending => page.loading
    /\ run.at # "idle" => page.sending
    /\ poll.at # "off" /\ ~page.sending => reads["load"].at = "off"
    /\ page.streaming => run.at = "reading"
    /\ run.at = "waiting" => run.hadId = page.known
    /\ poll.at = "reading" <=> reads["poll"].at # "off"
    /\ run.at \in {"rereading", "refetching"} <=> reads["run"].at # "off"
    /\ poll.misses > 0 => poll.at # "off"
Typed == ServerTyped /\ NetTyped /\ PageTyped /\ Owned

LEMMA TurnFacts ==
  /\ None \notin Turn /\ 1 \in Turn
  /\ \A t \in Turn : t <= MaxTurns => t + 1 \in Turn
  /\ \A t \in Turn : t \in Nat /\ t + 1 # None
  BY BoundsAssumption DEF Turn, None

LEMMA MessageFacts ==
  /\ \A t \in Turn : Question(t) \in Message
  /\ \A q, t \in Turn : Answer(q, t) \in Message
  /\ \A m \in Message : Own(m) \in Message /\ [m EXCEPT !.local = FALSE] \in Message
                         /\ m.of \in Turn /\ m.by \in Turn
  BY DEF Question, Answer, Own, Message

LEMMA ThreadFacts ==
  ASSUME ServerTyped
  PROVE  \A i \in DOMAIN thread : thread[i] \in ever /\ thread[i] \in Message
  BY DEF ServerTyped, ToSet

\* A message is stored, or the last one removed.
LEMMA StoresTyped ==
  ASSUME ServerTyped, NEW m \in Message, Stores(m)
  PROVE  thread' \in Seq(Message) /\ ToSet(thread') \subseteq ever' /\ ever' \subseteq Message
  <1>1. thread' \in Seq(Message) /\ ToSet(thread') = ToSet(thread) \cup {m}
    BY AppendedThread DEF ServerTyped, Stores
  <1> QED
    BY <1>1 DEF ServerTyped, Stores

LEMMA CutTyped ==
  ASSUME ServerTyped, UNCHANGED ever, NEW q, Answered(thread, q), thread' = Front(thread)
  PROVE  thread' \in Seq(Message) /\ ToSet(thread') \subseteq ever' /\ ever' \subseteq Message
  <1>1. thread # <<>>
    BY EmptySeq DEF ServerTyped, Answered
  <1> QED
    BY <1>1, CutThread DEF ServerTyped

LEMMA TypedRequests ==
  ASSUME Typed, NEW q \in requests, Refuse(q) \/ Accept(q) \/ LoseRequest(q)
  PROVE  Typed'
  <1>1. q \in RequestType
    BY DEF Typed, NetTyped
  <1>2. PageTyped' /\ Owned'
    BY DEF Refuse, Accept, LoseRequest, Typed, PageTyped, Owned, pageVars
  <1>3. NetTyped'
    BY DEF Refuse, Accept, LoseRequest, Typed, NetTyped, Tells, RefusalOf, Refusals, Streaming
  <1>4. CASE Refuse(q) \/ LoseRequest(q)
    <2>1. ServerTyped'
      BY <1>4 DEF Refuse, LoseRequest, Typed, ServerTyped, serverVars
    <2> QED
      BY <1>2, <1>3, <2>1 DEF Typed
  <1>5. CASE Accept(q)
    <2>1. conv' \in {"none", "open", "deleted"} /\ running' \in [turn : Turn, of : Turn]
      BY <1>1, <1>5 DEF Accept, RequestType
    <2>2. thread' \in Seq(Message) /\ ToSet(thread') \subseteq ever' /\ ever' \subseteq Message
      <3>1. CASE q.kind = "send"
        BY <1>1, <1>5, <3>1, StoresTyped, MessageFacts DEF Accept, RequestType, Typed
      <3>2. CASE q.kind # "send" /\ Answered(thread, q.after)
        BY <1>5, <3>2, CutTyped DEF Accept, Replaced, Typed
      <3>3. CASE q.kind # "send" /\ ~Answered(thread, q.after)
        BY <1>5, <3>3 DEF Accept, Typed, ServerTyped
      <3> QED
        BY <3>1, <3>2, <3>3
    <2> QED
      BY <1>2, <1>3, <2>1, <2>2 DEF Typed, ServerTyped
  <1> QED
    BY <1>4, <1>5

LEMMA TypedReplies ==
  ASSUME Typed, SaveReply \/ DropReply
  PROVE  Typed'
  <1>1. PageTyped' /\ Owned'
    BY DEF SaveReply, DropReply, Typed, PageTyped, Owned, pageVars
  <1>2. NetTyped'
    BY DEF SaveReply, DropReply, Typed, NetTyped, Streaming, Refusals
  <1>3. CASE SaveReply
    <2>1. Answer(running.of, running.turn) \in Message
      BY <1>3, MessageFacts DEF SaveReply, Typed, ServerTyped
    <2> QED
      BY <1>1, <1>2, <1>3, <2>1, StoresTyped DEF SaveReply, Typed, ServerTyped
  <1>4. CASE DropReply
    BY <1>1, <1>2, <1>4 DEF DropReply, Typed, ServerTyped
  <1> QED
    BY <1>3, <1>4

LEMMA TypedOthers ==
  ASSUME Typed, OtherSends \/ OtherRetries \/ Delete
  PROVE  Typed'
  <1>1. PageTyped' /\ Owned'
    BY DEF OtherSends, OtherRetries, Delete, Typed, PageTyped, Owned, pageVars
  <1>2. CASE OtherSends
    <2>1. NextTurn \in Turn
      BY <1>2, TurnFacts DEF OtherSends, OtherActs, Typed, NetTyped, NextTurn
    <2>2. NetTyped'
      BY <1>2, <2>1 DEF OtherSends, OtherActs, Typed, NetTyped, netVars
    <2>3. Question(NextTurn) \in Message
      BY <2>1, MessageFacts
    <2> QED
      BY <1>1, <1>2, <2>1, <2>2, <2>3, StoresTyped DEF OtherSends, Typed, ServerTyped
  <1>3. CASE OtherRetries
    <2>1. NextTurn \in Turn
      BY <1>3, TurnFacts DEF OtherRetries, OtherActs, Typed, NetTyped, NextTurn
    <2>2. NetTyped'
      BY <1>3, <2>1 DEF OtherRetries, OtherActs, Typed, NetTyped, netVars
    <2>3. PICK q \in Turn :
            /\ running' = [turn |-> NextTurn, of |-> q]
            /\ thread' = IF Answered(thread, q) THEN Front(thread) ELSE thread
      BY <1>3 DEF OtherRetries
    <2>4. thread' \in Seq(Message) /\ ToSet(thread') \subseteq ever' /\ ever' \subseteq Message
      BY <1>3, <2>3, CutTyped DEF OtherRetries, Typed, ServerTyped
    <2> QED
      BY <1>1, <1>3, <2>1, <2>2, <2>3, <2>4 DEF OtherRetries, OtherActs, Typed, ServerTyped
  <1>4. CASE Delete
    <2>1. NetTyped'
      BY <1>4 DEF Delete, Typed, NetTyped, Streaming, Refusals
    <2>2. ServerTyped'
      BY <1>4, EmptySeq DEF Delete, Typed, ServerTyped, ToSet
    <2> QED
      BY <1>1, <2>1, <2>2 DEF Typed
  <1> QED
    BY <1>2, <1>3, <1>4

LEMMA TypedStops ==
  ASSUME Typed, NEW s \in stops, StopReply(s) \/ LoseStop(s)
  PROVE  Typed'
  <1>1. ServerTyped' /\ PageTyped' /\ Owned'
    BY DEF StopReply, LoseStop, Typed, ServerTyped, PageTyped, Owned, pageVars, serverVars
  <1>2. running.turn \notin {s, None} => <<s, running.turn>> \in Turn \X Turn
    BY DEF Typed, ServerTyped, NetTyped, Nobody
  <1>3. NetTyped'
    BY <1>2 DEF StopReply, LoseStop, Typed, NetTyped
  <1> QED
    BY <1>1, <1>3 DEF Typed

LEMMA TypedReads ==
  ASSUME Typed, NEW k \in DOMAIN reads, GetOwnedDetail(k)
  PROVE  Typed'
  <1>1. ServerTyped' /\ NetTyped'
    BY DEF GetOwnedDetail, Typed, ServerTyped, NetTyped, netVars, serverVars
  <1>2. PageTyped' /\ Owned'
    <2>1. k \in {"load", "poll", "run"} /\ reads[k] \in Read
      BY DEF Typed, PageTyped
    <2>2. Sees(reads[k]) \in Read
      BY <2>1 DEF Sees, SeesRow, SeesMessages, Read, Typed, ServerTyped
    <2>3. /\ reads' \in [{"load", "poll", "run"} -> Read]
          /\ \A j \in {"load", "poll", "run"} : reads'[j].at = "off" <=> reads[j].at = "off"
      BY <2>1, <2>2 DEF GetOwnedDetail, Typed, PageTyped, Read
    <2> QED
      BY <2>3 DEF GetOwnedDetail, Typed, PageTyped, Owned, pageVars
  <1> QED
    BY <1>1, <1>2 DEF Typed

LEMMA LeastPlace ==
  ASSUME NEW T, T \subseteq Nat, T # {}
  PROVE  \E i \in T : \A j \in T : i <= j
  <1>1. PICK i \in T : \A j \in T : <<j, i>> \notin OpToRel(<, Nat)
    BY NatLessThanWellFounded, WFMin
  <1>2. \A j \in T : ~(j < i)
    BY <1>1 DEF OpToRel
  <1> QED
    BY <1>2

LEMMA GreatestPlace ==
  ASSUME NEW n \in Nat, NEW T, T \subseteq 1 .. n, T # {}
  PROVE  \E i \in T : \A j \in T : j <= i
  <1> DEFINE R == {n - i : i \in T}
  <1>1. R \subseteq Nat /\ R # {}
    <2>1. \A i \in 1 .. n : n - i \in Nat
      OBVIOUS
    <2>2. PICK i \in T : TRUE
      OBVIOUS
    <2>3. n - i \in R
      BY <2>2
    <2> QED
      BY <2>1, <2>3
  <1>2. PICK k \in R : \A j \in R : k <= j
    BY <1>1, LeastPlace
  <1>3. PICK i \in T : k = n - i
    BY <1>2
  <1>4. \A j \in T : n - i <= n - j
    BY <1>2, <1>3
  <1> QED
    BY <1>4

\* What the page's helpers do to its thread, and to nothing else.
LEMMA DroppedShape ==
  ASSUME NEW p \in Page
  PROVE  \E t \in Seq(Message) : Dropped(p) = [p EXCEPT !.shown = t] /\ ToSet(t) \subseteq ToSet(p.shown)
  <1>1. p.shown \in Seq(Message)
    BY DEF Page
  <1> QED
    BY <1>1, WithoutThread DEF Dropped

LEMMA RestoredShape ==
  ASSUME NEW p \in Page, run \in Run
  PROVE  \E t \in Seq(Message) :
           /\ RestoreHidden(p) = [p EXCEPT !.shown = t]
           /\ ToSet(t) \subseteq ToSet(p.shown) \cup ToSet(run.hidden)
  <1> DEFINE at == {i \in DOMAIN p.shown : p.shown[i].role = "user" /\ p.shown[i].of = run.after}
             first == CHOOSE i \in at : \A j \in at : i <= j
  <1>0. /\ p.shown \in Seq(Message) /\ Len(p.shown) \in Nat /\ DOMAIN p.shown = 1 .. Len(p.shown)
        /\ run.hidden \in Seq(Message)
    BY LenProperties DEF Page, Run
  <1>1. CASE run.hidden = <<>> \/ at = {}
    <2>1. RestoreHidden(p) = p
      BY <1>1 DEF RestoreHidden
    <2> QED
      BY <1>0, <2>1 DEF Page
  <1>2. CASE ~(run.hidden = <<>> \/ at = {})
    <2>1. run.hidden[1] \in Message /\ run.hidden[1] \in ToSet(run.hidden)
      <3>1. 1 \in 1 .. Len(run.hidden) /\ DOMAIN run.hidden = 1 .. Len(run.hidden)
        BY <1>0, <1>2, EmptySeq, LenProperties
      <3> QED
        BY <1>0, <3>1, ElementOfSeq DEF ToSet
    <2>2. first \in at
      <3>1. at \subseteq Nat /\ at # {}
        BY <1>0, <1>2
      <3>2. \E i \in at : \A j \in at : i <= j
        BY <3>1, LeastPlace
      <3> QED
        BY <3>2
    <2>3. RestoreHidden(p) = [p EXCEPT !.shown = InsertAt(p.shown, 1 + first, run.hidden[1])]
      BY <1>2 DEF RestoreHidden
    <2> HIDE DEF first
    <2>4. 1 + first \in 1 .. Len(p.shown) + 1
      BY <1>0, <2>2
    <2>5. /\ InsertAt(p.shown, 1 + first, run.hidden[1]) \in Seq(Message)
          /\ ToSet(InsertAt(p.shown, 1 + first, run.hidden[1]))
               \subseteq ToSet(p.shown) \cup {run.hidden[1]}
      BY <1>0, <2>1, <2>4, InsertedThread
    <2> QED
      BY <2>1, <2>3, <2>5
  <1> QED
    BY <1>1, <1>2

LEMMA PageShapes ==
  ASSUME NEW p \in Page
  PROVE  /\ Settled(p) \in Page /\ NotedStop(p) \in Page /\ Cut(p) \in Page /\ Unnoted(p) \in Page
         /\ \A t \in Seq(Message) : SettleFree(p, t) \in Page
         /\ \A t \in Seq(Message) : [p EXCEPT !.shown = t] \in Page
  BY DEF Settled, NotedStop, Cut, Unnoted, SettleFree, Page

LEMMA CutShape ==
  ASSUME NEW p \in Page
  PROVE  /\ Cut(p) \in Page /\ Cut(p).shown = p.shown /\ Cut(p).known = p.known
         /\ Cut(p).loading = p.loading /\ Cut(p).streaming = p.streaming
         /\ Cut(p).still = p.still /\ Cut(p).sending = p.sending
         /\ Cut(p).notice \/ Cut(p).error = "interrupted"
         /\ p.stopped => Cut(p).error = p.error
  <1>1. CASE p.stopped
    <2>1. Cut(p) = [p EXCEPT !.notice = TRUE]
      BY <1>1 DEF Cut
    <2> QED
      BY <1>1, <2>1 DEF Page
  <1>2. CASE ~p.stopped
    <2>1. Cut(p) = [p EXCEPT !.error = "interrupted"]
      BY <1>2 DEF Cut
    <2> QED
      BY <1>2, <2>1 DEF Page
  <1> QED
    BY <1>1, <1>2

LEMMA SettleFreeShape ==
  ASSUME NEW p \in Page, NEW t \in Seq(Message)
  PROVE  LET q == SettleFree(p, t) IN
         /\ q \in Page /\ q.shown = t /\ q.known = p.known /\ q.streaming = p.streaming
         /\ ~q.loading /\ ~q.still /\ ~q.sending
         /\ EndsWithUser(t) => q.notice \/ q.error = "interrupted"
         /\ p.stopped => q.error = p.error
  <1> DEFINE r == [Settled(p) EXCEPT !.shown = t]
  <1>1. /\ r \in Page /\ r.shown = t /\ r.known = p.known /\ r.streaming = p.streaming
        /\ ~r.loading /\ ~r.still /\ ~r.sending /\ r.error = p.error /\ r.stopped = p.stopped
    BY DEF Settled, Page
  <1>2. SettleFree(p, t) = IF p.stopped \/ EndsWithUser(t) THEN Cut(r) ELSE r
    BY DEF SettleFree
  <1> HIDE DEF r
  <1>3. CASE p.stopped \/ EndsWithUser(t)
    <2>1. SettleFree(p, t) = Cut(r)
      BY <1>2, <1>3
    <2> QED
      BY <1>1, <2>1, CutShape
  <1>4. CASE ~(p.stopped \/ EndsWithUser(t))
    <2>1. SettleFree(p, t) = r
      BY <1>2, <1>4
    <2> QED
      BY <1>1, <1>4, <2>1
  <1> QED
    BY <1>3, <1>4

LEMMA UnnotedShape ==
  ASSUME NEW p \in Page
  PROVE  /\ Unnoted(p) \in Page /\ Unnoted(p).shown = p.shown /\ Unnoted(p).known = p.known
         /\ Unnoted(p).loading = p.loading /\ Unnoted(p).streaming = p.streaming
         /\ Unnoted(p).still = p.still /\ Unnoted(p).sending = p.sending
         /\ EndsWithUser(p.shown) => Unnoted(p).error = "interrupted"
         /\ ~EndsWithUser(p.shown) => Unnoted(p).error = p.error
  <1>1. CASE EndsWithUser(p.shown)
    <2>1. Unnoted(p) = [p EXCEPT !.notice = FALSE, !.error = "interrupted"]
      BY <1>1 DEF Unnoted
    <2> QED
      BY <1>1, <2>1 DEF Page
  <1>2. CASE ~EndsWithUser(p.shown)
    <2>1. Unnoted(p) = [p EXCEPT !.notice = FALSE]
      BY <1>2 DEF Unnoted
    <2> QED
      BY <1>2, <2>1 DEF Page
  <1> QED
    BY <1>1, <1>2

LEMMA CommittedShape ==
  ASSUME PageTyped, NEW p \in Page, run.turn # None
  PROVE  /\ Committed(p) \in Page
         /\ Committed(p).shown # <<>> /\ Last(Committed(p).shown) = Own(Answer(run.after, run.turn))
         /\ ToSet(Committed(p).shown) = ToSet(p.shown) \cup {Own(Answer(run.after, run.turn))}
  <1>1. p.shown \in Seq(Message) /\ Own(Answer(run.after, run.turn)) \in Message
    BY MessageFacts DEF PageTyped, Run, Page
  <1>2. Committed(p) = [p EXCEPT !.shown = Append(p.shown, Own(Answer(run.after, run.turn)))]
    BY DEF Committed
  <1> DEFINE a == Append(p.shown, Own(Answer(run.after, run.turn)))
  <1>3. /\ a \in Seq(Message) /\ a # <<>> /\ Last(a) = Own(Answer(run.after, run.turn))
        /\ ToSet(a) = ToSet(p.shown) \cup {Own(Answer(run.after, run.turn))}
    BY <1>1, AppendedThread
  <1> HIDE DEF a
  <1>4. Committed(p) \in Page /\ Committed(p).shown = a
    BY <1>2, <1>3 DEF Page, a
  <1> QED
    BY <1>3, <1>4

LEMMA ShownAt ==
  ASSUME PageTyped, CanRetry
  PROVE  /\ LastUserAt \in DOMAIN page.shown
         /\ page.shown[LastUserAt] \in ToSet(page.shown)
         /\ page.shown[LastUserAt] \in Message
         /\ ShownAfter(LastUserAt) \in Seq(Message)
         /\ ToSet(ShownAfter(LastUserAt)) \subseteq ToSet(page.shown)
  <1> DEFINE users == {i \in DOMAIN page.shown : page.shown[i].role = "user"}
  <1>0. /\ page.shown \in Seq(Message) /\ Len(page.shown) \in Nat
        /\ DOMAIN page.shown = 1 .. Len(page.shown)
    BY LenProperties DEF PageTyped, Page
  <1>1. \E i \in users : \A j \in users : j <= i
    <2>1. users # {} /\ users \subseteq 1 .. Len(page.shown)
      BY <1>0 DEF CanRetry
    <2> QED
      BY <1>0, <2>1, GreatestPlace
  <1>2. LastUserAt \in DOMAIN page.shown
    BY <1>1 DEF LastUserAt
  <1>3. page.shown[LastUserAt] \in ToSet(page.shown) /\ page.shown[LastUserAt] \in Message
    BY <1>0, <1>2, ElementOfSeq DEF ToSet
  <1>4. CASE LastUserAt < Len(page.shown)
    <2>1. LastUserAt + 1 \in DOMAIN page.shown
      BY <1>0, <1>2, <1>4
    <2>2. page.shown[LastUserAt + 1] \in Message /\ page.shown[LastUserAt + 1] \in ToSet(page.shown)
      BY <1>0, <2>1, ElementOfSeq DEF ToSet
    <2>3. ShownAfter(LastUserAt) = <<page.shown[LastUserAt + 1]>>
      BY <1>4 DEF ShownAfter
    <2> QED
      BY <1>2, <1>3, <2>2, <2>3, OneThread
  <1>5. CASE ~(LastUserAt < Len(page.shown))
    <2>1. ShownAfter(LastUserAt) = <<>>
      BY <1>5 DEF ShownAfter
    <2> QED
      BY <1>2, <1>3, <2>1, EmptySeq DEF ToSet
  <1> QED
    BY <1>4, <1>5

\* The page asks: a send or a retry.
LEMMA TypedRequest ==
  ASSUME Typed, ~page.loading, NEW kind \in {"send", "retry"}, NEW after \in Turn,
         NEW hidden \in Seq(Message), Request(kind, after, hidden),
         NEW t \in Seq(Message), Starts(t)
  PROVE  Typed'
  <1>1. NextTurn \in Turn /\ NextTurn # None
    BY TurnFacts DEF Request, NextTurn, Typed, NetTyped
  <1>2. ServerTyped'
    BY DEF Request, Typed, ServerTyped, serverVars
  <1>3. NetTyped'
    <2>1. turns' \in [last : Turn, others : SUBSET Turn, late : SUBSET Turn, blind : BOOLEAN]
      BY <1>1 DEF Request, Typed, NetTyped, PageTyped
    <2>2. requests' \subseteq RequestType
      <3>1. (hidden # <<>>) \in BOOLEAN
        BY Zenon
      <3>2. [kind |-> kind, turn |-> NextTurn, after |-> after, replace |-> hidden # <<>>] \in RequestType
        BY <1>1, <3>1, Zenon DEF RequestType
      <3> QED
        BY <3>2 DEF Request, Typed, NetTyped
    <2> QED
      BY <2>1, <2>2 DEF Request, Typed, NetTyped
  <1>4. page' \in Page /\ run' \in Run /\ run'.turn = NextTurn /\ run'.after = after
        /\ run'.at = "waiting" /\ run'.hadId = page.known
    BY <1>1 DEF Request, Starts, Typed, PageTyped, Page, Run, NoRun
  <1>5. after # None
    BY TurnFacts
  <1>6. PageTyped'
    BY <1>1, <1>4, <1>5 DEF Request, Typed, PageTyped
  <1>7. Owned'
    BY <1>4 DEF Request, Starts, Typed, PageTyped, Page, Owned
  <1> QED
    BY <1>2, <1>3, <1>6, <1>7 DEF Typed

LEMMA TypedAsks ==
  ASSUME Typed, Send \/ Retry
  PROVE  Typed'
  <1>0. page.shown \in Seq(Message)
    BY DEF Typed, PageTyped, Page
  <1>1. CASE Send
    <2>1. NextTurn \in Turn
      BY <1>1, TurnFacts DEF Send, Request, NextTurn, Typed, NetTyped
    <2>2. Append(page.shown, Own(Question(NextTurn))) \in Seq(Message)
      BY <1>0, <2>1, MessageFacts, AppendedThread
    <2>3. Request("send", NextTurn, <<>>) /\ Starts(Append(page.shown, Own(Question(NextTurn))))
          /\ ~page.loading
      BY <1>1 DEF Send, MaySend, Busy
    <2> QED
      BY <2>1, <2>2, <2>3, EmptySeq, TypedRequest
  <1>2. CASE Retry
    <2> DEFINE hidden == ShownAfter(LastUserAt)
               after == page.shown[LastUserAt].of
    <2>1. hidden \in Seq(Message) /\ after \in Turn
      BY <1>2, ShownAt, MessageFacts DEF Retry, Typed
    <2>2. Request("retry", after, hidden) /\ Starts(Hides(hidden)) /\ ~page.loading
      BY <1>2 DEF Retry, CanRetry, Busy
    <2> HIDE DEF hidden, after
    <2>3. Hides(hidden) \in Seq(Message)
      BY <1>0, WithoutThread DEF Hides
    <2> QED
      BY <2>1, <2>2, <2>3, TypedRequest
  <1> QED
    BY <1>1, <1>2

LEMMA ReadFacts ==
  ASSUME PageTyped
  PROVE  /\ NoRead \in Read /\ [NoRead EXCEPT !.at = "asked"] \in Read
         /\ \A k \in {"load", "poll", "run"} :
              /\ StopsReading(k) => /\ reads' \in [{"load", "poll", "run"} -> Read]
                                    /\ reads'[k].at = "off"
                                    /\ \A j \in {"load", "poll", "run"} \ {k} : reads'[j] = reads[j]
              /\ Asks(k) => /\ reads' \in [{"load", "poll", "run"} -> Read]
                            /\ reads'[k].at = "asked"
                            /\ \A j \in {"load", "poll", "run"} \ {k} : reads'[j] = reads[j]
  <1>1. NoRead \in Read /\ [NoRead EXCEPT !.at = "asked"] \in Read
    BY EmptySeq DEF NoRead, Read
  <1>2. NoRead.at = "off" /\ [NoRead EXCEPT !.at = "asked"].at = "asked"
    BY DEF NoRead
  <1> QED
    BY <1>1, <1>2 DEF StopsReading, Asks, PageTyped

\* A step of the page alone.
LEMMA TypedPageStep ==
  ASSUME Typed, ServerOnly, PageTyped', Owned', stop' = stop \/ stop' = NoStop,
         answer' \in {answer, "none"}
  PROVE  Typed'
  <1>1. ServerTyped'
    BY DEF ServerOnly, Typed, ServerTyped, serverVars
  <1>2. NetTyped'
    BY DEF ServerOnly, Typed, NetTyped, NoStop
  <1> QED
    BY <1>1, <1>2 DEF Typed

\* A run ends, or leaves its turn to a poll.
LEMMA TypedRunEnds ==
  ASSUME Typed, run.at # "idle", NEW p \in Page, ~p.still, Ends(p), UNCHANGED poll,
         \/ run.at \in {"rereading", "refetching"} /\ StopsReading("run")
         \/ run.at \in {"waiting", "reading"} /\ UNCHANGED reads
  PROVE  PageTyped' /\ Owned' /\ answer' \in {answer, "none"}
  <1>1. /\ reads' \in [{"load", "poll", "run"} -> Read]
        /\ reads'["run"].at = "off"
        /\ reads'["load"] = reads["load"] /\ reads'["poll"] = reads["poll"]
    BY ReadFacts DEF Typed, PageTyped, Owned
  <1>2. run' \in Run /\ run'.at = "idle" /\ run'.turn = run.turn /\ run'.after = run.after
        /\ run'.kind = "send"
    BY EmptySeq DEF Ends, RunOver, NoRun, Run, Typed, PageTyped
  <1>3. page' \in Page /\ ~page'.sending /\ ~page'.loading /\ ~page'.streaming /\ ~page'.still
    BY DEF Ends, Page
  <1>4. poll.at = "off"
    BY DEF Typed, Owned
  <1> QED
    BY <1>1, <1>2, <1>3, <1>4 DEF Ends, RunOver, Typed, PageTyped, Owned

LEMMA TypedHandsOver ==
  ASSUME Typed, run.at # "idle", NEW kind \in {"settle", "outcome", "confirm"}, HandsOver(kind),
         \/ run.at \in {"rereading", "refetching"} /\ StopsReading("run")
         \/ run.at \in {"waiting", "reading"} /\ UNCHANGED reads
  PROVE  PageTyped' /\ Owned' /\ answer' \in {answer, "none"}
  <1>1. /\ reads' \in [{"load", "poll", "run"} -> Read]
        /\ reads'["run"].at = "off"
        /\ reads'["load"] = reads["load"] /\ reads'["poll"] = reads["poll"]
    BY ReadFacts DEF Typed, PageTyped, Owned
  <1>2. run' \in Run /\ run'.at = "idle" /\ run'.turn = run.turn /\ run'.after = run.after
        /\ run'.kind = "send"
    BY EmptySeq DEF HandsOver, RunOver, NoRun, Run, Typed, PageTyped
  <1>3. page' \in Page /\ page'.sending = page.sending /\ page'.loading = page.loading
        /\ ~page'.streaming /\ page'.still
    BY DEF HandsOver, Page, Typed, PageTyped
  <1>4. poll' \in Poll /\ poll'.at = "resting"
    <2>1. poll' = [at |-> "resting", kind |-> kind, misses |-> 0]
      BY DEF HandsOver, NoPoll
    <2> QED
      BY <2>1 DEF Poll
  <1>5. poll.at = "off" /\ page.sending /\ page.loading /\ reads["poll"].at = "off"
    BY DEF Typed, Owned
  <1> QED
    BY <1>1, <1>2, <1>3, <1>4, <1>5 DEF HandsOver, RunOver, Typed, PageTyped, Owned

LEMMA TypedStream ==
  ASSUME Typed, Prelude \/ SendDone \/ RetryDone \/ Reread \/ ReplyFailed \/ ConnectionLost
  PROVE  Typed'
  <1>0. run.at # "idle" => run.turn # None /\ ~page.still
    BY DEF Typed, PageTyped, Owned
  <1>1. CASE Prelude
    <2>1. page' \in Page /\ page'.streaming /\ page'.known
          /\ page'.loading = page.loading /\ page'.still = page.still /\ page'.sending = page.sending
      BY <1>0, <1>1 DEF Prelude, Page, Typed, PageTyped
    <2>2. run' \in Run /\ run'.at = "reading" /\ run'.turn = run.turn /\ run'.after = run.after
          /\ run'.kind = run.kind
      BY <1>1 DEF Prelude, Run, Typed, PageTyped
    <2>3. PageTyped' /\ Owned'
      BY <1>1, <2>1, <2>2 DEF Prelude, Typed, PageTyped, Owned
    <2> QED
      BY <1>1, <2>3, TypedPageStep DEF Prelude
  <1>2. CASE SendDone
    <2>1. NotedStop(page) \in Page /\ NotedStop(page).still = page.still
      BY PageShapes DEF NotedStop, Page, Typed, PageTyped
    <2>2. Committed(NotedStop(page)) \in Page /\ ~Committed(NotedStop(page)).still
      BY <1>0, <1>2, <2>1, CommittedShape DEF SendDone, Typed, PageTyped, Committed, Page
    <2>3. PageTyped' /\ Owned' /\ answer' \in {answer, "none"}
      BY <1>2, <2>2, TypedRunEnds DEF SendDone
    <2> QED
      BY <1>2, <2>3, TypedPageStep DEF SendDone
  <1>3. CASE RetryDone
    <2>1. page' \in Page /\ ~page'.streaming
          /\ page'.loading = page.loading /\ page'.still = page.still /\ page'.sending = page.sending
      BY <1>3 DEF RetryDone, Page, Typed, PageTyped
    <2>2. run' \in Run /\ run'.at = "rereading" /\ run'.turn = run.turn /\ run'.after = run.after
          /\ run'.kind = run.kind
      BY <1>3 DEF RetryDone, Run, Typed, PageTyped
    <2>3. /\ reads' \in [{"load", "poll", "run"} -> Read] /\ reads'["run"].at = "asked"
          /\ reads'["load"] = reads["load"] /\ reads'["poll"] = reads["poll"]
      BY <1>3, ReadFacts DEF RetryDone, Typed
    <2>4. PageTyped' /\ Owned'
      BY <1>3, <2>1, <2>2, <2>3 DEF RetryDone, Typed, PageTyped, Owned
    <2> QED
      BY <1>3, <2>4, TypedPageStep DEF RetryDone
  <1>4. CASE Reread
    <2>1. NotedStop(page) \in Page /\ ~NotedStop(page).still
      BY <1>0, <1>4, PageShapes DEF NotedStop, Page, Typed, PageTyped, Reread
    <2>2. Committed(NotedStop(page)) \in Page /\ ~Committed(NotedStop(page)).still
      BY <1>0, <1>4, <2>1, CommittedShape DEF Reread, Typed, PageTyped, Committed, Page
    <2>3. reads["run"].thread \in Seq(Message)
      BY DEF Typed, PageTyped, Read
    <2>4. /\ [NotedStop(page) EXCEPT !.shown = reads["run"].thread] \in Page
          /\ ~[NotedStop(page) EXCEPT !.shown = reads["run"].thread].still
      BY <2>1, <2>3 DEF Page
    <2>5. PageTyped' /\ Owned' /\ answer' \in {answer, "none"}
      BY <1>4, <2>2, <2>4, TypedRunEnds DEF Reread
    <2> QED
      BY <1>4, <2>5, TypedPageStep DEF Reread
  <1>5. CASE ReplyFailed
    <2>1. Cut(page) \in Page /\ ~Cut(page).still
      BY <1>0, <1>5, PageShapes DEF Cut, Page, Typed, PageTyped, ReplyFailed
    <2>2. PageTyped' /\ Owned' /\ answer' \in {answer, "none"}
      BY <1>5, <2>1, TypedRunEnds DEF ReplyFailed
    <2> QED
      BY <1>5, <2>2, TypedPageStep DEF ReplyFailed
  <1>6. CASE ConnectionLost
    <2>1. [page EXCEPT !.error = "interrupted"] \in Page
          /\ ~[page EXCEPT !.error = "interrupted"].still
      BY <1>0, <1>6 DEF Page, Typed, PageTyped, ConnectionLost
    <2>2. \/ \E kind \in {"settle", "outcome", "confirm"} : HandsOver(kind)
          \/ Ends([page EXCEPT !.error = "interrupted"]) /\ UNCHANGED poll
      BY <1>6 DEF ConnectionLost, HandsOver
    <2>3. PageTyped' /\ Owned' /\ answer' \in {answer, "none"}
      BY <1>6, <2>1, <2>2, TypedRunEnds, TypedHandsOver DEF ConnectionLost
    <2> QED
      BY <1>6, <2>3, TypedPageStep DEF ConnectionLost
  <1> QED
    BY <1>1, <1>2, <1>3, <1>4, <1>5, <1>6

LEMMA TypedNetworkFails ==
  ASSUME Typed, NetworkFails
  PROVE  Typed'
  <1>0. run.turn \in Turn /\ ~page.still
    BY DEF NetworkFails, Typed, PageTyped, Owned, Run
  <1>1. ServerTyped'
    BY DEF NetworkFails, Typed, ServerTyped, serverVars
  <1>2. [page EXCEPT !.error = "refused"] \in Page /\ ~[page EXCEPT !.error = "refused"].still
    BY <1>0 DEF Page, Typed, PageTyped
  <1>3. \/ \E kind \in {"settle", "outcome", "confirm"} : HandsOver(kind)
        \/ Ends([page EXCEPT !.error = "refused"]) /\ UNCHANGED poll
    BY DEF NetworkFails
  <1>4. PageTyped' /\ Owned' /\ answer' \in {answer, "none"}
    BY <1>2, <1>3, TypedRunEnds, TypedHandsOver DEF NetworkFails
  <1>5. turns' \in [last : Turn, others : SUBSET Turn, late : SUBSET Turn, blind : BOOLEAN]
    BY <1>0 DEF NetworkFails, Typed, NetTyped
  <1>6. NetTyped'
    BY <1>4, <1>5 DEF NetworkFails, Typed, NetTyped
  <1> QED
    BY <1>1, <1>4, <1>6 DEF Typed

LEMMA TypedRefusals ==
  ASSUME Typed, Limited \/ SendRefused \/ RetryRefused \/ Refetch \/ Refetched
  PROVE  Typed'
  <1>0. page \in Page /\ run \in Run /\ \A p \in Page : [p EXCEPT !.error = "refused"] \in Page
    BY DEF Typed, PageTyped, Page
  <1>1. run.at \in {"waiting", "refetching"} => ~page.still
    BY DEF Typed, Owned
  <1>2. Dropped(page) \in Page /\ Dropped(page).still = page.still
    <2>1. PICK t \in Seq(Message) : Dropped(page) = [page EXCEPT !.shown = t]
      BY <1>0, DroppedShape
    <2> QED
      BY <1>0, <2>1 DEF Page
  <1>3. ASSUME NEW p \in Page
        PROVE  RestoreHidden(p) \in Page /\ RestoreHidden(p).still = p.still
    <2>1. PICK t \in Seq(Message) : RestoreHidden(p) = [p EXCEPT !.shown = t]
      BY <1>0, RestoredShape
    <2> QED
      BY <2>1 DEF Page
  <1>4. CASE Limited
    <2>1. RestoreHidden(Dropped(page)) \in Page /\ ~RestoreHidden(Dropped(page)).still
      BY <1>1, <1>2, <1>3, <1>4 DEF Limited, RefusedWith
    <2>2. /\ [RestoreHidden(Dropped(page)) EXCEPT !.limited = TRUE] \in Page
          /\ ~[RestoreHidden(Dropped(page)) EXCEPT !.limited = TRUE].still
      BY <2>1 DEF Page
    <2>3. PageTyped' /\ Owned' /\ answer' \in {answer, "none"}
      BY <1>4, <2>2, TypedRunEnds DEF Limited, RefusedWith
    <2> QED
      BY <1>4, <2>3, TypedPageStep DEF Limited
  <1>5. CASE SendRefused
    <2>1. PICK p \in {[Dropped(page) EXCEPT !.error = "refused"], [page EXCEPT !.error = "refused"]} :
            Ends(p)
      BY <1>5 DEF SendRefused
    <2>2. p \in Page /\ ~p.still /\ run.at = "waiting"
      BY <1>0, <1>1, <1>2, <1>5, <2>1 DEF SendRefused, RefusedWith, Page
    <2>3. PageTyped' /\ Owned' /\ answer' \in {answer, "none"}
      BY <1>5, <2>1, <2>2, TypedRunEnds DEF SendRefused
    <2> QED
      BY <1>5, <2>3, TypedPageStep DEF SendRefused
  <1>6. CASE RetryRefused
    <2>1. /\ [RestoreHidden(page) EXCEPT !.error = "refused"] \in Page
          /\ ~[RestoreHidden(page) EXCEPT !.error = "refused"].still
      BY <1>0, <1>1, <1>3, <1>6 DEF RetryRefused, RefusedWith, Page
    <2>2. PageTyped' /\ Owned' /\ answer' \in {answer, "none"}
      BY <1>6, <2>1, TypedRunEnds, TypedHandsOver DEF RetryRefused, RefusedWith
    <2> QED
      BY <1>6, <2>2, TypedPageStep DEF RetryRefused
  <1>7. CASE Refetch
    <2>1. run' \in Run /\ run'.at = "refetching" /\ run'.turn = run.turn /\ run'.after = run.after
          /\ run'.kind = run.kind
      BY <1>0, <1>7 DEF Refetch, Run
    <2>2. /\ reads' \in [{"load", "poll", "run"} -> Read] /\ reads'["run"].at = "asked"
          /\ reads'["load"] = reads["load"] /\ reads'["poll"] = reads["poll"]
      BY <1>7, ReadFacts DEF Refetch, Typed
    <2>3. UNCHANGED <<page, poll, answer, stop>> /\ run.at = "waiting"
      BY <1>7 DEF Refetch, RefusedWith
    <2>4. PageTyped' /\ Owned'
      BY <2>1, <2>2, <2>3 DEF Typed, PageTyped, Owned
    <2> QED
      BY <1>7, <2>4, TypedPageStep DEF Refetch
  <1>8. CASE Refetched
    <2>1. reads["run"].thread \in Seq(Message)
      BY DEF Typed, PageTyped, Read
    <2>2. SettleFree(page, reads["run"].thread) \in Page /\ ~SettleFree(page, reads["run"].thread).still
      BY <1>0, <2>1, SettleFreeShape
    <2>3. PageTyped' /\ Owned' /\ answer' \in {answer, "none"}
      BY <1>8, <2>2, TypedRunEnds, TypedHandsOver DEF Refetched
    <2> QED
      BY <1>8, <2>3, TypedPageStep DEF Refetched
  <1> QED
    BY <1>4, <1>5, <1>6, <1>7, <1>8

LEMMA TypedLoads ==
  ASSUME Typed, LoadLands \/ LoadFails
  PROVE  Typed'
  <1>1. /\ reads' \in [{"load", "poll", "run"} -> Read] /\ reads'["load"].at = "off"
        /\ reads'["run"] = reads["run"] /\ reads'["poll"] = reads["poll"]
    BY ReadFacts DEF LoadLands, LoadFails, Typed
  <1>2. reads["load"].thread \in Seq(Message) /\ page \in Page /\ poll \in Poll
    BY DEF Typed, PageTyped, Read
  <1>3. reads["load"].at # "off"
    BY DEF LoadLands, LoadFails
  <1>4. [page EXCEPT !.shown = reads["load"].thread] \in Page
    BY <1>2 DEF Page
  <1>5. CASE UNCHANGED poll /\ page'.loading = page.loading /\ page'.still = page.still
              /\ page'.sending = page.sending /\ page'.streaming = page.streaming
              /\ page' \in Page /\ page'.known = page.known
    <2>1. PageTyped' /\ Owned'
      BY <1>1, <1>5 DEF LoadLands, LoadFails, Typed, PageTyped, Owned
    <2> QED
      BY <2>1, TypedPageStep DEF LoadLands, LoadFails
  <1>6. CASE LoadFails
    BY <1>2, <1>5, <1>6 DEF LoadFails, Page
  <1>7. CASE LoadLands /\ (page.sending \/ ~reads["load"].replying)
    BY <1>2, <1>4, <1>5, <1>7 DEF LoadLands, Page
  <1>8. CASE LoadLands /\ ~page.sending /\ reads["load"].replying
    <2>1. page' = [[page EXCEPT !.shown = reads["load"].thread] EXCEPT !.still = TRUE, !.loading = TRUE]
          /\ poll' = [at |-> "resting", kind |-> "settle", misses |-> 0]
      BY <1>8 DEF LoadLands, NoPoll
    <2>2. page' \in Page /\ page'.still /\ page'.loading /\ ~page'.sending
          /\ page'.streaming = page.streaming
      BY <1>2, <1>4, <1>8, <2>1 DEF Page
    <2>3. poll' \in Poll
      BY <2>1 DEF Poll
    <2>4. run.at = "idle" /\ poll.at = "off" /\ reads["poll"].at = "off"
      BY <1>3, <1>8 DEF Typed, Owned
    <2>5. PageTyped' /\ Owned'
      BY <1>1, <1>8, <2>1, <2>2, <2>3, <2>4 DEF LoadLands, Typed, PageTyped, Owned
    <2> QED
      BY <1>8, <2>5, TypedPageStep DEF LoadLands
  <1> QED
    BY <1>6, <1>7, <1>8

LEMMA TypedPolls ==
  ASSUME Typed, PollTick \/ PollLands \/ PollFails
  PROVE  Typed'
  <1>0. page \in Page /\ poll \in Poll /\ run.at = "idle" /\ poll.at # "off"
    BY DEF PollTick, PollLands, PollFails, Typed, PageTyped, Owned
  <1>1. CASE PollTick
    <2>1. /\ reads' \in [{"load", "poll", "run"} -> Read] /\ reads'["poll"].at = "asked"
          /\ reads'["run"] = reads["run"] /\ reads'["load"] = reads["load"]
      BY <1>1, ReadFacts DEF PollTick, Typed
    <2>2. poll' \in Poll /\ poll'.at = "reading" /\ poll'.misses = poll.misses
      BY <1>0, <1>1 DEF PollTick, Poll
    <2>3. PageTyped' /\ Owned'
      BY <1>0, <1>1, <2>1, <2>2 DEF PollTick, Typed, PageTyped, Owned
    <2> QED
      BY <1>1, <2>3, TypedPageStep DEF PollTick
  <1>2. PollLands \/ PollFails
        => /\ reads' \in [{"load", "poll", "run"} -> Read] /\ reads'["poll"].at = "off"
           /\ reads'["run"] = reads["run"] /\ reads'["load"] = reads["load"]
    BY ReadFacts DEF PollLands, PollFails, Typed
  <1>3. ASSUME UNCHANGED page, poll' \in Poll, poll'.at = "resting", PollLands \/ PollFails
        PROVE  Typed'
    <2>1. PageTyped' /\ Owned'
      BY <1>0, <1>2, <1>3 DEF PollLands, PollFails, Typed, PageTyped, Owned
    <2> QED
      BY <1>3, <2>1, TypedPageStep DEF PollLands, PollFails
  <1>4. CASE PollFails
    <2>1. poll' \in Poll /\ poll'.at = "resting"
      BY <1>0, <1>4 DEF PollFails, Poll
    <2> QED
      BY <1>3, <1>4, <2>1 DEF PollFails
  <1>5. CASE PollLands /\ Undecided(reads["poll"])
    <2>1. UNCHANGED page
          /\ poll' = [poll EXCEPT !.at = "resting",
                                  !.misses = IF reads["poll"].replying THEN 0 ELSE poll.misses + 1]
      BY <1>5 DEF PollLands
    <2>2. reads["poll"].replying \/ poll.misses = 0
      <3>1. poll.misses \in 0 .. 1
        BY <1>0 DEF Poll
      <3> QED
        BY <1>5, <3>1 DEF Undecided, Enough
    <2>3. poll' = [poll EXCEPT !.at = "resting", !.misses = 0]
          \/ poll' = [poll EXCEPT !.at = "resting", !.misses = 1]
      <3>1. CASE reads["poll"].replying
        BY <2>1, <3>1
      <3>2. CASE ~reads["poll"].replying
        <4>1. poll' = [poll EXCEPT !.at = "resting", !.misses = poll.misses + 1]
          BY <2>1, <3>2
        <4>2. poll.misses + 1 = 1
          BY <2>2, <3>2
        <4> QED
          BY <4>1, <4>2
      <3> QED
        BY <3>1, <3>2
    <2>4. poll' \in Poll /\ poll'.at = "resting"
      <3>1. 0 \in 0 .. 1 /\ 1 \in 0 .. 1
        OBVIOUS
      <3> QED
        BY <1>0, <2>3, <3>1, Zenon DEF Poll
    <2> QED
      BY <1>3, <1>5, <2>1, <2>4
  <1>6. CASE PollLands /\ ~Undecided(reads["poll"])
    <2>1. poll' = NoPoll /\ page' \in {NotSent(page), SettleFree(page, reads["poll"].thread)}
      BY <1>6 DEF PollLands
    <2>2. reads["poll"].thread \in Seq(Message)
      BY DEF Typed, PageTyped, Read
    <2>3. /\ SettleFree(page, reads["poll"].thread) \in Page
          /\ ~SettleFree(page, reads["poll"].thread).still
          /\ ~SettleFree(page, reads["poll"].thread).loading
          /\ ~SettleFree(page, reads["poll"].thread).sending
          /\ SettleFree(page, reads["poll"].thread).streaming = page.streaming
          /\ SettleFree(page, reads["poll"].thread).known = page.known
      BY <1>0, <2>2, SettleFreeShape
    <2>4. NotSent(page) \in Page /\ ~NotSent(page).still /\ ~NotSent(page).loading
          /\ ~NotSent(page).sending /\ NotSent(page).streaming = page.streaming
          /\ NotSent(page).known = page.known
      <3>1. Settled(page) \in Page
        BY <1>0, PageShapes
      <3>2. PICK t \in Seq(Message) : Dropped(Settled(page)) = [Settled(page) EXCEPT !.shown = t]
        BY <3>1, DroppedShape
      <3>3. /\ ~Settled(page).still /\ ~Settled(page).loading /\ ~Settled(page).sending
            /\ Settled(page).streaming = page.streaming /\ Settled(page).known = page.known
        BY <1>0 DEF Settled, Page
      <3>4. NotSent(page) = [[Settled(page) EXCEPT !.shown = t] EXCEPT !.error = "notSent"]
        BY <3>2 DEF NotSent
      <3> HIDE DEF Settled
      <3> QED
        BY <3>1, <3>3, <3>4 DEF Page
    <2>5. poll' \in Poll /\ poll'.at = "off" /\ poll'.misses = 0
      BY <2>1 DEF NoPoll, Poll
    <2>6. PageTyped' /\ Owned'
      BY <1>0, <1>2, <1>6, <2>1, <2>3, <2>4, <2>5 DEF PollLands, Typed, PageTyped, Owned
    <2> QED
      BY <1>6, <2>6, TypedPageStep DEF PollLands
  <1> QED
    BY <1>1, <1>4, <1>5, <1>6

LEMMA TypedPollCap ==
  ASSUME Typed, PollCap
  PROVE  Typed'
  <1>1. ServerTyped'
    BY DEF PollCap, Typed, ServerTyped, serverVars
  <1>2. NetTyped'
    BY DEF PollCap, Typed, NetTyped, netVars
  <1>3. /\ reads' \in [{"load", "poll", "run"} -> Read] /\ reads'["poll"].at = "off"
        /\ reads'["run"] = reads["run"] /\ reads'["load"] = reads["load"]
    BY ReadFacts DEF PollCap, Typed
  <1>4. page' \in Page /\ ~page'.still /\ ~page'.loading /\ ~page'.sending
        /\ page'.streaming = page.streaming /\ page'.known = page.known
    BY DEF PollCap, Settled, Page, Typed, PageTyped
  <1>5. poll' \in Poll /\ poll'.at = "off" /\ poll'.misses = 0
    BY DEF PollCap, NoPoll, Poll
  <1>6. PageTyped' /\ Owned'
    BY <1>3, <1>4, <1>5 DEF PollCap, Typed, PageTyped, Owned
  <1> QED
    BY <1>1, <1>2, <1>6 DEF Typed

LEMMA TypedStopping ==
  ASSUME Typed, Stop \/ Stopped \/ StopFails \/ StopRefused
  PROVE  Typed'
  <1>0. page \in Page
    BY DEF Typed, PageTyped
  <1>1. CASE Stop
    <2>1. run.turn \in Turn
      BY <1>1 DEF Stop, Typed, PageTyped, Owned, Run
    <2>2. NetTyped' /\ ServerTyped'
      BY <1>1, <2>1 DEF Stop, Typed, NetTyped, ServerTyped, serverVars
    <2>3. PageTyped' /\ Owned'
      BY <1>0, <1>1 DEF Stop, Typed, PageTyped, Owned, Page
    <2> QED
      BY <2>2, <2>3 DEF Typed
  <1>2. ASSUME NEW p \in Page, StopSettles(p), p.loading = page.loading, p.still = page.still,
               p.sending = page.sending, p.streaming = page.streaming, p.known = page.known
        PROVE  Typed'
    <2>1. PageTyped' /\ Owned'
      BY <1>2 DEF StopSettles, Typed, PageTyped, Owned
    <2> QED
      BY <1>2, <2>1, TypedPageStep DEF StopSettles
  <1>3. CASE Stopped \/ StopFails
    BY <1>0, <1>2, <1>3 DEF Stopped, StopFails
  <1>4. CASE StopRefused
    <2> DEFINE p == [page EXCEPT !.stopped = FALSE]
    <2>1. /\ p \in Page /\ p.loading = page.loading /\ p.still = page.still
          /\ p.sending = page.sending /\ p.streaming = page.streaming /\ p.known = page.known
      BY <1>0 DEF Page
    <2>2. PICK r \in {p, Unnoted(p)} : StopSettles(r)
      BY <1>4 DEF StopRefused
    <2> HIDE DEF p
    <2>4. \A x \in {p, Unnoted(p)} :
            /\ x \in Page /\ x.loading = page.loading /\ x.still = page.still
            /\ x.sending = page.sending /\ x.streaming = page.streaming /\ x.known = page.known
      BY <2>1, UnnotedShape
    <2> QED
      BY <1>2, <2>2, <2>4
  <1> QED
    BY <1>1, <1>3, <1>4

LEMMA TypedStutter == ASSUME Typed, UNCHANGED vars PROVE Typed'
  <1>1. ServerTyped'
    BY DEF Typed, ServerTyped, vars, serverVars
  <1>2. NetTyped'
    BY DEF Typed, NetTyped, vars, netVars
  <1>3. PageTyped'
    BY DEF Typed, PageTyped, vars, pageVars
  <1>4. Owned'
    BY DEF Typed, Owned, vars, pageVars
  <1> QED
    BY <1>1, <1>2, <1>3, <1>4 DEF Typed

LEMMA InitFacts ==
  ASSUME Init
  PROVE  /\ thread \in {<<>>, <<Question(1)>>, <<Question(1), Answer(1, 1)>>}
         /\ Question(1) \in Message /\ Answer(1, 1) \in Message
         /\ thread \in Seq(Message) /\ ever = ToSet(thread)
  <1>1. Question(1) \in Message /\ Answer(1, 1) \in Message
    BY TurnFacts, MessageFacts
  <1>2. thread \in {<<>>, <<Question(1)>>, <<Question(1), Answer(1, 1)>>}
    BY DEF Init
  <1>3. thread \in Seq(Message)
    <2>1. <<>> \in Seq(Message) /\ <<Question(1)>> \in Seq(Message)
          /\ <<Question(1), Answer(1, 1)>> \in Seq(Message)
      BY <1>1, EmptySeq, OneThread, TwoThread
    <2> QED
      BY <1>2, <2>1, Zenon
  <1> QED
    BY <1>1, <1>2, <1>3 DEF Init

LEMMA TypedInit == Init => Typed
  <1> SUFFICES ASSUME Init PROVE Typed
    OBVIOUS
  <1>1. thread \in Seq(Message) /\ ever = ToSet(thread)
    BY InitFacts
  <1>2. ToSet(thread) \subseteq Message
    <2>1. DOMAIN thread = 1 .. Len(thread) /\ \A i \in 1 .. Len(thread) : thread[i] \in Message
      BY <1>1, LenProperties, ElementOfSeq
    <2> QED
      BY <2>1 DEF ToSet
  <1>3. conv \in {"none", "open", "deleted"} /\ running \in {Nobody} \cup [turn : Turn, of : Turn]
    BY TurnFacts DEF Init
  <1>4. NetTyped
    <2>1. turns = [last |-> 1, others |-> {1}, late |-> {}, blind |-> FALSE] /\ requests = {}
          /\ answer = "none" /\ stops = {} /\ hits = {} /\ stop = [turn |-> None, answer |-> "none"]
      BY DEF Init, NoStop
    <2> QED
      BY <2>1, TurnFacts DEF NetTyped
  <1>5. /\ NoRead \in Read /\ [NoRead EXCEPT !.at = "asked"] \in Read
        /\ NoRead.at = "off" /\ [NoRead EXCEPT !.at = "asked"].at = "asked"
    BY EmptySeq DEF NoRead, Read
  <1>6. /\ reads \in [{"load", "poll", "run"} -> Read]
        /\ reads["poll"].at = "off" /\ reads["run"].at = "off"
    BY <1>5 DEF Init
  <1>7. page \in Page /\ ~page.loading /\ ~page.still /\ ~page.sending /\ ~page.streaming
    <2>1. (conv = "open") \in BOOLEAN /\ <<>> \in Seq(Message)
      BY EmptySeq, Zenon
    <2>2. page.shown = <<>> /\ page.known = (conv = "open")
      BY DEF Init
    <2> QED
      BY <2>1 DEF Init, Page
  <1>8. run \in Run /\ run.at = "idle" /\ run.turn = None /\ run.after = None /\ run.kind = "send"
    BY EmptySeq DEF Init, NoRun, Run
  <1>9. poll \in Poll /\ poll.at = "off" /\ poll.misses = 0
    <2>1. poll = [at |-> "off", kind |-> "settle", misses |-> 0] /\ 0 \in 0 .. 1
      BY DEF Init, NoPoll
    <2> QED
      BY <2>1, Zenon DEF Poll
  <1> QED
    BY <1>1, <1>2, <1>3, <1>4, <1>6, <1>7, <1>8, <1>9 DEF Typed, ServerTyped, PageTyped, Owned

LEMMA TypedStep == Typed /\ [Next]_vars => Typed'
  <1> SUFFICES ASSUME Typed, [Next]_vars PROVE Typed'
    OBVIOUS
  <1>1. CASE UNCHANGED vars
    BY <1>1, TypedStutter
  <1>2. CASE Next
    BY <1>2, TypedRequests, TypedReplies, TypedOthers, TypedStops, TypedReads, TypedAsks,
       TypedStream, TypedNetworkFails, TypedRefusals, TypedLoads, TypedPolls, TypedPollCap,
       TypedStopping
       DEF Next, RunSteps, PollSteps, StopSteps
  <1> QED
    BY <1>1, <1>2

\* `loading` always has the run or the poll that will end it, never both (useChat's
\* loading, runTurn's finally, startPolling), whatever the network and the other tab do.
THEOREM TypeCorrect == Spec => []TypeOK
  <1>1. Typed => TypeOK
    <2> SUFFICES ASSUME Typed PROVE TypeOK
      OBVIOUS
    <2>1. \A i \in DOMAIN thread : thread[i] \in ever
      BY ThreadFacts DEF Typed
    <2>2. \A i \in DOMAIN page.shown : page.shown[i] \in Message
      <3>1. page.shown \in Seq(Message)
        BY DEF Typed, PageTyped, Page
      <3> QED
        BY <3>1, LenProperties, ElementOfSeq
    <2>3. run.at \in {"idle", "waiting", "reading", "rereading", "refetching"}
          /\ poll.at \in {"off", "resting", "reading"} /\ poll.misses \in 0..1
      BY Zenon DEF Typed, PageTyped, Run, Poll
    <2> QED
      BY <2>1, <2>2, <2>3 DEF TypeOK, Typed, ServerTyped, NetTyped, Owned
  <1> QED
    BY <1>1, TypedInit, TypedStep, PTL DEF Spec
-----------------------------------------------------------------------------
\* The server's thread, and the turns that change it.

\* A reply stands right after its question, and a question stands once.
Chained ==
    /\ \A i \in DOMAIN thread : thread[i].role = "user" => thread[i] = Question(thread[i].of)
    /\ \A i \in DOMAIN thread : thread[i].role = "assistant" =>
         i - 1 \in DOMAIN thread /\ thread[i - 1] = Question(thread[i].of) /\ ~thread[i].local
    /\ \A i, j \in DOMAIN thread :
         thread[i].role = "user" /\ thread[j].role = "user" /\ thread[i].of = thread[j].of
           => i = j
Open ==
    /\ conv # "open" => thread = <<>> /\ running = Nobody
    /\ running # Nobody => EndsWith(thread, running.of)
Numbered ==
    /\ \A m \in ever : m.by <= turns.last /\ m.of <= turns.last
    /\ running.turn <= turns.last /\ run.turn <= turns.last
    /\ \A q \in requests : q.turn <= turns.last

\* A turn is asked for once, and nothing is stored of it before it is accepted.
Fresh ==
    /\ \A q \in requests :
         /\ \A m \in ever : m.by # q.turn /\ m.of # q.turn
         /\ running.turn # q.turn
         /\ q.kind = "send" <=> q.after = q.turn
    /\ \A p, q \in requests : p.turn = q.turn => p = q
    /\ running # Nobody => \A m \in ever : m.role = "assistant" => m.by # running.turn
Served == Chained /\ Open /\ Numbered /\ Fresh

LEMMA NextTurnFacts ==
  /\ \A n \in Turn : n + 1 # n /\ n <= n + 1 /\ n + 1 <= n + 1
  /\ \A n \in Turn, t \in Turn \cup {None} : t <= n => t <= n + 1 /\ t # n + 1
  BY BoundsAssumption DEF Turn, None

LEMMA LastPlace ==
  ASSUME ServerTyped, thread # <<>>
  PROVE  /\ Len(thread) \in DOMAIN thread /\ Last(thread) = thread[Len(thread)]
         /\ DOMAIN thread = 1 .. Len(thread) /\ Len(thread) \in Nat \ {0}
         /\ Last(thread) \in ToSet(thread) /\ Last(thread) \in Message
  <1>1. DOMAIN thread = 1 .. Len(thread) /\ Len(thread) \in Nat \ {0}
    BY LenProperties, EmptySeq DEF ServerTyped
  <1>2. Len(thread) \in DOMAIN thread
    BY <1>1
  <1> QED
    BY <1>1, <1>2, ElementOfSeq DEF ServerTyped, Last, ToSet

\* A question at the end has no reply.
LEMMA NoReplyAtEnd ==
  ASSUME NEW t \in Seq(Message), NEW q, EndsWith(t, q),
         \A i \in DOMAIN t : t[i].role = "assistant" =>
           i - 1 \in DOMAIN t /\ t[i - 1] = Question(t[i].of),
         \A i, j \in DOMAIN t :
           t[i].role = "user" /\ t[j].role = "user" /\ t[i].of = t[j].of => i = j
  PROVE  /\ Question(q) \in ToSet(t)
         /\ \A i \in DOMAIN t : t[i].role = "assistant" => t[i].of # q
  <1>1. t # <<>> /\ Last(t) = Question(q)
    BY DEF EndsWith
  <1>2. DOMAIN t = 1 .. Len(t) /\ Len(t) \in Nat \ {0}
    BY <1>1, LenProperties, EmptySeq
  <1>3. Len(t) \in DOMAIN t /\ t[Len(t)] = Question(q)
    BY <1>1, <1>2 DEF Last
  <1>4. ASSUME NEW i \in DOMAIN t, t[i].role = "assistant", t[i].of = q
        PROVE  FALSE
    <2>1. i - 1 \in DOMAIN t /\ t[i - 1] = Question(q)
      BY <1>4
    <2>2. i - 1 = Len(t)
      BY <1>3, <2>1 DEF Question
    <2> QED
      BY <1>2, <2>2
  <1> QED
    BY <1>3, <1>4 DEF ToSet

LEMMA EndUnanswered ==
  ASSUME ServerTyped, Chained, NEW q, EndsWith(thread, q)
  PROVE  /\ Question(q) \in ToSet(thread)
         /\ \A i \in DOMAIN thread : thread[i].role = "assistant" => thread[i].of # q
  BY NoReplyAtEnd DEF ServerTyped, Chained

LEMMA AskedThread ==
  ASSUME ServerTyped, Chained, NEW r \in Turn, \A m \in ever : m.of # r,
         thread' = Append(thread, Question(r))
  PROVE  Chained' /\ EndsWith(thread', r)
  <1> DEFINE a == Append(thread, Question(r))
  <1>1. Question(r) \in Message
    BY MessageFacts
  <1>2. /\ a # <<>> /\ Last(a) = Question(r)
        /\ DOMAIN thread \subseteq DOMAIN a
        /\ \A i \in DOMAIN thread : a[i] = thread[i]
        /\ \A i \in DOMAIN a : i \notin DOMAIN thread => i = Len(thread) + 1 /\ a[i] = Question(r)
    BY <1>1, AppendedThread DEF ServerTyped
  <1>3. thread' = a
    OBVIOUS
  <1> HIDE DEF a
  <1>4. \A i \in DOMAIN thread : thread[i].of # r
    BY ThreadFacts
  <1>5. Question(r).role = "user" /\ Question(r).of = r
    BY DEF Question
  <1>6. \A i \in DOMAIN a : a[i].role = "user" => a[i] = Question(a[i].of)
    BY <1>2, <1>5 DEF Chained
  <1>7. \A i \in DOMAIN a : a[i].role = "assistant" =>
           i - 1 \in DOMAIN a /\ a[i - 1] = Question(a[i].of) /\ ~a[i].local
    BY <1>2, <1>5 DEF Chained
  <1>8. \A i, j \in DOMAIN a :
           a[i].role = "user" /\ a[j].role = "user" /\ a[i].of = a[j].of => i = j
    BY <1>2, <1>4, <1>5 DEF Chained
  <1> QED
    BY <1>2, <1>3, <1>6, <1>7, <1>8 DEF Chained, EndsWith

LEMMA RepliedThread ==
  ASSUME ServerTyped, Chained, NEW q \in Turn, NEW r \in Turn, EndsWith(thread, q),
         thread' = Append(thread, Answer(q, r))
  PROVE  Chained'
  <1> DEFINE a == Append(thread, Answer(q, r))
  <1>1. Answer(q, r) \in Message
    BY MessageFacts
  <1>2. /\ DOMAIN thread \subseteq DOMAIN a
        /\ \A i \in DOMAIN thread : a[i] = thread[i]
        /\ \A i \in DOMAIN a : i \notin DOMAIN thread => i = Len(thread) + 1 /\ a[i] = Answer(q, r)
    BY <1>1, AppendedThread DEF ServerTyped
  <1>3. thread' = a
    OBVIOUS
  <1> HIDE DEF a
  <1>4. /\ Len(thread) \in DOMAIN thread /\ thread[Len(thread)] = Question(q)
        /\ Len(thread) \in Nat
    BY LastPlace DEF EndsWith
  <1>5. (Len(thread) + 1) - 1 = Len(thread)
    BY <1>4
  <1>6. Answer(q, r).role = "assistant" /\ Answer(q, r).of = q /\ ~Answer(q, r).local
    BY DEF Answer
  <1>7. \A i \in DOMAIN a : a[i].role = "user" => a[i] = Question(a[i].of)
    BY <1>2, <1>6 DEF Chained
  <1>8. \A i \in DOMAIN a : a[i].role = "assistant" =>
           i - 1 \in DOMAIN a /\ a[i - 1] = Question(a[i].of) /\ ~a[i].local
    BY <1>2, <1>4, <1>5, <1>6 DEF Chained
  <1>9. \A i, j \in DOMAIN a :
           a[i].role = "user" /\ a[j].role = "user" /\ a[i].of = a[j].of => i = j
    BY <1>2, <1>6 DEF Chained
  <1> QED
    BY <1>3, <1>7, <1>8, <1>9 DEF Chained

\* The last reply goes, and the thread ends with its question.
LEMMA StrippedThread ==
  ASSUME ServerTyped, Chained, NEW q, Answered(thread, q), thread' = Front(thread)
  PROVE  /\ Chained' /\ EndsWith(thread', q)
         /\ thread # <<>> /\ Last(thread).role = "assistant" /\ Last(thread).of = q
  <1>1. thread # <<>>
    BY EmptySeq DEF ServerTyped, Answered
  <1>2. /\ Len(thread) \in DOMAIN thread /\ Last(thread) = thread[Len(thread)]
        /\ DOMAIN thread = 1 .. Len(thread) /\ Len(thread) \in Nat \ {0}
    BY <1>1, LastPlace
  <1>3. /\ \A i \in DOMAIN Front(thread) : i \in DOMAIN thread /\ Front(thread)[i] = thread[i] /\ i # Len(thread)
        /\ \A i \in DOMAIN thread : i = Len(thread) \/ i \in DOMAIN Front(thread)
        /\ Front(thread) \in Seq(Message) /\ Len(Front(thread)) = Len(thread) - 1
    BY <1>1, CutThread DEF ServerTyped
  <1>4. Last(thread).role = "assistant" /\ EndsWith(Front(thread), q)
    BY DEF Answered
  <1> DEFINE f == Front(thread)
  <1>5. thread' = f
    OBVIOUS
  <1>6. f[Len(f)] = Question(q) /\ Len(f) \in DOMAIN f
    <2>1. f # <<>> /\ Last(f) = Question(q)
      BY <1>4 DEF EndsWith
    <2>2. Len(f) \in 1 .. Len(f) /\ DOMAIN f = 1 .. Len(f)
      BY <1>3, <2>1, EmptySeq, LenProperties
    <2> QED
      BY <2>1, <2>2 DEF Last
  <1> HIDE DEF f
  <1>7. thread[Len(thread) - 1] = Question(q)
    BY <1>3, <1>6 DEF f
  <1>8. Last(thread).of = q
    <2>1. thread[Len(thread) - 1] = Question(thread[Len(thread)].of)
      BY <1>2, <1>4 DEF Chained
    <2> QED
      BY <1>2, <1>7, <2>1 DEF Question
  <1>9. \A i \in DOMAIN f : i \in DOMAIN thread /\ f[i] = thread[i] /\ i # Len(thread)
    BY <1>3 DEF f
  <1>10. \A i \in DOMAIN f : i - 1 \in DOMAIN thread => i - 1 \in DOMAIN f
    BY <1>2, <1>3, <1>9 DEF f
  <1>11. \A i \in DOMAIN f : f[i].role = "user" => f[i] = Question(f[i].of)
    BY <1>9 DEF Chained
  <1>12. \A i \in DOMAIN f : f[i].role = "assistant" =>
           i - 1 \in DOMAIN f /\ f[i - 1] = Question(f[i].of) /\ ~f[i].local
    BY <1>9, <1>10 DEF Chained
  <1>13. \A i, j \in DOMAIN f :
           f[i].role = "user" /\ f[j].role = "user" /\ f[i].of = f[j].of => i = j
    BY <1>9 DEF Chained
  <1>14. Chained'
    BY <1>5, <1>11, <1>12, <1>13 DEF Chained
  <1> QED
    BY <1>1, <1>4, <1>5, <1>8, <1>14 DEF f

LEMMA AcceptFacts ==
  ASSUME NEW q, RefusalOf(q) = "none"
  PROVE  /\ conv # "deleted" /\ running = Nobody
         /\ q.kind = "retry" => Answered(thread, q.after) \/ EndsWith(thread, q.after)
  BY DEF RefusalOf

\* The thread changes by a question, a reply, or the loss of the last reply.
LEMMA AcceptedThread ==
  ASSUME Typed, Served, NEW q \in requests, Accept(q)
  PROVE  /\ Chained' /\ EndsWith(thread', q.after) /\ conv' = "open"
         /\ running' = [turn |-> q.turn, of |-> q.after]
         /\ ever' \subseteq ever \cup {Question(q.turn)}
         /\ q.kind = "retry" => ever' = ever
  <1>1. q \in RequestType /\ RefusalOf(q) = "none"
    BY DEF Typed, NetTyped, Accept
  <1>2. conv # "deleted" /\ running = Nobody
        /\ (q.kind = "retry" => Answered(thread, q.after) \/ EndsWith(thread, q.after))
    BY <1>1, AcceptFacts
  <1>3. CASE q.kind = "send"
    <2>1. thread' = Append(thread, Question(q.turn)) /\ ever' = ever \cup {Question(q.turn)}
      BY <1>3 DEF Accept, Stores
    <2>2. q.after = q.turn /\ q.turn \in Turn /\ \A m \in ever : m.of # q.turn
      BY <1>1, <1>3 DEF Served, Fresh, RequestType
    <2>3. Chained' /\ EndsWith(thread', q.after)
      BY <2>1, <2>2, AskedThread DEF Typed, Served
    <2> QED
      BY <1>3, <2>1, <2>2, <2>3 DEF Accept
  <1>4. CASE q.kind # "send" /\ Answered(thread, q.after)
    <2>1. thread' = Front(thread) /\ ever' = ever
      BY <1>4 DEF Accept, Replaced
    <2>2. Chained' /\ EndsWith(thread', q.after)
      BY <1>4, <2>1, StrippedThread DEF Typed, Served
    <2> QED
      BY <2>1, <2>2 DEF Accept
  <1>5. CASE q.kind # "send" /\ ~Answered(thread, q.after)
    <2>1. thread' = thread /\ ever' = ever /\ q.kind = "retry"
      BY <1>1, <1>5 DEF Accept, RequestType
    <2>2. EndsWith(thread', q.after) /\ Chained'
      BY <1>2, <1>5, <2>1 DEF Served, Chained
    <2> QED
      BY <2>1, <2>2 DEF Accept
  <1> QED
    BY <1>3, <1>4, <1>5

LEMMA ServedSame ==
  ASSUME Typed, Served, UNCHANGED serverVars, requests' \subseteq requests,
         turns'.last = turns.last, run'.turn = run.turn
  PROVE  Served'
  <1>1. Chained' /\ Open'
    BY DEF Served, Chained, Open, serverVars
  <1>2. Numbered'
    BY DEF Served, Numbered, serverVars
  <1>3. Fresh'
    BY DEF Served, Fresh, serverVars
  <1> QED
    BY <1>1, <1>2, <1>3 DEF Served

LEMMA ServedAccept ==
  ASSUME Typed, Served, NEW q \in requests, Accept(q)
  PROVE  Served'
  <1>1. /\ q \in RequestType /\ turns' = turns /\ run' = run /\ requests' = requests \ {q}
        /\ q.turn <= turns.last /\ q.turn \in Turn
    BY DEF Typed, NetTyped, Accept, pageVars, Served, Numbered, RequestType
  <1>2. /\ Chained' /\ EndsWith(thread', q.after) /\ conv' = "open"
        /\ running' = [turn |-> q.turn, of |-> q.after]
        /\ ever' \subseteq ever \cup {Question(q.turn)}
    BY AcceptedThread
  <1>3. Question(q.turn).by = q.turn /\ Question(q.turn).of = q.turn /\ Question(q.turn).role = "user"
    BY DEF Question
  <1>4. Open'
    BY <1>2 DEF Open
  <1>5. Numbered'
    <2>1. \A m \in ever' : m.by <= turns.last /\ m.of <= turns.last
      BY <1>1, <1>2, <1>3, Zenon DEF Served, Numbered
    <2> QED
      BY <1>1, <1>2, <2>1 DEF Served, Numbered
  <1>6. Fresh'
    <2>1. \A p \in requests' : p \in requests /\ p.turn # q.turn
      BY <1>1 DEF Served, Fresh
    <2>2. \A m \in ever' : m \in ever \/ m = Question(q.turn)
      BY <1>2
    <2>3. \A p \in requests' : \A m \in ever' : m.by # p.turn /\ m.of # p.turn
      BY <1>3, <2>1, <2>2 DEF Served, Fresh
    <2>4. \A m \in ever' : m.role = "assistant" => m.by # q.turn
      BY <1>3, <2>2 DEF Served, Fresh
    <2> QED
      BY <1>2, <2>1, <2>3, <2>4 DEF Served, Fresh
  <1> QED
    BY <1>2, <1>4, <1>5, <1>6 DEF Served

LEMMA ServedReplies ==
  ASSUME Typed, Served, SaveReply \/ DropReply
  PROVE  Served'
  <1>1. turns' = turns /\ run' = run /\ requests' = requests /\ running' = Nobody /\ running # Nobody
        /\ conv' = conv
    BY DEF SaveReply, DropReply, pageVars
  <1>2. running.turn \in Turn /\ running.of \in Turn /\ Nobody.turn = None
    BY <1>1 DEF Typed, ServerTyped, Nobody
  <1>3. EndsWith(thread, running.of) /\ conv = "open"
    BY <1>1 DEF Served, Open
  <1>4. Question(running.of) \in ever
    BY <1>3, EndUnanswered DEF Typed, ServerTyped, Served
  <1>5. \A m \in ever' : m \in ever \/ (m.by = running.turn /\ m.of = running.of)
    BY DEF SaveReply, DropReply, Stores, Answer
  <1>6. Chained'
    <2>1. CASE SaveReply
      BY <1>2, <1>3, <2>1, RepliedThread DEF SaveReply, Stores, Typed, Served
    <2>2. CASE DropReply
      BY <2>2 DEF DropReply, Served, Chained
    <2> QED
      BY <2>1, <2>2
  <1>7. Open'
    BY <1>1, <1>3 DEF Open
  <1>8. \A t \in Turn : None <= t
    BY DEF Turn, None
  <1>9. Question(running.of).of = running.of
    BY DEF Question
  <1>10. Numbered'
    <2>1. running.of <= turns.last /\ running.turn <= turns.last /\ turns.last \in Turn
      BY <1>4, <1>9, Zenon DEF Served, Numbered, Typed, NetTyped
    <2>2. \A m \in ever' : m.by <= turns.last /\ m.of <= turns.last
      BY <1>5, <2>1, Zenon DEF Served, Numbered
    <2> QED
      BY <1>1, <1>2, <1>8, <2>1, <2>2, Zenon DEF Served, Numbered
  <1>11. Fresh'
    <2>1. \A p \in requests : running.turn # p.turn /\ running.of # p.turn /\ p.turn # None
      BY <1>4, <1>9, TurnFacts DEF Served, Fresh, Typed, NetTyped, RequestType
    <2>2. \A p \in requests : \A m \in ever' : m.by # p.turn /\ m.of # p.turn
      BY <1>5, <2>1 DEF Served, Fresh
    <2> QED
      BY <1>1, <1>2, <2>1, <2>2 DEF Served, Fresh
  <1> QED
    BY <1>6, <1>7, <1>10, <1>11 DEF Served

LEMMA ServedDelete ==
  ASSUME Typed, Served, Delete
  PROVE  Served'
  <1>1. /\ turns' = turns /\ run' = run /\ requests' = requests /\ running' = Nobody
        /\ ever' = ever /\ conv' = "deleted" /\ thread' = <<>> /\ Nobody.turn = None
    BY DEF Delete, pageVars, Nobody
  <1>2. Chained' /\ Open'
    BY <1>1 DEF Chained, Open
  <1>3. \A t \in Turn : None <= t
    BY DEF Turn, None
  <1>4. Numbered'
    <2>1. turns.last \in Turn
      BY DEF Typed, NetTyped
    <2> QED
      BY <1>1, <1>3, <2>1, Zenon DEF Served, Numbered
  <1>5. Fresh'
    <2>1. \A p \in requests : p.turn # None
      BY TurnFacts DEF Typed, NetTyped, RequestType
    <2> QED
      BY <1>1, <2>1 DEF Served, Fresh
  <1> QED
    BY <1>2, <1>4, <1>5 DEF Served

\* What is there was there before the next turn.
LEMMA Before ==
  ASSUME Typed, Served
  PROVE  /\ \A m \in ever : m.by <= NextTurn /\ m.of <= NextTurn /\ m.by # NextTurn /\ m.of # NextTurn
         /\ running.turn <= NextTurn /\ run.turn <= NextTurn
         /\ running.turn # NextTurn /\ run.turn # NextTurn
         /\ \A q \in requests : q.turn <= NextTurn /\ q.turn # NextTurn
         /\ NextTurn <= NextTurn /\ turns.last <= NextTurn
  <1>1. turns.last \in Turn /\ running.turn \in Turn \cup {None} /\ run.turn \in Turn \cup {None}
    BY DEF Typed, NetTyped, ServerTyped, PageTyped, Run, Nobody
  <1>2. \A m \in ever : m.by \in Turn /\ m.of \in Turn
    BY MessageFacts DEF Typed, ServerTyped
  <1>3. \A q \in requests : q.turn \in Turn
    BY DEF Typed, NetTyped, RequestType
  <1> QED
    BY <1>1, <1>2, <1>3, NextTurnFacts, Zenon DEF Served, Numbered, NextTurn

LEMMA OtherThread ==
  ASSUME Typed, Served, OtherSends \/ OtherRetries
  PROVE  \E q \in Turn :
         /\ Chained' /\ EndsWith(thread', q) /\ running' = [turn |-> NextTurn, of |-> q]
         /\ \A m \in ever' : m \in ever \/ m = Question(NextTurn)
         /\ conv = "open" /\ conv' = "open" /\ turns'.last = NextTurn
         /\ NextTurn \in Turn
  <1>1. NextTurn \in Turn /\ turns'.last = NextTurn
    BY TurnFacts DEF OtherSends, OtherRetries, OtherActs, Typed, NetTyped, NextTurn
  <1>2. CASE OtherSends
    <2>1. thread' = Append(thread, Question(NextTurn)) /\ ever' = ever \cup {Question(NextTurn)}
      BY <1>2 DEF OtherSends, Stores
    <2>2. Chained' /\ EndsWith(thread', NextTurn)
      BY <1>1, <2>1, AskedThread, Before DEF Typed, Served
    <2> QED
      BY <1>1, <1>2, <2>1, <2>2 DEF OtherSends, OtherActs
  <1>3. CASE OtherRetries
    <2>1. PICK q \in Turn :
            /\ EndsWith(thread, q) \/ Answered(thread, q)
            /\ running' = [turn |-> NextTurn, of |-> q]
            /\ thread' = IF Answered(thread, q) THEN Front(thread) ELSE thread
      BY <1>3 DEF OtherRetries
    <2>2. Chained' /\ EndsWith(thread', q)
      <3>1. CASE Answered(thread, q)
        BY <2>1, <3>1, StrippedThread DEF Typed, Served
      <3>2. CASE ~Answered(thread, q)
        BY <2>1, <3>2 DEF Served, Chained
      <3> QED
        BY <3>1, <3>2
    <2> QED
      BY <1>1, <1>3, <2>1, <2>2 DEF OtherRetries, OtherActs
  <1> QED
    BY <1>2, <1>3

LEMMA ServedOthers ==
  ASSUME Typed, Served, OtherSends \/ OtherRetries
  PROVE  Served'
  <1>1. PICK q \in Turn :
         /\ Chained' /\ EndsWith(thread', q) /\ running' = [turn |-> NextTurn, of |-> q]
         /\ \A m \in ever' : m \in ever \/ m = Question(NextTurn)
         /\ conv' = "open" /\ turns'.last = NextTurn
    BY OtherThread
  <1>2. requests' = requests /\ run' = run
    BY DEF OtherSends, OtherRetries, netVars, pageVars
  <1>3. Question(NextTurn).by = NextTurn /\ Question(NextTurn).of = NextTurn
        /\ Question(NextTurn).role = "user"
    BY DEF Question
  <1>4. Open'
    BY <1>1 DEF Open
  <1>5. Numbered'
    BY <1>1, <1>2, <1>3, Before, Zenon DEF Numbered
  <1>6. Fresh'
    <2>1. \A p \in requests : \A m \in ever' : m.by # p.turn /\ m.of # p.turn
      BY <1>1, <1>3, Before DEF Served, Fresh
    <2>2. \A m \in ever' : m.role = "assistant" => m.by # NextTurn
      BY <1>1, <1>3, Before
    <2> QED
      BY <1>1, <1>2, <2>1, <2>2, Before DEF Served, Fresh
  <1> QED
    BY <1>1, <1>4, <1>5, <1>6 DEF Served

LEMMA ServedRequest ==
  ASSUME Typed, Served, NEW kind, NEW after, NEW hidden, Request(kind, after, hidden),
         kind = "send" <=> after = NextTurn
  PROVE  Served'
  <1> DEFINE q == [kind |-> kind, turn |-> NextTurn, after |-> after, replace |-> hidden # <<>>]
  <1>1. /\ UNCHANGED serverVars /\ turns'.last = NextTurn /\ run'.turn = NextTurn
        /\ requests' = requests \cup {q}
    BY DEF Request, NoRun, Typed, NetTyped
  <1>2. q.turn = NextTurn /\ q.kind = kind /\ q.after = after
    OBVIOUS
  <1> HIDE DEF q
  <1>3. Chained' /\ Open'
    BY <1>1 DEF Served, Chained, Open, serverVars
  <1>4. Numbered'
    BY <1>1, <1>2, Before, Zenon DEF Numbered, serverVars
  <1>5. Fresh'
    BY <1>1, <1>2, Before DEF Served, Fresh, serverVars
  <1> QED
    BY <1>3, <1>4, <1>5 DEF Served
-----------------------------------------------------------------------------
\* What the page shows, and where it comes from.

OwnReply == Answer(run.after, run.turn)
Source(m) ==
    \/ m \in ToSet(page.shown) \cup ToSet(run.hidden)
    \/ \E k \in {"load", "poll", "run"} : m \in ToSet(reads[k].thread)
    \/ m = Own(OwnReply) /\ run.turn # None /\ (run.at = "rereading" \/ answer = "done")
Sources ==
    /\ \A m \in ToSet(page'.shown) : Source(m)
    /\ \A m \in ToSet(run'.hidden) : m \in ToSet(page.shown) \cup ToSet(run.hidden)
    /\ \A k \in {"load", "poll", "run"} : \A m \in ToSet(reads'[k].thread) :
         m \in ToSet(reads[k].thread) \cup ToSet(thread)
    /\ run'.turn = run.turn /\ run'.after = run.after

LEMMA EndsShape ==
  ASSUME NEW p \in Page, Ends(p)
  PROVE  /\ page'.shown = p.shown /\ page'.known = p.known /\ page'.still = p.still
         /\ page'.error = p.error /\ page'.notice = p.notice /\ page'.limited = p.limited
         /\ ~page'.loading /\ ~page'.sending /\ ~page'.streaming
         /\ run'.at = "idle" /\ run'.kind = "send" /\ run'.hidden = <<>>
         /\ run'.turn = run.turn /\ run'.after = run.after
         /\ answer' = "none"
  BY DEF Ends, RunOver, NoRun, Page

LEMMA HandsOverShape ==
  ASSUME PageTyped, NEW kind, HandsOver(kind)
  PROVE  /\ page'.shown = page.shown /\ page'.known = page.known /\ page'.still
         /\ page'.error = page.error /\ page'.notice = page.notice /\ page'.limited = page.limited
         /\ page'.loading = page.loading /\ page'.sending = page.sending /\ ~page'.streaming
         /\ run'.at = "idle" /\ run'.kind = "send" /\ run'.hidden = <<>>
         /\ run'.turn = run.turn /\ run'.after = run.after
         /\ answer' = "none"
         /\ poll'.at = "resting" /\ poll'.kind = kind /\ poll'.misses = 0
  <1>1. page \in Page
    BY DEF PageTyped
  <1> QED
    BY <1>1 DEF HandsOver, RunOver, NoRun, NoPoll, Page

LEMMA NoneIn == ToSet(<<>>) = {}
  BY DEF ToSet

LEMMA ReadsKept ==
  ASSUME PageTyped,
         \/ UNCHANGED reads
         \/ \E k \in {"load", "poll", "run"} : StopsReading(k) \/ Asks(k)
  PROVE  \A k \in {"load", "poll", "run"} : \A m \in ToSet(reads'[k].thread) :
           m \in ToSet(reads[k].thread) \cup ToSet(thread)
  <1>1. NoRead.thread = <<>> /\ [NoRead EXCEPT !.at = "asked"].thread = <<>>
    BY DEF NoRead
  <1>2. \A k \in {"load", "poll", "run"} : reads'[k] = reads[k] \/ reads'[k].thread = <<>>
    BY <1>1 DEF PageTyped, StopsReading, Asks
  <1> QED
    BY <1>2, NoneIn

\* A run ends with p: what p shows is what counts.
LEMMA EndsSources ==
  ASSUME Typed, NEW p \in Page, Ends(p), \A m \in ToSet(p.shown) : Source(m),
         UNCHANGED reads \/ StopsReading("run")
  PROVE  Sources
  <1>1. page'.shown = p.shown /\ run'.hidden = <<>> /\ run'.turn = run.turn /\ run'.after = run.after
    BY EndsShape
  <1>2. \A k \in {"load", "poll", "run"} : \A m \in ToSet(reads'[k].thread) :
           m \in ToSet(reads[k].thread) \cup ToSet(thread)
    BY ReadsKept DEF Typed
  <1> QED
    BY <1>1, <1>2, NoneIn DEF Sources

LEMMA HandsOverSources ==
  ASSUME Typed, NEW kind, HandsOver(kind), UNCHANGED reads \/ StopsReading("run")
  PROVE  Sources
  <1>1. page'.shown = page.shown /\ run'.hidden = <<>> /\ run'.turn = run.turn /\ run'.after = run.after
    BY HandsOverShape DEF Typed
  <1>2. \A k \in {"load", "poll", "run"} : \A m \in ToSet(reads'[k].thread) :
           m \in ToSet(reads[k].thread) \cup ToSet(thread)
    BY ReadsKept DEF Typed
  <1> QED
    BY <1>1, <1>2, NoneIn DEF Sources, Source

\* The page shows another thread, at most, and its run goes on.
LEMMA ShowsSources ==
  ASSUME Typed, \A m \in ToSet(page'.shown) : Source(m),
         run'.hidden = run.hidden /\ run'.turn = run.turn /\ run'.after = run.after,
         \/ UNCHANGED reads
         \/ \E k \in {"load", "poll", "run"} : StopsReading(k) \/ Asks(k)
  PROVE  Sources
  <1>1. \A k \in {"load", "poll", "run"} : \A m \in ToSet(reads'[k].thread) :
           m \in ToSet(reads[k].thread) \cup ToSet(thread)
    BY ReadsKept DEF Typed
  <1> QED
    BY <1>1 DEF Sources

LEMMA StreamSources ==
  ASSUME Typed, Prelude \/ SendDone \/ RetryDone \/ Reread \/ ReplyFailed \/ ConnectionLost
  PROVE  Sources
  <1>0. /\ page \in Page
        /\ run.at # "idle" => run.turn # None
        /\ \A m \in ToSet(page.shown) : Source(m)
    BY DEF Typed, PageTyped, Source
  <1>1. CASE Prelude \/ RetryDone
    <2>1. page'.shown = page.shown /\ run'.hidden = run.hidden
          /\ run'.turn = run.turn /\ run'.after = run.after
      BY <1>0, <1>1 DEF Prelude, RetryDone, Page, Run, Typed, PageTyped
    <2>2. UNCHANGED reads \/ Asks("run")
      BY <1>1 DEF Prelude, RetryDone
    <2> QED
      BY <1>0, <2>1, <2>2, ShowsSources
  <1>2. NotedStop(page) \in Page /\ NotedStop(page).shown = page.shown
    BY <1>0, PageShapes DEF NotedStop, Page
  <1>3. run.turn # None /\ (run.at = "rereading" \/ answer = "done") =>
          /\ Committed(NotedStop(page)) \in Page
          /\ \A m \in ToSet(Committed(NotedStop(page)).shown) : Source(m)
    BY <1>0, <1>2, CommittedShape DEF Typed, Source, OwnReply
  <1>4. CASE SendDone
    <2>1. run.turn # None /\ answer = "done" /\ Ends(Committed(NotedStop(page))) /\ UNCHANGED reads
      BY <1>0, <1>4 DEF SendDone
    <2> QED
      BY <1>3, <2>1, EndsSources
  <1>5. CASE Reread
    <2>1. run.turn # None /\ run.at = "rereading" /\ StopsReading("run")
      BY <1>0, <1>5 DEF Reread
    <2>2. CASE Ends(Committed(NotedStop(page)))
      BY <1>3, <2>1, <2>2, EndsSources
    <2>3. CASE Ends([NotedStop(page) EXCEPT !.shown = reads["run"].thread])
      <3>1. reads["run"].thread \in Seq(Message)
        BY DEF Typed, PageTyped, Read
      <3>2. /\ [NotedStop(page) EXCEPT !.shown = reads["run"].thread] \in Page
            /\ [NotedStop(page) EXCEPT !.shown = reads["run"].thread].shown = reads["run"].thread
        BY <1>2, <3>1 DEF Page
      <3>3. \A m \in ToSet(reads["run"].thread) : Source(m)
        BY DEF Source
      <3> QED
        BY <2>1, <2>3, <3>2, <3>3, EndsSources
    <2> QED
      BY <1>5, <2>2, <2>3 DEF Reread
  <1>6. CASE ReplyFailed
    <2>1. Ends(Cut(page)) /\ UNCHANGED reads
      BY <1>6 DEF ReplyFailed
    <2> QED
      BY <1>0, <2>1, CutShape, EndsSources
  <1>7. CASE ConnectionLost
    <2>1. /\ \/ \E kind \in {"settle", "outcome"} : HandsOver(kind)
             \/ Ends([page EXCEPT !.error = "interrupted"])
          /\ UNCHANGED reads
      BY <1>7 DEF ConnectionLost, HandsOver
    <2>2. /\ [page EXCEPT !.error = "interrupted"] \in Page
          /\ [page EXCEPT !.error = "interrupted"].shown = page.shown
      BY <1>0 DEF Page
    <2> QED
      BY <1>0, <2>1, <2>2, EndsSources, HandsOverSources
  <1> QED
    BY <1>1, <1>4, <1>5, <1>6, <1>7

LEMMA RefusalSources ==
  ASSUME Typed, NetworkFails \/ Limited \/ SendRefused \/ RetryRefused \/ Refetch \/ Refetched
  PROVE  Sources
  <1>0. /\ page \in Page /\ run \in Run /\ \A m \in ToSet(page.shown) : Source(m)
        /\ \A m \in ToSet(run.hidden) : Source(m)
    BY DEF Typed, PageTyped, Source
  <1>1. \A p \in Page : /\ [p EXCEPT !.error = "refused"] \in Page
                        /\ [p EXCEPT !.limited = TRUE] \in Page
                        /\ [p EXCEPT !.error = "refused"].shown = p.shown
                        /\ [p EXCEPT !.limited = TRUE].shown = p.shown
    BY DEF Page
  <1>2. Dropped(page) \in Page /\ \A m \in ToSet(Dropped(page).shown) : Source(m)
    <2>1. PICK t \in Seq(Message) : Dropped(page) = [page EXCEPT !.shown = t]
                                    /\ ToSet(t) \subseteq ToSet(page.shown)
      BY <1>0, DroppedShape
    <2>2. Dropped(page) \in Page /\ Dropped(page).shown = t
      BY <1>0, <2>1 DEF Page
    <2> QED
      BY <1>0, <2>1, <2>2
  <1>3. ASSUME NEW p \in Page, \A m \in ToSet(p.shown) : Source(m)
        PROVE  RestoreHidden(p) \in Page /\ \A m \in ToSet(RestoreHidden(p).shown) : Source(m)
    <2>1. PICK t \in Seq(Message) : RestoreHidden(p) = [p EXCEPT !.shown = t]
                                    /\ ToSet(t) \subseteq ToSet(p.shown) \cup ToSet(run.hidden)
      BY <1>0, RestoredShape
    <2>2. RestoreHidden(p) \in Page /\ RestoreHidden(p).shown = t
      BY <2>1 DEF Page
    <2> QED
      BY <1>0, <1>3, <2>1, <2>2
  <1>4. CASE NetworkFails
    <2>1. /\ \/ \E kind \in {"confirm", "outcome"} : HandsOver(kind)
             \/ Ends([page EXCEPT !.error = "refused"])
          /\ UNCHANGED reads
      BY <1>4 DEF NetworkFails
    <2> QED
      BY <1>0, <1>1, <2>1, EndsSources, HandsOverSources
  <1>5. CASE Limited
    <2>1. Ends([RestoreHidden(Dropped(page)) EXCEPT !.limited = TRUE]) /\ UNCHANGED reads
      BY <1>5 DEF Limited
    <2> QED
      BY <1>1, <1>2, <1>3, <2>1, EndsSources
  <1>6. CASE SendRefused
    <2>1. /\ \/ Ends([Dropped(page) EXCEPT !.error = "refused"])
             \/ Ends([page EXCEPT !.error = "refused"])
          /\ UNCHANGED reads
      BY <1>6 DEF SendRefused
    <2> QED
      BY <1>0, <1>1, <1>2, <2>1, EndsSources
  <1>7. CASE RetryRefused
    <2>1. /\ \/ \E kind \in {"confirm", "settle"} : HandsOver(kind)
             \/ Ends([RestoreHidden(page) EXCEPT !.error = "refused"])
          /\ UNCHANGED reads
      BY <1>7 DEF RetryRefused
    <2> QED
      BY <1>0, <1>1, <1>3, <2>1, EndsSources, HandsOverSources
  <1>8. CASE Refetch
    <2>1. page' = page /\ run'.hidden = run.hidden
          /\ run'.turn = run.turn /\ run'.after = run.after /\ Asks("run")
      BY <1>0, <1>8 DEF Refetch, Run
    <2> QED
      BY <1>0, <2>1, ShowsSources
  <1>9. CASE Refetched
    <2>1. /\ \/ HandsOver("settle")
             \/ Ends(SettleFree(page, reads["run"].thread))
          /\ StopsReading("run")
      BY <1>9 DEF Refetched
    <2>2. reads["run"].thread \in Seq(Message) /\ \A m \in ToSet(reads["run"].thread) : Source(m)
      BY DEF Typed, PageTyped, Read, Source
    <2>3. SettleFree(page, reads["run"].thread) \in Page
          /\ SettleFree(page, reads["run"].thread).shown = reads["run"].thread
      BY <1>0, <2>2, SettleFreeShape
    <2> QED
      BY <2>1, <2>2, <2>3, EndsSources, HandsOverSources
  <1> QED
    BY <1>4, <1>5, <1>6, <1>7, <1>8, <1>9

LEMMA PollSources ==
  ASSUME Typed, LoadLands \/ LoadFails \/ PollSteps \/ Stop \/ StopSteps
  PROVE  Sources
  <1>0. /\ page \in Page /\ \A m \in ToSet(page.shown) : Source(m)
        /\ \A k \in {"load", "poll", "run"} :
             /\ reads[k].thread \in Seq(Message)
             /\ \A m \in ToSet(reads[k].thread) : Source(m)
    BY DEF Typed, PageTyped, Source, Read
  <1>1. /\ UNCHANGED run
        /\ UNCHANGED reads \/ \E k \in {"load", "poll", "run"} : StopsReading(k) \/ Asks(k)
    BY DEF LoadLands, LoadFails, PollSteps, PollTick, PollLands, PollFails, PollCap, Stop,
           StopSteps, Stopped, StopFails, StopRefused, StopSettles
  <1>2. page'.shown = page.shown \/ page'.shown = reads["load"].thread
        => \A m \in ToSet(page'.shown) : Source(m)
    BY <1>0
  <1>3. CASE LoadLands \/ LoadFails \/ Stop \/ PollTick \/ PollFails \/ PollCap
    <2>1. page'.shown = page.shown \/ page'.shown = reads["load"].thread
      BY <1>0, <1>3 DEF LoadLands, LoadFails, Stop, PollTick, PollFails, PollCap, Settled, Page
    <2> QED
      BY <1>1, <1>2, <2>1, ShowsSources
  <1>4. CASE PollLands
    <2>1. page' \in {page, NotSent(page), SettleFree(page, reads["poll"].thread)}
      BY <1>4 DEF PollLands
    <2>2. SettleFree(page, reads["poll"].thread).shown = reads["poll"].thread
      BY <1>0, SettleFreeShape
    <2>3. \A m \in ToSet(NotSent(page).shown) : m \in ToSet(page.shown)
      <3>0. page \in Page
        BY <1>0
      <3>1. Settled(page) \in Page /\ Settled(page).shown = page.shown
        BY <3>0 DEF Settled, Page
      <3>2. PICK t \in Seq(Message) : Dropped(Settled(page)) = [Settled(page) EXCEPT !.shown = t]
                                      /\ ToSet(t) \subseteq ToSet(page.shown)
        BY <3>1, DroppedShape
      <3>3. NotSent(page) = [[Settled(page) EXCEPT !.shown = t] EXCEPT !.error = "notSent"]
        BY <3>2 DEF NotSent
      <3>4. NotSent(page).shown = t
        BY <3>1, <3>3 DEF Page
      <3> QED
        BY <3>2, <3>4
    <2>4. \A m \in ToSet(page'.shown) : Source(m)
      BY <1>0, <2>1, <2>2, <2>3
    <2> QED
      BY <1>1, <2>4, ShowsSources
  <1>5. CASE StopSteps
    <2> DEFINE p == [page EXCEPT !.stopped = FALSE]
    <2>1. p \in Page /\ p.shown = page.shown
      BY <1>0 DEF Page
    <2>2. page' \in {page, p, Unnoted(p)}
      BY <1>5 DEF StopSteps, Stopped, StopFails, StopRefused, StopSettles
    <2> HIDE DEF p
    <2>3. page'.shown = page.shown
      BY <2>1, <2>2, UnnotedShape
    <2> QED
      BY <1>1, <1>2, <2>3, ShowsSources
  <1> QED
    BY <1>3, <1>4, <1>5 DEF PollSteps

\* A read brings what the thread holds now, or what it had brought before.
LEMMA ReadSources ==
  ASSUME Typed, NEW k \in DOMAIN reads, GetOwnedDetail(k)
  PROVE  Sources
  <1>1. k \in {"load", "poll", "run"} /\ DOMAIN reads = {"load", "poll", "run"} /\ reads[k] \in Read
    BY DEF Typed, PageTyped
  <1>2. Sees(reads[k]).thread \in {thread, reads[k].thread}
    BY <1>1 DEF Sees, SeesRow, SeesMessages, Read
  <1>3. reads'[k].thread \in {thread, reads[k].thread}
        /\ \A j \in {"load", "poll", "run"} \ {k} : reads'[j] = reads[j]
    <2>1. Sees(reads[k]) \in Read
      BY <1>1 DEF Sees, SeesRow, SeesMessages, Read, Typed, ServerTyped
    <2>2. PICK a \in {"half", "ready"} : reads' = [reads EXCEPT ![k] = [Sees(reads[k]) EXCEPT !.at = a]]
      BY <1>1 DEF GetOwnedDetail
    <2>3. [Sees(reads[k]) EXCEPT !.at = a].thread = Sees(reads[k]).thread
      BY <2>1 DEF Read
    <2> QED
      BY <1>1, <1>2, <2>2, <2>3
  <1>4. UNCHANGED <<page, run>>
    BY DEF GetOwnedDetail, pageVars
  <1> QED
    BY <1>3, <1>4 DEF Sources, Source

\* What the page shows or may show is of a turn that was asked for.
Seen ==
    /\ \A m \in ToSet(page.shown) \cup ToSet(run.hidden) : m.of <= turns.last
    /\ \A k \in {"load", "poll", "run"} : \A m \in ToSet(reads[k].thread) : m.of <= turns.last
    /\ run.after <= turns.last

LEMMA SeenTyped ==
  ASSUME Typed
  PROVE  /\ \A m \in ToSet(page.shown) \cup ToSet(run.hidden) : m \in Message
         /\ \A k \in {"load", "poll", "run"} : \A m \in ToSet(reads[k].thread) : m \in Message
  <1>1. \A s \in Seq(Message) : \A m \in ToSet(s) : m \in Message
    <2> SUFFICES ASSUME NEW s \in Seq(Message) PROVE \A m \in ToSet(s) : m \in Message
      OBVIOUS
    <2>1. DOMAIN s = 1 .. Len(s) /\ \A i \in 1 .. Len(s) : s[i] \in Message
      BY LenProperties, ElementOfSeq
    <2> QED
      BY <2>1 DEF ToSet
  <1>2. page.shown \in Seq(Message) /\ run.hidden \in Seq(Message)
        /\ \A k \in {"load", "poll", "run"} : reads[k].thread \in Seq(Message)
    BY DEF Typed, PageTyped, Page, Run, Read
  <1> QED
    BY <1>1, <1>2

LEMMA SeenSources ==
  ASSUME Typed, Numbered, Seen, Sources, turns'.last = turns.last
  PROVE  Seen'
  <1>1. \A m \in ToSet(thread) : m.of <= turns.last
    BY DEF Typed, ServerTyped, Numbered
  <1>2. Own(OwnReply).of = run.after
    BY DEF Own, OwnReply, Answer
  <1>3. \A m : Source(m) => m.of <= turns.last
    BY <1>2 DEF Source, Seen
  <1> QED
    BY <1>1, <1>3 DEF Sources, Seen

LEMMA SeenLater ==
  ASSUME Typed, Seen, UNCHANGED <<page, run, reads>>, turns'.last \in {turns.last, NextTurn}
  PROVE  Seen'
  <1>1. /\ \A m \in ToSet(page.shown) \cup ToSet(run.hidden) : m.of \in Turn
        /\ \A k \in {"load", "poll", "run"} : \A m \in ToSet(reads[k].thread) : m.of \in Turn
        /\ run.after \in Turn \cup {None} /\ turns.last \in Turn
    BY SeenTyped, MessageFacts DEF Typed, NetTyped, PageTyped, Run
  <1>2. \A t \in Turn \cup {None} : t <= turns.last => t <= turns'.last
    BY <1>1, NextTurnFacts, Zenon DEF NextTurn
  <1> QED
    BY <1>1, <1>2 DEF Seen

LEMMA RequestShape ==
  ASSUME NetTyped, NEW kind, NEW after, NEW hidden, Request(kind, after, hidden)
  PROVE  /\ turns'.last = NextTurn /\ turns'.others = turns.others /\ turns'.late = turns.late
         /\ turns'.blind = (turns.blind \/ reads["load"].at # "off")
         /\ run'.at = "waiting" /\ run'.kind = kind /\ run'.turn = NextTurn /\ run'.after = after
         /\ run'.hidden = hidden /\ run'.hadId = page.known
         /\ UNCHANGED <<conv, thread, running, ever, stops, stop, hits, reads, poll>>
         /\ answer' = "none"
  BY DEF Request, NoRun, NetTyped, serverVars

LEMMA StartsShape ==
  ASSUME PageTyped, NEW t \in Seq(Message), Starts(t)
  PROVE  /\ page'.shown = t /\ page'.sending /\ page'.loading /\ ~page'.notice
         /\ page'.error = "none" /\ page'.known = page.known /\ page'.limited = page.limited
         /\ page'.streaming = page.streaming /\ page'.still = page.still
  BY DEF Starts, PageTyped, Page

\* The page asks a new question, or again the last one it shows.
LEMMA AsksShape ==
  ASSUME Typed, Served, Seen, Send \/ Retry
  PROVE  \E kind \in {"send", "retry"}, after \in Turn, hidden \in Seq(Message), t \in Seq(Message) :
         /\ Request(kind, after, hidden) /\ Starts(t)
         /\ kind = "send" <=> after = NextTurn
         /\ after <= NextTurn
         /\ \A m \in ToSet(t) : m \in ToSet(page.shown) \/ m = Own(Question(NextTurn))
         /\ ToSet(hidden) \subseteq ToSet(page.shown)
         /\ ~Busy
  <1>0. page.shown \in Seq(Message) /\ turns.last \in Turn
    BY DEF Typed, PageTyped, Page, NetTyped
  <1>1. CASE Send
    <2>1. NextTurn \in Turn
      BY <1>1, TurnFacts DEF Send, Request, NextTurn, Typed, NetTyped
    <2>2. Own(Question(NextTurn)) \in Message
      BY <2>1, MessageFacts
    <2>3. /\ Append(page.shown, Own(Question(NextTurn))) \in Seq(Message)
          /\ \A m \in ToSet(Append(page.shown, Own(Question(NextTurn)))) :
               m \in ToSet(page.shown) \/ m = Own(Question(NextTurn))
      BY <1>0, <2>2, AppendedThread
    <2>4. Request("send", NextTurn, <<>>) /\ Starts(Append(page.shown, Own(Question(NextTurn))))
          /\ ~Busy
      BY <1>1 DEF Send, MaySend
    <2>5. <<>> \in Seq(Message) /\ ToSet(<<>>) \subseteq ToSet(page.shown)
      BY EmptySeq, NoneIn
    <2> QED
      BY <2>1, <2>3, <2>4, <2>5, Before
  <1>2. CASE Retry
    <2> DEFINE hidden == ShownAfter(LastUserAt)
               after == page.shown[LastUserAt].of
    <2>1. hidden \in Seq(Message) /\ after \in Turn /\ ToSet(hidden) \subseteq ToSet(page.shown)
          /\ after <= turns.last
      BY <1>2, ShownAt, MessageFacts DEF Retry, Typed, Seen
    <2>2. Request("retry", after, hidden) /\ Starts(Hides(hidden)) /\ ~Busy
      BY <1>2 DEF Retry, CanRetry
    <2> HIDE DEF hidden, after
    <2>3. Hides(hidden) \in Seq(Message) /\ ToSet(Hides(hidden)) \subseteq ToSet(page.shown)
      BY <1>0, WithoutThread DEF Hides
    <2>4. after <= NextTurn /\ after # NextTurn
      BY <1>0, <2>1, NextTurnFacts, Zenon DEF NextTurn
    <2> QED
      BY <2>1, <2>2, <2>3, <2>4
  <1> QED
    BY <1>1, <1>2

LEMMA ServedAsks ==
  ASSUME Typed, Served, Seen, Send \/ Retry
  PROVE  Served' /\ Seen'
  <1>1. PICK kind \in {"send", "retry"}, after \in Turn, hidden \in Seq(Message), t \in Seq(Message) :
         /\ Request(kind, after, hidden) /\ Starts(t)
         /\ kind = "send" <=> after = NextTurn
         /\ after <= NextTurn
         /\ \A m \in ToSet(t) : m \in ToSet(page.shown) \/ m = Own(Question(NextTurn))
         /\ ToSet(hidden) \subseteq ToSet(page.shown)
    BY AsksShape
  <1>2. Served'
    BY <1>1, ServedRequest
  <1>3. /\ turns'.last = NextTurn /\ run'.after = after /\ run'.hidden = hidden
        /\ page'.shown = t /\ reads' = reads
    BY <1>1, RequestShape, StartsShape DEF Typed
  <1>4. /\ \A m \in ToSet(page.shown) : m.of <= NextTurn
        /\ \A k \in {"load", "poll", "run"} : \A m \in ToSet(reads[k].thread) : m.of <= NextTurn
    <2>1. /\ \A m \in ToSet(page.shown) : m.of \in Turn
          /\ \A k \in {"load", "poll", "run"} : \A m \in ToSet(reads[k].thread) : m.of \in Turn
          /\ turns.last \in Turn
      BY SeenTyped, MessageFacts DEF Typed, NetTyped
    <2> QED
      BY <2>1, NextTurnFacts, Zenon DEF NextTurn, Seen
  <1>5. Own(Question(NextTurn)).of = NextTurn /\ NextTurn <= NextTurn
    BY Before DEF Own, Question
  <1>6. Seen'
    BY <1>1, <1>3, <1>4, <1>5 DEF Seen
  <1> QED
    BY <1>2, <1>6

LEMMA ServedInit == Init => Served /\ Seen
  <1> SUFFICES ASSUME Init PROVE Served /\ Seen
    OBVIOUS
  <1>1. /\ thread \in {<<>>, <<Question(1)>>, <<Question(1), Answer(1, 1)>>}
        /\ ever = ToSet(thread) /\ thread \in Seq(Message)
        /\ Question(1) \in Message /\ Answer(1, 1) \in Message
    BY InitFacts
  <1>2. /\ turns.last = 1 /\ requests = {} /\ page.shown = <<>>
        /\ run.hidden = <<>> /\ run.turn = None /\ run.after = None
        /\ \A k \in {"load", "poll", "run"} : reads[k].thread = <<>>
    BY DEF Init, NoRun, NoRead
  <1>3. conv # "open" => thread = <<>>
    BY DEF Init
  <1>4. running = Nobody \/ (running = [turn |-> 1, of |-> 1] /\ EndsWithUser(thread))
    BY DEF Init
  <1>5. Nobody.turn = None /\ None <= 1 /\ 1 <= 1
    BY DEF Nobody, None
  <1>6. /\ Question(1).role = "user" /\ Question(1).of = 1 /\ Question(1).by = 1
        /\ Answer(1, 1).role = "assistant" /\ Answer(1, 1).of = 1 /\ Answer(1, 1).by = 1
        /\ ~Answer(1, 1).local
    BY DEF Question, Answer
  <1>7. CASE thread = <<>>
    <2>1. Served
      BY <1>1, <1>2, <1>4, <1>5, <1>7, NoneIn
         DEF Served, Chained, Open, Numbered, Fresh, EndsWithUser
    <2> QED
      BY <1>2, <1>5, <2>1, NoneIn DEF Seen
  <1>8. CASE thread = <<Question(1)>>
    <2>1. /\ ever = {Question(1)} /\ thread # <<>> /\ Last(thread) = Question(1)
          /\ DOMAIN thread = {1} /\ thread[1] = Question(1)
      BY <1>1, <1>8, OneThread DEF Last
    <2>2. Chained
      BY <1>6, <2>1 DEF Chained
    <2>3. Open
      BY <1>3, <1>4, <2>1 DEF Open, EndsWith
    <2>4. Numbered /\ Fresh
      BY <1>2, <1>4, <1>5, <1>6, <2>1 DEF Numbered, Fresh
    <2> QED
      BY <1>2, <1>5, <2>2, <2>3, <2>4, NoneIn DEF Seen, Served
  <1>9. CASE thread = <<Question(1), Answer(1, 1)>>
    <2>1. /\ ever = {Question(1), Answer(1, 1)} /\ thread # <<>> /\ Last(thread) = Answer(1, 1)
          /\ DOMAIN thread = {1, 2} /\ thread[1] = Question(1) /\ thread[2] = Answer(1, 1)
      BY <1>1, <1>9, TwoThread DEF Last
    <2>2. 2 - 1 = 1
      OBVIOUS
    <2>3. Chained
      BY <1>6, <2>1, <2>2 DEF Chained
    <2>4. running = Nobody
      BY <1>4, <1>6, <2>1 DEF EndsWithUser
    <2>5. Open
      BY <1>3, <2>1, <2>4 DEF Open
    <2>6. Numbered /\ Fresh
      BY <1>2, <1>5, <1>6, <2>1, <2>4 DEF Numbered, Fresh
    <2> QED
      BY <1>2, <1>5, <2>3, <2>5, <2>6, NoneIn DEF Seen, Served
  <1> QED
    BY <1>1, <1>7, <1>8, <1>9

\* A step of the page alone leaves the server and its requests as they are.
LEMMA PageAlone ==
  ASSUME NetTyped,
         RunSteps \/ LoadLands \/ LoadFails \/ PollSteps \/ Stop \/ StopSteps
  PROVE  UNCHANGED serverVars /\ UNCHANGED requests /\ turns'.last = turns.last
         /\ turns'.others = turns.others
  BY DEF NetTyped, RunSteps, Prelude, SendDone, RetryDone, Reread, ReplyFailed, ConnectionLost,
     NetworkFails, Limited, SendRefused, RetryRefused, Refetch, Refetched, LoadLands, LoadFails,
     PollSteps, PollTick, PollLands, PollFails, PollCap, Stop, StopSteps, Stopped, StopFails,
     StopRefused, StopSettles, ServerOnly, netVars

LEMMA ServedStep == Typed /\ Served /\ Seen /\ [Next]_vars => Served' /\ Seen'
  <1> SUFFICES ASSUME Typed, Served, Seen, [Next]_vars PROVE Served' /\ Seen'
    OBVIOUS
  <1>1. CASE UNCHANGED vars
    <2>1. Served'
      BY <1>1, ServedSame DEF vars, pageVars, netVars
    <2>2. Seen'
      BY <1>1, SeenLater DEF vars, pageVars
    <2> QED
      BY <2>1, <2>2
  <1>2. ASSUME NEW q \in requests, Refuse(q) \/ Accept(q) \/ LoseRequest(q)
        PROVE  Served' /\ Seen'
    <2>1. Seen'
      BY <1>2, SeenLater DEF Refuse, Accept, LoseRequest, pageVars
    <2>2. CASE Refuse(q) \/ LoseRequest(q)
      BY <2>1, <2>2, ServedSame DEF Refuse, LoseRequest, pageVars
    <2>3. CASE Accept(q)
      BY <2>1, <2>3, ServedAccept
    <2> QED
      BY <1>2, <2>2, <2>3
  <1>3. CASE SaveReply \/ DropReply
    <2>1. Seen'
      BY <1>3, SeenLater DEF SaveReply, DropReply, pageVars
    <2> QED
      BY <1>3, <2>1, ServedReplies
  <1>4. ASSUME NEW s \in stops, StopReply(s) \/ LoseStop(s)
        PROVE  Served' /\ Seen'
    <2>1. Seen'
      BY <1>4, SeenLater DEF StopReply, LoseStop, pageVars
    <2> QED
      BY <1>4, <2>1, ServedSame DEF StopReply, LoseStop, pageVars
  <1>5. ASSUME NEW k \in DOMAIN reads, GetOwnedDetail(k)
        PROVE  Served' /\ Seen'
    <2>1. Seen'
      BY <1>5, ReadSources, SeenSources DEF GetOwnedDetail, Served
    <2> QED
      BY <1>5, <2>1, ServedSame DEF GetOwnedDetail, pageVars, netVars
  <1>6. CASE OtherSends \/ OtherRetries
    <2>1. turns'.last = NextTurn
      BY <1>6, OtherThread
    <2>2. Seen'
      BY <1>6, <2>1, SeenLater DEF OtherSends, OtherRetries, pageVars
    <2> QED
      BY <1>6, <2>2, ServedOthers
  <1>7. CASE Delete
    <2>1. Seen'
      BY <1>7, SeenLater DEF Delete, pageVars
    <2> QED
      BY <1>7, <2>1, ServedDelete
  <1>8. CASE Send \/ Retry
    BY <1>8, ServedAsks
  <1>9. CASE RunSteps \/ LoadLands \/ LoadFails \/ PollSteps \/ Stop \/ StopSteps
    <2>1. UNCHANGED serverVars /\ UNCHANGED requests /\ turns'.last = turns.last
      BY <1>9, PageAlone DEF Typed
    <2>2. Sources
      BY <1>9, StreamSources, RefusalSources, PollSources DEF RunSteps
    <2>3. Seen'
      BY <2>1, <2>2, SeenSources DEF Served
    <2> QED
      BY <2>1, <2>2, <2>3, ServedSame DEF Sources
  <1> QED
    BY <1>1, <1>2, <1>3, <1>4, <1>5, <1>6, <1>7, <1>8, <1>9 DEF Next
-----------------------------------------------------------------------------
\* Every step of the server is one that ReplyContract allows, or none.

LEMMA PlainFacts ==
  /\ \A r \in Turn : Plain(Question(r)) = Contract!Question(r, r)
  /\ \A q, r \in Turn : Plain(Answer(q, r)) = Contract!Answer(q, r)
  /\ \A m : Plain(m).role = m.role /\ Plain(m).of = m.of /\ Plain(m).by = m.by
  BY DEF Plain, Question, Answer, Contract!Question, Contract!Answer

LEMMA PlainAppend ==
  ASSUME NEW t \in Seq(Message), NEW m \in Message
  PROVE  {Plain(Append(t, m)[i]) : i \in DOMAIN Append(t, m)}
           = {Plain(t[i]) : i \in DOMAIN t} \cup {Plain(m)}
  <1> DEFINE a == Append(t, m)
  <1>1. /\ DOMAIN t \subseteq DOMAIN a
        /\ \A i \in DOMAIN t : a[i] = t[i]
        /\ \A i \in DOMAIN a : i \notin DOMAIN t => i = Len(t) + 1 /\ a[i] = m
    BY AppendedThread
  <1>2. Len(t) + 1 \in DOMAIN a /\ a[Len(t) + 1] = m
    <2>1. a \in Seq(Message) /\ Len(a) = Len(t) + 1 /\ a[Len(t) + 1] = m
      BY AppendProperties
    <2>2. Len(t) \in Nat /\ DOMAIN a = 1 .. Len(a)
      BY <2>1, LenProperties
    <2> QED
      BY <2>1, <2>2
  <1> HIDE DEF a
  <1>3. {Plain(a[i]) : i \in DOMAIN a} = {Plain(t[i]) : i \in DOMAIN t} \cup {Plain(m)}
    BY <1>1, <1>2
  <1> QED
    BY <1>3 DEF a

LEMMA ContractAsks ==
  ASSUME ServerTyped, NEW r \in Turn, conv # "deleted", \A m \in ever : m.of # r,
         thread' = Append(thread, Question(r)), conv' = "open", running'.turn = r
  PROVE  Contract!AskNew(r, r)
  <1>1. \A i \in DOMAIN thread : Plain(thread[i]).of # r
    BY ThreadFacts, PlainFacts
  <1>2. ~Contract!IsAsked(r) /\ ~Contract!IsAnswered(r)
    BY <1>1 DEF Contract!IsAsked, Contract!IsAnswered
  <1>3. {Plain(thread'[i]) : i \in DOMAIN thread'}
          = {Plain(thread[i]) : i \in DOMAIN thread} \cup {Contract!Question(r, r)}
    BY MessageFacts, PlainAppend, PlainFacts DEF ServerTyped
  <1> QED
    BY <1>2, <1>3 DEF Contract!AskNew

LEMMA ContractAsksAgain ==
  ASSUME ServerTyped, Chained, NEW r \in Turn, NEW q \in Turn, conv = "open", conv' = "open",
         running'.turn = r,
         \/ EndsWith(thread, q) /\ thread' = thread
         \/ Answered(thread, q) /\ thread' = Front(thread)
  PROVE  Contract!AskAgain(r, q)
  <1>0. Question(q).role = "user" /\ Question(q).of = q
    BY DEF Question
  <1>1. thread' \in Seq(Message)
    <2>1. Answered(thread, q) => thread # <<>>
      BY EmptySeq DEF ServerTyped, Answered
    <2> QED
      BY <2>1, CutThread DEF ServerTyped
  <1>2. Chained' /\ EndsWith(thread', q)
    <2>1. CASE EndsWith(thread, q) /\ thread' = thread
      BY <2>1 DEF Chained
    <2>2. CASE Answered(thread, q) /\ thread' = Front(thread)
      BY <2>2, StrippedThread
    <2> QED
      BY <2>1, <2>2
  <1>3. /\ Question(q) \in ToSet(thread')
        /\ \A i \in DOMAIN thread' : thread'[i].role = "assistant" => thread'[i].of # q
    BY <1>1, <1>2, NoReplyAtEnd DEF Chained
  <1>4. ~Contract!IsAnswered(q)'
    BY <1>3, PlainFacts DEF Contract!IsAnswered
  <1>5. ToSet(thread') \subseteq ToSet(thread)
    <2>1. Answered(thread, q) => thread # <<>>
      BY EmptySeq DEF ServerTyped, Answered
    <2> QED
      BY <2>1, CutThread DEF ServerTyped
  <1>6. Contract!IsAsked(q)
    <2>1. PICK i \in DOMAIN thread : thread[i] = Question(q)
      BY <1>3, <1>5 DEF ToSet
    <2>2. Plain(thread[i]).role = "user" /\ Plain(thread[i]).of = q
      BY <1>0, <2>1, PlainFacts
    <2> QED
      BY <2>2 DEF Contract!IsAsked
  <1> DEFINE held == {Plain(thread[i]) : i \in DOMAIN thread}
             left == {Plain(thread'[i]) : i \in DOMAIN thread'}
  <1>7. left = held \/ \E e \in held : e.role = "assistant" /\ left = held \ {e}
    <2>1. CASE thread' = thread
      BY <2>1
    <2>2. CASE Answered(thread, q) /\ thread' = Front(thread)
      <3>1. thread # <<>> /\ Last(thread).role = "assistant" /\ Last(thread).of = q
        BY <2>2, StrippedThread
      <3>2. /\ Len(thread) \in DOMAIN thread /\ Last(thread) = thread[Len(thread)]
            /\ \A i \in DOMAIN thread' : i \in DOMAIN thread /\ thread'[i] = thread[i] /\ i # Len(thread)
            /\ \A i \in DOMAIN thread : i = Len(thread) \/ i \in DOMAIN thread'
        BY <2>2, <3>1, LastPlace, CutThread DEF ServerTyped
      <3> DEFINE e == Plain(thread[Len(thread)])
      <3>3. e \in held /\ e.role = "assistant" /\ e.of = q
        BY <3>1, <3>2, PlainFacts
      <3>4. \A i \in DOMAIN thread' : Plain(thread'[i]) # e
        BY <1>3, <3>3, PlainFacts
      <3> HIDE DEF e
      <3>5. left \subseteq held \ {e}
        BY <3>2, <3>4
      <3>6. held \ {e} \subseteq left
        BY <3>2 DEF e
      <3> QED
        BY <3>3, <3>5, <3>6
    <2> QED
      BY <2>1, <2>2
  <1> QED
    BY <1>4, <1>6, <1>7 DEF Contract!AskAgain

LEMMA ContractReplies ==
  ASSUME Typed, Served, SaveReply
  PROVE  Contract!Reply(running.turn, running.of)
  <1>1. running # Nobody /\ running.turn \in Turn /\ running.of \in Turn
    BY DEF SaveReply, Typed, ServerTyped
  <1>2. EndsWith(thread, running.of)
    BY <1>1 DEF Served, Open
  <1>3. /\ Question(running.of) \in ToSet(thread)
        /\ \A i \in DOMAIN thread : thread[i].role = "assistant" => thread[i].of # running.of
    BY <1>2, EndUnanswered DEF Typed, Served
  <1>4. Contract!IsAsked(running.of)
    <2>1. PICK i \in DOMAIN thread : thread[i] = Question(running.of)
      BY <1>3 DEF ToSet
    <2>2. Plain(thread[i]).role = "user" /\ Plain(thread[i]).of = running.of
      BY <2>1, PlainFacts DEF Question
    <2> QED
      BY <2>2 DEF Contract!IsAsked
  <1>5. ~Contract!IsAnswered(running.of)
    BY <1>3, PlainFacts DEF Contract!IsAnswered
  <1>6. {Plain(thread'[i]) : i \in DOMAIN thread'}
          = {Plain(thread[i]) : i \in DOMAIN thread} \cup {Contract!Answer(running.of, running.turn)}
    <2>1. thread' = Append(thread, Answer(running.of, running.turn))
      BY DEF SaveReply, Stores
    <2>2. Answer(running.of, running.turn) \in Message /\ thread \in Seq(Message)
          /\ Plain(Answer(running.of, running.turn)) = Contract!Answer(running.of, running.turn)
      BY <1>1, MessageFacts, PlainFacts DEF Typed, ServerTyped
    <2> QED
      BY <2>1, <2>2, PlainAppend
  <1>7. conv' = conv /\ running'.turn = None
    BY DEF SaveReply, Nobody
  <1> QED
    BY <1>4, <1>5, <1>6, <1>7 DEF Contract!Reply

LEMMA ContractSame == UNCHANGED serverVars => UNCHANGED Contract!vars
  BY DEF serverVars, Contract!vars

LEMMA ContractStep == Typed /\ Served /\ [Next]_vars => [Contract!Next]_Contract!vars
  <1> SUFFICES ASSUME Typed, Served, [Next]_vars PROVE Contract!Next \/ UNCHANGED Contract!vars
    OBVIOUS
  <1>1. ASSUME NEW q \in requests, Accept(q) PROVE Contract!Next
    <2>1. q \in RequestType /\ RefusalOf(q) = "none" /\ conv' = "open"
          /\ running' = [turn |-> q.turn, of |-> q.after]
      BY <1>1 DEF Typed, NetTyped, Accept
    <2>2. conv # "deleted" /\ q.turn \in Turn /\ q.after \in Turn /\ running'.turn = q.turn
          /\ (q.kind = "retry" => Answered(thread, q.after) \/ EndsWith(thread, q.after))
      BY <2>1, AcceptFacts DEF RequestType
    <2>3. CASE q.kind = "send"
      <3>1. thread' = Append(thread, Question(q.turn)) /\ \A m \in ever : m.of # q.turn
        BY <1>1, <2>3 DEF Accept, Stores, Served, Fresh
      <3>2. Contract!AskNew(q.turn, q.turn)
        BY <2>1, <2>2, <3>1, ContractAsks DEF Typed
      <3> QED
        BY <2>2, <3>2 DEF Contract!Next
    <2>4. CASE q.kind = "retry"
      <3>1. thread # <<>>
        BY <2>2, <2>4, EmptySeq DEF EndsWith, Answered, Typed, ServerTyped
      <3>2. conv = "open"
        BY <3>1 DEF Served, Open
      <3>3. \/ Answered(thread, q.after) /\ thread' = Front(thread)
            \/ EndsWith(thread, q.after) /\ thread' = thread
        BY <1>1, <2>2, <2>4 DEF Accept, Replaced
      <3>4. Contract!AskAgain(q.turn, q.after)
        BY <2>1, <2>2, <3>2, <3>3, ContractAsksAgain DEF Typed, Served
      <3> QED
        BY <2>2, <3>4 DEF Contract!Next
    <2> QED
      BY <2>1, <2>3, <2>4 DEF RequestType
  <1>2. CASE OtherSends
    <2>1. NextTurn \in Turn
      BY <1>2, TurnFacts DEF OtherSends, OtherActs, Typed, NetTyped, NextTurn
    <2>2. /\ conv = "open" /\ conv' = "open" /\ running'.turn = NextTurn
          /\ thread' = Append(thread, Question(NextTurn))
      BY <1>2 DEF OtherSends, OtherActs, Stores
    <2>3. Contract!AskNew(NextTurn, NextTurn)
      BY <2>1, <2>2, Before, ContractAsks DEF Typed
    <2> QED
      BY <2>1, <2>3 DEF Contract!Next
  <1>3. CASE OtherRetries
    <2>1. NextTurn \in Turn
      BY <1>3, TurnFacts DEF OtherRetries, OtherActs, Typed, NetTyped, NextTurn
    <2>2. PICK q \in Turn :
            /\ EndsWith(thread, q) \/ Answered(thread, q)
            /\ running' = [turn |-> NextTurn, of |-> q]
            /\ thread' = IF Answered(thread, q) THEN Front(thread) ELSE thread
      BY <1>3 DEF OtherRetries
    <2>3. conv = "open" /\ conv' = "open" /\ running'.turn = NextTurn
      BY <1>3, <2>2 DEF OtherRetries, OtherActs
    <2>4. Contract!AskAgain(NextTurn, q)
      BY <2>1, <2>2, <2>3, ContractAsksAgain DEF Typed, Served
    <2> QED
      BY <2>1, <2>4 DEF Contract!Next
  <1>4. CASE SaveReply
    <2>1. running.turn \in Turn /\ running.of \in Turn
      BY <1>4 DEF SaveReply, Typed, ServerTyped
    <2> QED
      BY <1>4, <2>1, ContractReplies DEF Contract!Next
  <1>5. CASE DropReply
    <2>1. running.turn \in Turn /\ running'.turn = None /\ conv' = conv /\ thread' = thread
      BY <1>5 DEF DropReply, Typed, ServerTyped, Nobody
    <2>2. Contract!Free(running.turn)
      BY <2>1 DEF Contract!Free
    <2> QED
      BY <2>1, <2>2 DEF Contract!Next
  <1>6. CASE Delete
    <2>1. conv = "open" /\ conv' = "deleted" /\ running'.turn = None /\ thread' = <<>>
      BY <1>6 DEF Delete, Nobody
    <2>2. {Plain(thread'[i]) : i \in DOMAIN thread'} = {}
      BY <2>1
    <2> QED
      BY <2>1, <2>2 DEF Contract!Next, Contract!Delete
  <1>7. CASE UNCHANGED serverVars
    BY <1>7, ContractSame
  <1>8. \/ \E q \in requests : Accept(q)
        \/ OtherSends \/ OtherRetries \/ SaveReply \/ DropReply \/ Delete
        \/ UNCHANGED serverVars
    <2>1. CASE UNCHANGED vars
      BY <2>1 DEF vars
    <2>2. CASE RunSteps \/ LoadLands \/ LoadFails \/ PollSteps \/ Stop \/ StopSteps
      BY <2>2, PageAlone DEF Typed
    <2>3. CASE Send \/ Retry
      BY <2>3 DEF Send, Retry, Request
    <2>4. ASSUME NEW q \in requests, Refuse(q) \/ LoseRequest(q) PROVE UNCHANGED serverVars
      BY <2>4 DEF Refuse, LoseRequest
    <2>5. ASSUME NEW s \in stops, StopReply(s) \/ LoseStop(s) PROVE UNCHANGED serverVars
      BY <2>5 DEF StopReply, LoseStop
    <2>6. ASSUME NEW k \in DOMAIN reads, GetOwnedDetail(k) PROVE UNCHANGED serverVars
      BY <2>6 DEF GetOwnedDetail
    <2> QED
      BY <2>1, <2>2, <2>3, <2>4, <2>5, <2>6 DEF Next
  <1> QED
    BY <1>1, <1>2, <1>3, <1>4, <1>5, <1>6, <1>7, <1>8

\* A turn stores its question and its reply once, answers only while it holds the
\* conversation, and no reply is taken away but for the retry that replaces it, as this
\* page and its network drive the server (persist_user_turn, claim_for_retry, finish).
THEOREM KeepsContract == Spec => ServerKeepsContract
  <1>1. Init => Typed /\ Served /\ Seen
    BY TypedInit, ServedInit
  <1>2. (Typed /\ Served /\ Seen) /\ [Next]_vars => (Typed /\ Served /\ Seen)'
    BY TypedStep, ServedStep
  <1>3. (Typed /\ Served /\ Seen) /\ [Next]_vars => [Contract!Next]_Contract!vars
    BY ContractStep
  <1> QED
    BY <1>1, <1>2, <1>3, PTL DEF Spec, ServerKeepsContract
-----------------------------------------------------------------------------
\* The page's own turn is the server's: they agree on the question it answers.

Same ==
    /\ \A q \in requests : q.turn = run.turn => q.after = run.after
    /\ running # Nobody /\ running.turn = run.turn => running.of = run.after
    /\ run.turn # None /\ run.after # run.turn
         => \A m \in ever : m.role = "user" => m.of # run.turn
    /\ run.at # "idle" => (run.kind = "send" <=> run.after = run.turn)
    /\ poll.at # "off" /\ poll.kind = "outcome" => run.turn # None /\ run.after = run.turn

LEMMA SameKept ==
  ASSUME Same, UNCHANGED serverVars, UNCHANGED <<run, poll>>, requests' \subseteq requests
  PROVE  Same'
  BY DEF Same, serverVars

\* The run goes on, ends, or leaves its turn to a poll.
LEMMA RunGoesOn ==
  ASSUME Typed, RunSteps \/ LoadLands \/ LoadFails \/ PollSteps \/ Stop \/ StopSteps
  PROVE  /\ run'.turn = run.turn /\ run'.after = run.after
         /\ run'.at = "idle" \/ (run'.kind = run.kind /\ run.at # "idle")
         /\ \/ poll'.at = "off" \/ poll'.kind # "outcome"
            \/ poll'.kind = poll.kind /\ poll.at # "off"
            \/ run.at # "idle" /\ run.kind = "send"
  <1>0. page \in Page /\ run \in Run /\ poll \in Poll
        /\ (run.at = "idle" \/ poll.at = "off")
    BY DEF Typed, PageTyped, Owned
  <1>1. CASE Prelude \/ RetryDone \/ Refetch
    <2>1. UNCHANGED poll /\ run.at # "idle" /\ run'.turn = run.turn /\ run'.after = run.after
          /\ run'.kind = run.kind
      BY <1>0, <1>1 DEF Prelude, RetryDone, Refetch, RefusedWith, Run
    <2> QED
      BY <1>0, <2>1
  <1>2. ASSUME NEW p, Ends(p), UNCHANGED poll, run.at # "idle"
        PROVE  /\ run'.turn = run.turn /\ run'.after = run.after /\ run'.at = "idle"
               /\ poll'.at = "off"
    BY <1>0, <1>2 DEF Ends, RunOver, NoRun
  <1>3. ASSUME NEW kind, HandsOver(kind), run.at # "idle", kind # "outcome" \/ run.kind = "send"
        PROVE  /\ run'.turn = run.turn /\ run'.after = run.after /\ run'.at = "idle"
               /\ poll'.kind # "outcome" \/ run.kind = "send"
    BY <1>3, HandsOverShape DEF Typed
  <1>4. CASE SendDone \/ Reread \/ ReplyFailed \/ Limited \/ SendRefused
    BY <1>2, <1>4 DEF SendDone, Reread, ReplyFailed, Limited, SendRefused, RefusedWith
  <1>5. CASE ConnectionLost
    <2>1. run.at # "idle"
      BY <1>5 DEF ConnectionLost
    <2>2. \/ Ends([page EXCEPT !.error = "interrupted"]) /\ UNCHANGED poll
          \/ \E kind \in {"outcome", "settle"} :
               HandsOver(kind) /\ (kind # "outcome" \/ run.kind = "send")
      BY <1>5 DEF ConnectionLost, HandsOver
    <2> QED
      BY <1>2, <1>3, <2>1, <2>2
  <1>6. CASE NetworkFails
    <2>1. run.at # "idle"
      BY <1>6 DEF NetworkFails
    <2>2. \/ Ends([page EXCEPT !.error = "refused"]) /\ UNCHANGED poll
          \/ \E kind \in {"outcome", "confirm"} :
               HandsOver(kind) /\ (kind # "outcome" \/ run.kind = "send")
      BY <1>6 DEF NetworkFails
    <2> QED
      BY <1>2, <1>3, <2>1, <2>2
  <1>7. CASE RetryRefused
    <2>1. run.at # "idle"
      BY <1>7 DEF RetryRefused, RefusedWith
    <2>2. \/ Ends([RestoreHidden(page) EXCEPT !.error = "refused"]) /\ UNCHANGED poll
          \/ \E kind \in {"settle", "confirm"} : HandsOver(kind)
      BY <1>7 DEF RetryRefused
    <2> QED
      BY <1>2, <1>3, <2>1, <2>2
  <1>8. CASE Refetched
    <2>1. run.at # "idle"
      BY <1>8 DEF Refetched
    <2>2. \/ Ends(SettleFree(page, reads["run"].thread)) /\ UNCHANGED poll
          \/ HandsOver("settle")
      BY <1>8 DEF Refetched
    <2> QED
      BY <1>2, <1>3, <2>1, <2>2
  <1>9. CASE LoadFails \/ Stop \/ StopSteps
    BY <1>0, <1>9 DEF LoadFails, Stop, StopSteps, Stopped, StopFails, StopRefused, StopSettles
  <1>10. CASE LoadLands
    <2>1. UNCHANGED run /\ poll' \in {poll, [NoPoll EXCEPT !.at = "resting"]}
      BY <1>10 DEF LoadLands
    <2>2. [NoPoll EXCEPT !.at = "resting"].kind # "outcome"
      BY DEF NoPoll
    <2> QED
      BY <1>0, <2>1, <2>2
  <1>11. CASE PollSteps
    <2>1. UNCHANGED run /\ (poll'.at = "off" \/ (poll'.kind = poll.kind /\ poll.at # "off"))
      <3>1. CASE PollTick \/ PollFails
        BY <1>0, <3>1 DEF PollTick, PollFails, Poll
      <3>2. CASE PollCap
        BY <3>2 DEF PollCap, NoPoll
      <3>3. CASE PollLands
        <4>1. poll.at # "off" /\ UNCHANGED run
          BY <3>3 DEF PollLands
        <4>2. CASE Undecided(reads["poll"])
          <5>1. \E n : poll' = [poll EXCEPT !.at = "resting", !.misses = n]
            BY <3>3, <4>2 DEF PollLands
          <5> QED
            BY <1>0, <4>1, <5>1 DEF Poll
        <4>3. CASE ~Undecided(reads["poll"])
          BY <3>3, <4>1, <4>3 DEF PollLands, NoPoll
        <4> QED
          BY <4>2, <4>3
      <3> QED
        BY <1>11, <3>1, <3>2, <3>3 DEF PollSteps
    <2> QED
      BY <1>0, <2>1
  <1> QED
    BY <1>1, <1>4, <1>5, <1>6, <1>7, <1>8, <1>9, <1>10, <1>11 DEF RunSteps

LEMMA SamePage ==
  ASSUME Typed, Same, RunSteps \/ LoadLands \/ LoadFails \/ PollSteps \/ Stop \/ StopSteps
  PROVE  Same'
  <1>1. UNCHANGED serverVars /\ UNCHANGED requests
    BY PageAlone DEF Typed
  <1>2. run.at # "idle" => run.turn # None
    BY DEF Typed, PageTyped
  <1> QED
    BY <1>1, <1>2, RunGoesOn DEF Same, serverVars

LEMMA SameStep == Typed /\ Served /\ Seen /\ Same /\ [Next]_vars => Same'
  <1> SUFFICES ASSUME Typed, Served, Seen, Same, [Next]_vars PROVE Same'
    OBVIOUS
  <1>1. CASE UNCHANGED vars
    BY <1>1, SameKept DEF vars, pageVars, netVars
  <1>2. ASSUME NEW q \in requests, Refuse(q) \/ LoseRequest(q) PROVE Same'
    BY <1>2, SameKept DEF Refuse, LoseRequest, pageVars
  <1>3. ASSUME NEW q \in requests, Accept(q) PROVE Same'
    <2>1. /\ running' = [turn |-> q.turn, of |-> q.after]
          /\ ever' \subseteq ever \cup {Question(q.turn)}
          /\ q.kind = "retry" => ever' = ever
      BY <1>3, AcceptedThread
    <2>2. UNCHANGED <<run, poll>> /\ requests' \subseteq requests
      BY <1>3 DEF Accept, pageVars
    <2>3. q.turn = run.turn => q.after = run.after
      BY <1>3 DEF Same
    <2>4. ASSUME run.turn # None, run.after # run.turn, NEW m \in ever', m.role = "user"
          PROVE  m.of # run.turn
      <3>1. CASE m \in ever
        BY <2>4, <3>1 DEF Same
      <3>2. CASE m \notin ever
        <4>1. q.kind = "send" /\ m.of = q.turn
          BY <1>3, <2>1, <3>2 DEF Question, Typed, NetTyped, RequestType
        <4>2. q.after = q.turn
          BY <1>3, <4>1 DEF Served, Fresh
        <4> QED
          BY <2>3, <2>4, <4>1, <4>2
      <3> QED
        BY <3>1, <3>2
    <2> QED
      BY <2>1, <2>2, <2>3, <2>4 DEF Same
  <1>4. CASE SaveReply \/ DropReply \/ Delete
    <2>1. running' = Nobody /\ UNCHANGED <<run, poll, requests>>
      BY <1>4 DEF SaveReply, DropReply, Delete, pageVars
    <2>2. \A m \in ever' : m.role = "user" => m \in ever
      BY <1>4 DEF SaveReply, DropReply, Delete, Stores, Answer
    <2> QED
      BY <2>1, <2>2 DEF Same
  <1>5. ASSUME NEW s \in stops, StopReply(s) \/ LoseStop(s) PROVE Same'
    BY <1>5, SameKept DEF StopReply, LoseStop, pageVars
  <1>6. ASSUME NEW k \in DOMAIN reads, GetOwnedDetail(k) PROVE Same'
    BY <1>6, SameKept DEF GetOwnedDetail, pageVars, netVars
  <1>7. CASE OtherSends \/ OtherRetries
    <2>1. running'.turn = NextTurn /\ \A m \in ever' : m \in ever \/ m = Question(NextTurn)
      BY <1>7, OtherThread
    <2>2. UNCHANGED <<run, poll, requests>> /\ run.turn # NextTurn
      BY <1>7, Before DEF OtherSends, OtherRetries, pageVars, netVars
    <2> QED
      BY <2>1, <2>2 DEF Same, Question
  <1>8. CASE Send \/ Retry
    <2>1. PICK kind \in {"send", "retry"}, after \in Turn, hidden \in Seq(Message),
               t \in Seq(Message) :
            /\ Request(kind, after, hidden) /\ Starts(t)
            /\ kind = "send" <=> after = NextTurn
            /\ ~Busy
      BY <1>8, AsksShape
    <2>2. /\ run'.kind = kind /\ run'.turn = NextTurn /\ run'.after = after
          /\ UNCHANGED <<running, ever, poll>>
      BY <2>1, RequestShape DEF Typed
    <2>3. poll.at = "off"
      BY <2>1 DEF Busy, Typed, Owned
    <2>4. \A q \in requests' : q.turn = NextTurn => q.after = after
      <3> DEFINE r == [kind |-> kind, turn |-> NextTurn, after |-> after, replace |-> hidden # <<>>]
      <3>1. requests' = requests \cup {r} /\ r.after = after
        BY <2>1 DEF Request
      <3> QED
        BY <3>1, Before
    <2> QED
      BY <2>1, <2>2, <2>3, <2>4, Before DEF Same
  <1>9. CASE RunSteps \/ LoadLands \/ LoadFails \/ PollSteps \/ Stop \/ StopSteps
    BY <1>9, SamePage
  <1> QED
    BY <1>1, <1>2, <1>3, <1>4, <1>5, <1>6, <1>7, <1>8, <1>9 DEF Next

LEMMA SameInit == Init => Same
  <1> SUFFICES ASSUME Init PROVE Same
    OBVIOUS
  <1>1. requests = {} /\ run.turn = None /\ run.after = None /\ run.at = "idle"
        /\ poll.at = "off" /\ running.turn \in {None, 1} /\ (running.turn = None => running = Nobody)
    BY TurnFacts DEF Init, NoRun, NoPoll, Nobody
  <1> QED
    BY <1>1, TurnFacts DEF Same
-----------------------------------------------------------------------------
\* What a step of the page brings about, whatever its cause.

LEMMA RunMoves ==
  ASSUME Typed, RunSteps \/ LoadLands \/ LoadFails \/ PollSteps \/ Stop \/ StopSteps
  PROVE  \/ run' = run /\ answer' = answer
         \/ run.at # "idle" /\ run'.at = "idle" /\ answer' = "none"
         \/ /\ run.at = "waiting" /\ answer \in Streaming
            /\ run'.at = "reading" /\ answer' = answer
         \/ /\ run.at = "reading" /\ answer = "done" /\ run.kind = "retry" /\ run'.kind = "retry"
            /\ run'.at = "rereading" /\ answer' = answer
         \/ /\ run.at = "waiting" /\ answer \in Refusals
            /\ run'.at = "refetching" /\ answer' = answer
  <1>0. run \in Run
    BY DEF Typed, PageTyped
  <1>1. CASE Prelude \/ RetryDone
    BY <1>0, <1>1 DEF Prelude, RetryDone, Run
  <1>2. CASE Refetch
    <2>1. answer \in {"nothing", "answered"} /\ run.at = "waiting" /\ answer' = answer
          /\ run' = [run EXCEPT !.at = "refetching"]
      BY <1>2 DEF Refetch, RefusedWith
    <2> QED
      BY <1>0, <2>1 DEF Run, Refusals
  <1>3. RunOver => run'.at = "idle" /\ answer' = "none"
    BY DEF RunOver, NoRun
  <1>4. CASE SendDone \/ Reread \/ ReplyFailed \/ Limited \/ SendRefused
    BY <1>3, <1>4 DEF SendDone, Reread, ReplyFailed, Limited, SendRefused, RefusedWith, Ends
  <1>5. CASE ConnectionLost \/ NetworkFails
    BY <1>3, <1>5 DEF ConnectionLost, NetworkFails, Ends, HandsOver
  <1>6. CASE RetryRefused \/ Refetched
    BY <1>3, <1>6 DEF RetryRefused, Refetched, RefusedWith, Ends, HandsOver
  <1>7. CASE LoadLands \/ LoadFails \/ Stop \/ StopSteps
    BY <1>7 DEF LoadLands, LoadFails, Stop, StopSteps, Stopped, StopFails, StopRefused, StopSettles
  <1>8. CASE PollSteps
    BY <1>8 DEF PollSteps, PollTick, PollLands, PollFails, PollCap, netVars
  <1> QED
    BY <1>1, <1>2, <1>4, <1>5, <1>6, <1>7, <1>8 DEF RunSteps

\* The page after a step of its run: as before, or at the run's end.
GoesOn ==
    /\ page'.shown = page.shown /\ page'.error = page.error /\ page'.notice = page.notice
    /\ page'.limited = page.limited /\ page'.loading = page.loading
    /\ page'.sending = page.sending /\ page.sending
    /\ page'.known = page.known \/ run'.at # "idle"

\* No response ever began, and the page has no id.
EndsUnknown == ~page'.known /\ page'.error \in {"interrupted", "refused"}
EndsAnswered ==
    /\ answer = "done" \/ run.at = "rereading"
    /\ page'.error = page.error /\ ~EndsWithUser(page'.shown)
EndsReread ==
    /\ run.at = "rereading" /\ reads["run"].at = "ready"
    /\ page'.error = page.error /\ page'.shown = reads["run"].thread
EndsRefused ==
    /\ answer = "failed" \/ answer \in Refusals \/ run.at = "refetching"
    /\ page'.error \in {page.error, "interrupted", "refused"}
    /\ \/ page'.error # "none" \/ page'.notice \/ page'.limited
       \/ ~EndsWithUser(page'.shown)
RunOutcome ==
    /\ reads'["load"] = reads["load"] /\ reads'["poll"] = reads["poll"]
    /\ \/ GoesOn
       \/ /\ ~page'.loading /\ ~page'.sending /\ page'.known = page.known
          /\ EndsUnknown \/ EndsAnswered \/ EndsReread \/ EndsRefused

LEMMA RunReads ==
  ASSUME Typed, UNCHANGED reads \/ StopsReading("run") \/ Asks("run")
  PROVE  reads'["load"] = reads["load"] /\ reads'["poll"] = reads["poll"]
  BY DEF Typed, PageTyped, StopsReading, Asks

LEMMA RunOutcomes == ASSUME Typed, RunSteps PROVE RunOutcome
  <1>0. /\ page \in Page /\ run \in Run
        /\ run.at # "idle" => page.sending /\ run.turn # None
        /\ run.at = "waiting" => run.hadId = page.known
    BY DEF Typed, PageTyped, Owned
  <1>1. reads'["load"] = reads["load"] /\ reads'["poll"] = reads["poll"]
    <2>1. UNCHANGED reads \/ StopsReading("run") \/ Asks("run")
      BY DEF RunSteps, Prelude, SendDone, RetryDone, Reread, ReplyFailed, ConnectionLost,
             NetworkFails, Limited, SendRefused, RetryRefused, Refetch, Refetched
    <2> QED
      BY <2>1, RunReads
  <1>2. CASE Prelude \/ RetryDone \/ Refetch
    <2>1. run.at # "idle" /\ run'.at # "idle"
      BY <1>0, <1>2 DEF Prelude, RetryDone, Refetch, RefusedWith, Run
    <2>2. GoesOn
      BY <1>0, <1>2, <2>1 DEF Prelude, RetryDone, Refetch, GoesOn, Page
    <2> QED
      BY <1>1, <2>2 DEF RunOutcome
  <1>3. ASSUME NEW kind, HandsOver(kind), run.at # "idle" PROVE RunOutcome
    <2>1. GoesOn
      BY <1>0, <1>3, HandsOverShape DEF GoesOn, Typed
    <2> QED
      BY <1>1, <2>1 DEF RunOutcome
  <1>4. ASSUME NEW p \in Page, Ends(p), p.known = page.known,
               EndsUnknown \/ EndsAnswered \/ EndsReread \/ EndsRefused
        PROVE  RunOutcome
    BY <1>1, <1>4, EndsShape DEF RunOutcome
  <1>5. NotedStop(page) \in Page /\ NotedStop(page).known = page.known
        /\ NotedStop(page).error = page.error
    BY <1>0, PageShapes DEF NotedStop, Page
  <1>6. ASSUME run.turn # None, Ends(Committed(NotedStop(page))),
               answer = "done" \/ run.at = "rereading"
        PROVE  RunOutcome
    <2> DEFINE p == Committed(NotedStop(page))
    <2>1. p \in Page /\ Last(p.shown).role = "assistant"
      BY <1>5, <1>6, CommittedShape DEF Typed, Own, Answer
    <2>2. p.known = page.known /\ p.error = page.error
      BY <1>5 DEF Committed, Page
    <2>3. page'.error = p.error /\ page'.shown = p.shown
      BY <1>6, <2>1, EndsShape
    <2>4. EndsAnswered
      BY <1>6, <2>1, <2>2, <2>3 DEF EndsAnswered, EndsWithUser
    <2> QED
      BY <1>4, <1>6, <2>1, <2>2, <2>4
  <1>7. CASE SendDone
    BY <1>0, <1>6, <1>7 DEF SendDone
  <1>8. CASE Reread
    <2>1. CASE Ends(Committed(NotedStop(page)))
      BY <1>0, <1>6, <1>8, <2>1 DEF Reread
    <2>2. CASE /\ reads["run"].at = "ready"
               /\ Ends([NotedStop(page) EXCEPT !.shown = reads["run"].thread])
      <3> DEFINE p == [NotedStop(page) EXCEPT !.shown = reads["run"].thread]
      <3>1. reads["run"].thread \in Seq(Message)
        BY DEF Typed, PageTyped, Read
      <3>2. p \in Page /\ p.known = page.known /\ p.error = page.error
            /\ p.shown = reads["run"].thread
        BY <1>5, <3>1 DEF Page
      <3>3. page'.error = p.error /\ page'.shown = p.shown
        BY <2>2, <3>2, EndsShape
      <3>4. EndsReread
        BY <1>8, <2>2, <3>2, <3>3 DEF EndsReread, Reread
      <3> QED
        BY <1>4, <2>2, <3>2, <3>4
    <2> QED
      BY <1>8, <2>1, <2>2 DEF Reread
  <1>9. CASE ReplyFailed
    <2>1. Ends(Cut(page)) /\ answer = "failed"
      BY <1>9 DEF ReplyFailed
    <2>2. Cut(page) \in Page /\ Cut(page).known = page.known
          /\ (Cut(page).notice \/ Cut(page).error = "interrupted")
          /\ Cut(page).error \in {page.error, "interrupted"}
      <3>1. Cut(page).error \in {page.error, "interrupted"}
        BY <1>0 DEF Cut, Page
      <3> QED
        BY <1>0, <3>1, CutShape
    <2>3. page'.error = Cut(page).error /\ page'.notice = Cut(page).notice
      BY <2>1, <2>2, EndsShape
    <2>4. EndsRefused
      BY <2>1, <2>2, <2>3 DEF EndsRefused
    <2> QED
      BY <1>4, <2>1, <2>2, <2>4
  <1>10. ASSUME NEW e \in {"interrupted", "refused"}, Ends([page EXCEPT !.error = e]), ~page.known
         PROVE  RunOutcome
    <2> DEFINE p == [page EXCEPT !.error = e]
    <2>1. p \in Page /\ p.known = page.known /\ p.error = e
      BY <1>0 DEF Page
    <2>2. page'.error = p.error /\ page'.known = p.known
      BY <1>10, <2>1, EndsShape
    <2>3. EndsUnknown
      BY <1>10, <2>1, <2>2 DEF EndsUnknown
    <2> QED
      BY <1>4, <1>10, <2>1, <2>3
  <1>11. CASE ConnectionLost
    <2>1. CASE run.hadId \/ run.at = "reading"
      <3>1. run.at # "idle" /\ \E kind \in {"outcome", "settle"} : HandsOver(kind)
        BY <1>11, <2>1 DEF ConnectionLost, HandsOver
      <3> QED
        BY <1>3, <3>1
    <2>2. CASE ~(run.hadId \/ run.at = "reading")
      <3>1. run.at = "waiting" /\ Ends([page EXCEPT !.error = "interrupted"])
        BY <1>11, <2>2 DEF ConnectionLost
      <3> QED
        BY <1>0, <1>10, <2>2, <3>1
    <2> QED
      BY <2>1, <2>2
  <1>12. CASE NetworkFails
    <2>1. CASE run.hadId
      <3>1. run.at # "idle" /\ \E kind \in {"outcome", "confirm"} : HandsOver(kind)
        BY <1>12, <2>1 DEF NetworkFails
      <3> QED
        BY <1>3, <3>1
    <2>2. CASE ~run.hadId
      <3>1. run.at = "waiting" /\ Ends([page EXCEPT !.error = "refused"])
        BY <1>12, <2>2 DEF NetworkFails
      <3> QED
        BY <1>0, <1>10, <2>2, <3>1
    <2> QED
      BY <2>1, <2>2
  <1>13. ASSUME NEW p \in Page, p.known = page.known, Ends([p EXCEPT !.error = "refused"]),
                answer \in Refusals
         PROVE  RunOutcome
    <2> DEFINE r == [p EXCEPT !.error = "refused"]
    <2>1. r \in Page /\ r.known = page.known /\ r.error = "refused"
      BY <1>13 DEF Page
    <2>2. page'.error = r.error
      BY <1>13, <2>1, EndsShape
    <2>3. EndsRefused
      BY <1>13, <2>1, <2>2 DEF EndsRefused
    <2> QED
      BY <1>4, <1>13, <2>1, <2>3
  <1>14. Dropped(page) \in Page /\ Dropped(page).known = page.known /\ Dropped(page).error = page.error
    <2>1. PICK t \in Seq(Message) : Dropped(page) = [page EXCEPT !.shown = t]
      BY <1>0, DroppedShape
    <2> QED
      BY <1>0, <2>1 DEF Page
  <1>15. ASSUME NEW p \in Page
         PROVE  RestoreHidden(p) \in Page /\ RestoreHidden(p).known = p.known
                /\ RestoreHidden(p).error = p.error
    <2>1. PICK t \in Seq(Message) : RestoreHidden(p) = [p EXCEPT !.shown = t]
      BY <1>0, RestoredShape
    <2> QED
      BY <2>1 DEF Page
  <1>16. CASE Limited
    <2> DEFINE r == RestoreHidden(Dropped(page))
               p == [r EXCEPT !.limited = TRUE]
    <2>1. Ends(p) /\ answer \in Refusals
      BY <1>16 DEF Limited, RefusedWith, Refusals
    <2>2. r \in Page /\ r.known = page.known /\ r.error = page.error
      BY <1>14, <1>15
    <2> HIDE DEF r
    <2>3. p \in Page /\ p.known = page.known /\ p.error = page.error /\ p.limited
      BY <2>2 DEF Page
    <2>4. page'.error = page.error /\ page'.limited
      BY <2>1, <2>3, EndsShape
    <2>5. EndsRefused
      BY <2>1, <2>4 DEF EndsRefused
    <2> QED
      BY <1>4, <2>1, <2>3, <2>5
  <1>17. CASE SendRefused
    <2>1. answer \in Refusals /\ \E p \in {page, Dropped(page)} : Ends([p EXCEPT !.error = "refused"])
      BY <1>17 DEF SendRefused, RefusedWith, Refusals
    <2> QED
      BY <1>0, <1>13, <1>14, <2>1
  <1>18. CASE RetryRefused
    <2>1. run.at # "idle" /\ answer \in Refusals
          /\ \/ \E kind \in {"settle", "confirm"} : HandsOver(kind)
             \/ Ends([RestoreHidden(page) EXCEPT !.error = "refused"])
      BY <1>18 DEF RetryRefused, RefusedWith, Refusals
    <2> QED
      BY <1>0, <1>3, <1>13, <1>15, <2>1
  <1>19. CASE Refetched
    <2> DEFINE p == SettleFree(page, reads["run"].thread)
    <2>1. run.at = "refetching" /\ (HandsOver("settle") \/ Ends(p))
      BY <1>19 DEF Refetched
    <2>2. reads["run"].thread \in Seq(Message)
      BY DEF Typed, PageTyped, Read
    <2>3. p \in Page /\ p.known = page.known
          /\ (EndsWithUser(p.shown) => p.notice \/ p.error = "interrupted")
      BY <1>0, <2>2, SettleFreeShape
    <2>4. p.error \in {page.error, "interrupted"}
      BY <1>0 DEF SettleFree, Settled, Cut, Page
    <2> HIDE DEF p
    <2>5. CASE Ends(p)
      <3>1. page'.error = p.error /\ page'.notice = p.notice /\ page'.shown = p.shown
        BY <2>3, <2>5, EndsShape
      <3>2. EndsRefused
        BY <2>1, <2>3, <2>4, <3>1 DEF EndsRefused
      <3> QED
        BY <1>4, <2>3, <2>5, <3>2
    <2> QED
      BY <1>3, <2>1, <2>5
  <1> QED
    BY <1>2, <1>7, <1>8, <1>9, <1>11, <1>12, <1>16, <1>17, <1>18, <1>19 DEF RunSteps

LoadOutcome ==
    /\ run' = run /\ reads["load"].at # "off" /\ reads'["load"].at = "off"
    /\ reads'["poll"] = reads["poll"] /\ reads'["run"] = reads["run"]
    /\ page'.known = page.known /\ page'.sending = page.sending
    /\ page'.error \in {page.error, "interrupted", "load"}
    /\ page'.loading \/ page'.error # "none" \/ ~EndsWithUser(page'.shown)

LEMMA LoadOutcomes == ASSUME Typed, LoadLands \/ LoadFails PROVE LoadOutcome
  <1>0. /\ page \in Page /\ reads["load"].thread \in Seq(Message)
        /\ page.sending => page.loading
    BY DEF Typed, PageTyped, Read, Owned
  <1>1. /\ run' = run /\ reads["load"].at # "off" /\ reads'["load"].at = "off"
        /\ reads'["poll"] = reads["poll"] /\ reads'["run"] = reads["run"]
    BY ReadFacts DEF LoadLands, LoadFails, Typed
  <1>2. CASE LoadFails
    BY <1>0, <1>1, <1>2 DEF LoadFails, LoadOutcome, Page
  <1>3. CASE LoadLands
    <2> DEFINE p == [page EXCEPT !.shown = reads["load"].thread]
    <2>1. /\ p \in Page /\ p.known = page.known /\ p.sending = page.sending /\ p.error = page.error
          /\ p.loading = page.loading /\ p.shown = reads["load"].thread
      BY <1>0 DEF Page
    <2>2. \/ page' = p /\ page.sending
          \/ page' = [p EXCEPT !.still = TRUE, !.loading = TRUE]
          \/ page' = p /\ ~EndsWithUser(reads["load"].thread)
          \/ page' = [p EXCEPT !.error = "interrupted"]
      BY <1>3 DEF LoadLands
    <2> HIDE DEF p
    <2>3. CASE page' = p /\ page.sending
      BY <1>0, <1>1, <2>1, <2>3 DEF LoadOutcome
    <2>4. CASE page' = [p EXCEPT !.still = TRUE, !.loading = TRUE]
      BY <1>1, <2>1, <2>4 DEF LoadOutcome, Page
    <2>5. CASE page' = p /\ ~EndsWithUser(reads["load"].thread)
      BY <1>1, <2>1, <2>5 DEF LoadOutcome
    <2>6. CASE page' = [p EXCEPT !.error = "interrupted"]
      BY <1>1, <2>1, <2>6 DEF LoadOutcome, Page
    <2> QED
      BY <2>2, <2>3, <2>4, <2>5, <2>6
  <1> QED
    BY <1>2, <1>3

\* A poll that decides says that nothing was sent, or shows what it read.
Decides ==
    /\ poll.at = "reading" /\ reads["poll"].at = "ready" /\ ~reads["poll"].replying
    /\ \/ /\ page'.error = "notSent"
          /\ poll.kind = "outcome" /\ ~Arrived(reads["poll"]) /\ poll.misses > 0
       \/ /\ page'.shown = reads["poll"].thread
          /\ page'.error \in {page.error, "interrupted"}
          /\ EndsWithUser(page'.shown) => page'.notice \/ page'.error = "interrupted"
GivesUp ==
    /\ page'.error = "slow" /\ turns'.blind /\ page'.shown = page.shown
    /\ running # Nobody => running.turn # run.turn
PollOutcome ==
    /\ run' = run /\ reads'["load"] = reads["load"] /\ reads'["run"] = reads["run"]
    /\ poll.at # "off"
    /\ \/ page' = page /\ poll' \in Poll /\ poll'.kind = poll.kind
          /\ \/ poll'.at = "resting" /\ reads'["poll"].at = "off"
             \/ /\ poll'.at = "reading" /\ reads'["poll"].at = "asked"
                /\ poll'.misses = poll.misses /\ (poll.misses > 0 => ~InFlight)
       \/ /\ Decides \/ GivesUp
          /\ ~page'.loading /\ ~page'.sending /\ page'.known = page.known
          /\ poll'.at = "off" /\ reads'["poll"].at = "off"

LEMMA UndecidedMisses ==
  ASSUME poll \in Poll, poll.at = "reading", Undecided(reads["poll"]), PollLands
  PROVE  poll' \in Poll /\ poll'.at = "resting" /\ poll'.kind = poll.kind
  <1>1. poll.misses \in 0 .. 1
    BY DEF Poll
  <1>2. reads["poll"].replying \/ poll.misses = 0
    BY <1>1 DEF Undecided, Enough
  <1>3. poll' = [poll EXCEPT !.at = "resting",
                             !.misses = IF reads["poll"].replying THEN 0 ELSE poll.misses + 1]
    BY DEF PollLands
  <1>4. \E n \in 0 .. 1 : poll' = [poll EXCEPT !.at = "resting", !.misses = n]
    <2>1. CASE reads["poll"].replying
      BY <1>3, <2>1
    <2>2. CASE ~reads["poll"].replying
      <3>1. poll' = [poll EXCEPT !.at = "resting", !.misses = poll.misses + 1]
        BY <1>3, <2>2
      <3>2. poll.misses + 1 \in 0 .. 1
        BY <1>2, <2>2
      <3> QED
        BY <3>1, <3>2
    <2> QED
      BY <2>1, <2>2
  <1> QED
    BY <1>4 DEF Poll

LEMMA PollOutcomes == ASSUME Typed, PollSteps PROVE PollOutcome
  <1>0. page \in Page /\ poll \in Poll /\ reads["poll"].thread \in Seq(Message)
    BY DEF Typed, PageTyped, Read
  <1>1. CASE PollTick
    <2>1. /\ reads'["poll"].at = "asked"
          /\ reads'["load"] = reads["load"] /\ reads'["run"] = reads["run"]
      BY <1>1, ReadFacts DEF PollTick, Typed
    <2>2. poll' \in Poll /\ poll'.kind = poll.kind /\ poll'.at = "reading" /\ poll'.misses = poll.misses
      BY <1>0, <1>1 DEF PollTick, Poll
    <2> QED
      BY <1>1, <2>1, <2>2 DEF PollTick, PollOutcome
  <1>2. PollLands \/ PollFails \/ PollCap =>
          /\ reads'["poll"].at = "off" /\ run' = run /\ poll.at # "off"
          /\ reads'["load"] = reads["load"] /\ reads'["run"] = reads["run"]
    BY ReadFacts DEF PollLands, PollFails, PollCap, Typed
  <1>3. CASE PollFails
    <2>1. poll' \in Poll /\ poll'.kind = poll.kind /\ poll'.at = "resting"
      BY <1>0, <1>3 DEF PollFails, Poll
    <2> QED
      BY <1>2, <1>3, <2>1 DEF PollFails, PollOutcome
  <1>4. CASE PollCap
    <2>1. /\ page'.error = "slow" /\ page'.shown = page.shown /\ page'.known = page.known
          /\ ~page'.loading /\ ~page'.sending
      BY <1>0, <1>4 DEF PollCap, Settled, Page
    <2>2. turns'.blind /\ poll'.at = "off" /\ (running # Nobody => running.turn # run.turn)
      BY <1>4 DEF PollCap, NoPoll, Typed, NetTyped
    <2> QED
      BY <1>2, <1>4, <2>1, <2>2 DEF GivesUp, PollOutcome
  <1>5. CASE PollLands
    <2>0. poll.at = "reading" /\ reads["poll"].at = "ready"
      BY <1>5 DEF PollLands
    <2>1. CASE Undecided(reads["poll"])
      <3>1. page' = page
        BY <1>5, <2>1 DEF PollLands
      <3>2. poll' \in Poll /\ poll'.at = "resting" /\ poll'.kind = poll.kind
        BY <1>0, <1>5, <2>0, <2>1, UndecidedMisses
      <3> QED
        BY <1>2, <1>5, <3>1, <3>2 DEF PollOutcome
    <2>2. CASE ~Undecided(reads["poll"])
      <3>1. ~reads["poll"].replying /\ poll'.at = "off"
        BY <1>5, <2>2 DEF Undecided, PollLands, NoPoll
      <3>2. CASE poll.kind = "outcome" /\ ~Arrived(reads["poll"])
        <4>1. page' = NotSent(page)
          BY <1>5, <2>2, <3>2 DEF PollLands
        <4>2. poll.misses > 0
          <5>1. Enough
            BY <2>2, <3>2 DEF Undecided, Missed
          <5>2. poll.misses \in 0 .. 1 /\ poll.misses + 1 >= 2
            BY <1>0, <5>1 DEF Enough, Poll
          <5> QED
            BY <5>2
        <4>3. /\ ~page'.loading /\ ~page'.sending /\ page'.known = page.known
              /\ page'.error = "notSent"
          <5>1. Settled(page) \in Page /\ ~Settled(page).loading /\ ~Settled(page).sending
                /\ Settled(page).known = page.known
            BY <1>0 DEF Settled, Page
          <5>2. PICK t \in Seq(Message) : Dropped(Settled(page)) = [Settled(page) EXCEPT !.shown = t]
            BY <5>1, DroppedShape
          <5>3. page' = [[Settled(page) EXCEPT !.shown = t] EXCEPT !.error = "notSent"]
            BY <4>1, <5>2 DEF NotSent
          <5> HIDE DEF Settled
          <5> QED
            BY <5>1, <5>3 DEF Page
        <4> QED
          BY <1>2, <1>5, <2>0, <3>1, <3>2, <4>2, <4>3 DEF Decides, PollOutcome
      <3>3. CASE ~(poll.kind = "outcome" /\ ~Arrived(reads["poll"]))
        <4>1. page' = SettleFree(page, reads["poll"].thread)
          BY <1>5, <2>2, <3>3 DEF PollLands
        <4>2. SettleFree(page, reads["poll"].thread).error \in {page.error, "interrupted"}
          BY <1>0 DEF SettleFree, Settled, Cut, Page
        <4>3. /\ ~page'.loading /\ ~page'.sending /\ page'.known = page.known
              /\ page'.shown = reads["poll"].thread
              /\ EndsWithUser(page'.shown) => page'.notice \/ page'.error = "interrupted"
          BY <1>0, <4>1, SettleFreeShape
        <4> QED
          BY <1>2, <1>5, <2>0, <3>1, <4>1, <4>2, <4>3 DEF Decides, PollOutcome
      <3> QED
        BY <3>2, <3>3
    <2> QED
      BY <2>1, <2>2
  <1> QED
    BY <1>1, <1>3, <1>4, <1>5 DEF PollSteps

StopOutcome ==
    /\ UNCHANGED <<run, reads, poll>>
    /\ page'.shown = page.shown /\ page'.known = page.known /\ page'.limited = page.limited
    /\ page'.loading = page.loading /\ page'.sending = page.sending
    /\ \/ page'.error = page.error
       \/ page'.error = "interrupted" /\ ~page.sending
    /\ \/ page'.notice = page.notice
       \/ page.sending \/ page'.error = "interrupted" \/ ~EndsWithUser(page.shown)

LEMMA StopOutcomes == ASSUME Typed, Stop \/ StopSteps PROVE StopOutcome
  <1>0. page \in Page
    BY DEF Typed, PageTyped
  <1>1. UNCHANGED <<run, reads, poll>>
    BY DEF Stop, StopSteps, Stopped, StopFails, StopRefused, StopSettles
  <1>2. CASE Stop
    BY <1>0, <1>1, <1>2 DEF Stop, StopOutcome, Page
  <1>3. CASE StopSteps
    <2> DEFINE p == [page EXCEPT !.stopped = FALSE]
    <2>1. /\ p \in Page /\ p.shown = page.shown /\ p.known = page.known
          /\ p.limited = page.limited /\ p.loading = page.loading /\ p.sending = page.sending
          /\ p.error = page.error /\ p.notice = page.notice
      BY <1>0 DEF Page
    <2>2. page' \in {page, p} \/ (page' = Unnoted(p) /\ ~page.sending)
      BY <1>3 DEF StopSteps, Stopped, StopFails, StopRefused, StopSettles
    <2>3. Unnoted(p).limited = p.limited
      BY <2>1 DEF Unnoted, Page
    <2> HIDE DEF p
    <2>4. CASE page' \in {page, p}
      BY <1>1, <2>1, <2>4 DEF StopOutcome
    <2>5. CASE page' = Unnoted(p) /\ ~page.sending
      BY <1>1, <2>1, <2>3, <2>5, UnnotedShape DEF StopOutcome
    <2> QED
      BY <2>2, <2>4, <2>5
  <1> QED
    BY <1>2, <1>3
-----------------------------------------------------------------------------
\* What the page shows as a reply is stored.

Stored(m) == m.role = "assistant" => [m EXCEPT !.local = FALSE] \in ever
Replies ==
    /\ \A m \in ever : ~m.local
    /\ \A m \in ToSet(page.shown) \cup ToSet(run.hidden) : Stored(m)
    /\ \A k \in {"load", "poll", "run"} : ToSet(reads[k].thread) \subseteq ever
    /\ run.turn # None /\ (answer = "done" \/ run.at = "rereading") => OwnReply \in ever

LEMMA SameMessage ==
  ASSUME NEW m \in Message, NEW n \in Message,
         m.role = n.role, m.of = n.of, m.by = n.by, m.local = n.local
  PROVE  m = n
  <1>1. PICK r \in {"user", "assistant"}, o \in Turn, b \in Turn, l \in BOOLEAN :
          m = [role |-> r, of |-> o, by |-> b, local |-> l]
    BY Zenon DEF Message
  <1>2. PICK r2 \in {"user", "assistant"}, o2 \in Turn, b2 \in Turn, l2 \in BOOLEAN :
          n = [role |-> r2, of |-> o2, by |-> b2, local |-> l2]
    BY Zenon DEF Message
  <1> QED
    BY <1>1, <1>2

LEMMA PlainMessage ==
  /\ \A m \in Message : ~m.local => [m EXCEPT !.local = FALSE] = m
  /\ \A q, t \in Turn : [Own(Answer(q, t)) EXCEPT !.local = FALSE] = Answer(q, t)
  <1>1. ASSUME NEW m \in Message, ~m.local PROVE [m EXCEPT !.local = FALSE] = m
    <2>1. [m EXCEPT !.local = FALSE] \in Message
      BY MessageFacts
    <2>2. m.local = FALSE
      BY <1>1 DEF Message
    <2> QED
      BY <2>1, <2>2, SameMessage DEF Message
  <1>2. ASSUME NEW q \in Turn, NEW t \in Turn
        PROVE  [Own(Answer(q, t)) EXCEPT !.local = FALSE] = Answer(q, t)
    <2> DEFINE a == Answer(q, t)
               m == [Own(a) EXCEPT !.local = FALSE]
    <2>1. a \in Message /\ m \in Message
      BY MessageFacts
    <2>2. a.local = FALSE
      BY DEF Answer
    <2>3. m.role = a.role /\ m.of = a.of /\ m.by = a.by /\ m.local = FALSE
      <3> HIDE DEF a
      <3> QED
        BY <2>1 DEF Own, Message
    <2> HIDE DEF a, m
    <2>4. m = a
      BY <2>1, <2>2, <2>3, SameMessage
    <2> QED
      BY <2>4 DEF a, m
  <1> QED
    BY <1>1, <1>2

\* Nothing that was stored is forgotten.
LEMMA EverGrows ==
  ASSUME Typed, Served, Seen, [Next]_vars
  PROVE  /\ ever \subseteq ever'
         /\ (\A m \in ever : ~m.local) => \A m \in ever' : ~m.local
  <1>1. Question(1).local = FALSE /\ \A t : ~Question(t).local
    BY DEF Question
  <1>2. \A q, t : ~Answer(q, t).local
    BY DEF Answer
  <1>3. ASSUME NEW q \in requests, Accept(q)
        PROVE  ever \subseteq ever' /\ \A m \in ever' : m \in ever \/ m = Question(q.turn)
    BY <1>3 DEF Accept, Stores
  <1>4. SaveReply => ever \subseteq ever' /\ \A m \in ever' : m \in ever \/ m = Answer(running.of, running.turn)
    BY DEF SaveReply, Stores
  <1>5. OtherSends => ever \subseteq ever' /\ \A m \in ever' : m \in ever \/ m = Question(NextTurn)
    BY DEF OtherSends, Stores
  <1>6. \/ \E q \in requests : Accept(q)
        \/ SaveReply \/ OtherSends
        \/ ever' = ever
    <2>1. CASE UNCHANGED vars
      BY <2>1 DEF vars, serverVars
    <2>2. CASE RunSteps \/ LoadLands \/ LoadFails \/ PollSteps \/ Stop \/ StopSteps
      BY <2>2, PageAlone DEF Typed, serverVars
    <2>3. CASE Send \/ Retry
      BY <2>3 DEF Send, Retry, Request, serverVars
    <2>4. ASSUME NEW q \in requests, Refuse(q) \/ LoseRequest(q) PROVE ever' = ever
      BY <2>4 DEF Refuse, LoseRequest, serverVars
    <2>5. ASSUME NEW s \in stops, StopReply(s) \/ LoseStop(s) PROVE ever' = ever
      BY <2>5 DEF StopReply, LoseStop, serverVars
    <2>6. ASSUME NEW k \in DOMAIN reads, GetOwnedDetail(k) PROVE ever' = ever
      BY <2>6 DEF GetOwnedDetail, serverVars
    <2>7. CASE DropReply \/ OtherRetries \/ Delete
      BY <2>7 DEF DropReply, OtherRetries, Delete
    <2> QED
      BY <2>1, <2>2, <2>3, <2>4, <2>5, <2>6, <2>7 DEF Next
  <1> QED
    BY <1>1, <1>2, <1>3, <1>4, <1>5, <1>6

\* Only the end of its own turn tells the page that it is done.
LEMMA DoneIsStored ==
  ASSUME Typed, Same, [Next]_vars, answer' = "done" \/ run'.at = "rereading", run'.turn # None,
         answer = "done" \/ run.at = "rereading" => OwnReply \in ever,
         ever \subseteq ever'
  PROVE  OwnReply' \in ever'
  <1>0. OwnReply' = Answer(run'.after, run'.turn)
    BY DEF OwnReply
  <1>1. ASSUME run'.turn = run.turn, run'.after = run.after, answer = "done" \/ run.at = "rereading"
        PROVE  OwnReply' \in ever'
    BY <1>0, <1>1 DEF OwnReply
  <1>2. CASE UNCHANGED vars
    BY <1>1, <1>2 DEF vars, netVars, pageVars
  <1>3. ASSUME NEW q \in requests, Refuse(q) \/ Accept(q) \/ LoseRequest(q)
        PROVE  OwnReply' \in ever'
    <2>1. run' = run /\ (answer' = "done" => answer = "done")
      BY <1>3 DEF Refuse, Accept, LoseRequest, Tells, RefusalOf, pageVars
    <2> QED
      BY <1>1, <2>1
  <1>4. CASE SaveReply
    <2>1. run' = run /\ (answer' = "done" => answer = "done" \/ Streams)
      BY <1>4 DEF SaveReply, pageVars
    <2>2. CASE Streams
      <3>1. running.turn = run.turn /\ running # Nobody
            /\ Answer(running.of, running.turn) \in ever'
        BY <1>4, <2>2 DEF SaveReply, Stores, Streams
      <3>2. running.of = run.after
        BY <3>1 DEF Same
      <3> QED
        BY <1>0, <2>1, <3>1, <3>2
    <2> QED
      BY <1>1, <2>1, <2>2
  <1>5. CASE DropReply \/ Delete
    BY <1>1, <1>5 DEF DropReply, Delete, pageVars
  <1>6. ASSUME NEW s \in stops, StopReply(s) \/ LoseStop(s) PROVE OwnReply' \in ever'
    BY <1>1, <1>6 DEF StopReply, LoseStop, pageVars
  <1>7. ASSUME NEW k \in DOMAIN reads, GetOwnedDetail(k) PROVE OwnReply' \in ever'
    BY <1>1, <1>7 DEF GetOwnedDetail, pageVars, netVars
  <1>8. CASE OtherSends \/ OtherRetries
    BY <1>1, <1>8 DEF OtherSends, OtherRetries, pageVars, netVars
  <1>9. CASE Send \/ Retry
    <2>1. answer' = "none" /\ run'.at = "waiting"
      BY <1>9, RequestShape DEF Send, Retry, Typed
    <2> QED
      BY <2>1
  <1>10. CASE RunSteps \/ LoadLands \/ LoadFails \/ PollSteps \/ Stop \/ StopSteps
    <2>1. run'.turn = run.turn /\ run'.after = run.after
      BY <1>10, RunGoesOn
    <2>2. answer = "done" \/ run.at = "rereading"
      BY <1>10, RunMoves DEF Streaming, Refusals
    <2> QED
      BY <1>1, <2>1, <2>2
  <1> QED
    BY <1>2, <1>3, <1>4, <1>5, <1>6, <1>7, <1>8, <1>9, <1>10 DEF Next

\* What a message shown was stored as stays stored.
LEMMA StoredSources ==
  ASSUME Typed, Replies, Sources, ever \subseteq ever'
  PROVE  /\ \A m \in ToSet(page'.shown) \cup ToSet(run'.hidden) : Stored(m)'
         /\ \A k \in {"load", "poll", "run"} : ToSet(reads'[k].thread) \subseteq ever'
  <1>1. \A m \in ever : Stored(m)
    BY PlainMessage DEF Typed, ServerTyped, Replies, Stored
  <1>2. run.turn # None => Own(OwnReply).role = "assistant" /\ [Own(OwnReply) EXCEPT !.local = FALSE] = OwnReply
    <2>1. run.turn # None => run.turn \in Turn /\ run.after \in Turn
      BY DEF Typed, PageTyped, Run
    <2> QED
      BY <2>1, PlainMessage DEF OwnReply, Own, Answer
  <1>3. \A m : Source(m) => Stored(m)
    BY <1>1, <1>2 DEF Source, Replies, Stored
  <1>4. \A m : Stored(m) => Stored(m)'
    BY DEF Stored
  <1>5. ToSet(thread) \subseteq ever
    BY DEF Typed, ServerTyped
  <1>6. \A k \in {"load", "poll", "run"} : ToSet(reads'[k].thread) \subseteq ever
    BY <1>5 DEF Sources, Replies
  <1> QED
    BY <1>3, <1>4, <1>6 DEF Sources, Replies

LEMMA RepliesStep == Typed /\ Served /\ Seen /\ Same /\ Replies /\ [Next]_vars => Replies'
  <1> SUFFICES ASSUME Typed, Served, Seen, Same, Replies, [Next]_vars PROVE Replies'
    OBVIOUS
  <1>1. ever \subseteq ever' /\ \A m \in ever' : ~m.local
    BY EverGrows DEF Replies
  <1>2. run.turn = None => answer # "done" \/ run.at = "idle"
    BY DEF Typed, PageTyped
  <1>3. run'.turn # None /\ (answer' = "done" \/ run'.at = "rereading") => OwnReply' \in ever'
    <2>1. CASE run.turn # None
      BY <1>1, <2>1, DoneIsStored DEF Replies
    <2>2. CASE run.turn = None /\ run'.turn # None
      <3>1. Send \/ Retry
        <4>1. UNCHANGED run => FALSE
          BY <2>2
        <4>2. RunSteps \/ LoadLands \/ LoadFails \/ PollSteps \/ Stop \/ StopSteps => FALSE
          BY <2>2, RunGoesOn
        <4> QED
          BY <4>1, <4>2 DEF Next, Refuse, Accept, LoseRequest, SaveReply, DropReply, Delete,
             StopReply, LoseStop, GetOwnedDetail, OtherSends, OtherRetries, pageVars, vars
      <3>2. answer' = "none" /\ run'.at = "waiting"
        BY <3>1, RequestShape DEF Send, Retry, Typed
      <3> QED
        BY <3>2
    <2> QED
      BY <2>1, <2>2
  <1>4. ASSUME Sources PROVE Replies'
    BY <1>1, <1>3, <1>4, StoredSources DEF Replies
  <1>5. ASSUME UNCHANGED <<page, run, reads>> PROVE Replies'
    <2>1. Sources
      BY <1>5 DEF Sources, Source
    <2> QED
      BY <1>4, <2>1
  <1>6. CASE Send \/ Retry
    <2>1. PICK kind \in {"send", "retry"}, after \in Turn, hidden \in Seq(Message),
               t \in Seq(Message) :
            /\ Request(kind, after, hidden) /\ Starts(t)
            /\ \A m \in ToSet(t) : m \in ToSet(page.shown) \/ m = Own(Question(NextTurn))
            /\ ToSet(hidden) \subseteq ToSet(page.shown)
      BY <1>6, AsksShape
    <2>2. page'.shown = t /\ run'.hidden = hidden /\ UNCHANGED <<ever, reads>>
      BY <2>1, RequestShape, StartsShape DEF Typed
    <2>3. Own(Question(NextTurn)).role = "user"
      BY DEF Own, Question
    <2>4. \A m \in ToSet(t) \cup ToSet(hidden) : Stored(m)
      BY <2>1, <2>3 DEF Replies, Stored
    <2> QED
      BY <1>1, <1>3, <2>2, <2>4 DEF Replies, Stored
  <1>7. CASE RunSteps \/ LoadLands \/ LoadFails \/ PollSteps \/ Stop \/ StopSteps
    BY <1>4, <1>7, StreamSources, RefusalSources, PollSources DEF RunSteps
  <1>8. ASSUME NEW k \in DOMAIN reads, GetOwnedDetail(k) PROVE Replies'
    BY <1>4, <1>8, ReadSources
  <1> QED
    BY <1>5, <1>6, <1>7, <1>8 DEF Next, Refuse, Accept, LoseRequest, SaveReply, DropReply, Delete,
       StopReply, LoseStop, OtherSends, OtherRetries, pageVars, vars

LEMMA RepliesInit == Init => Replies
  <1> SUFFICES ASSUME Init PROVE Replies
    OBVIOUS
  <1>1. page.shown = <<>> /\ run.hidden = <<>> /\ run.turn = None
        /\ \A k \in {"load", "poll", "run"} : reads[k].thread = <<>>
    BY DEF Init, NoRun, NoRead
  <1>2. \A m \in ever : ~m.local
    <2>1. ToSet(<<Question(1)>>) = {Question(1)}
          /\ ToSet(<<Question(1), Answer(1, 1)>>) = {Question(1), Answer(1, 1)}
      BY InitFacts, OneThread, TwoThread
    <2>2. ~Question(1).local /\ ~Answer(1, 1).local
      BY DEF Question, Answer
    <2> QED
      BY <2>1, <2>2, InitFacts, NoneIn
  <1> QED
    BY <1>1, <1>2, NoneIn DEF Replies

-----------------------------------------------------------------------------
\* A question of the page's that no reply follows is explained.

Explained ==
    /\ (~page.loading /\ EndsWithUser(page.shown) /\ Last(page.shown).of = run.turn)
         => page.error # "none" \/ page.notice \/ page.limited
    /\ run.at = "rereading" => run.kind = "retry"

LEMMA RereadAsksNothing ==
  ASSUME Typed, Same, Replies, run.at = "rereading", run.kind = "retry",
         EndsWithUser(reads["run"].thread)
  PROVE  Last(reads["run"].thread).of # run.turn
  <1> DEFINE t == reads["run"].thread
  <1>1. t \in Seq(Message) /\ t # <<>> /\ ToSet(t) \subseteq ever /\ Last(t).role = "user"
    BY DEF Typed, PageTyped, Read, Replies, EndsWithUser
  <1> HIDE DEF t
  <1>2. Last(t) \in ToSet(t)
    <2>1. DOMAIN t = 1 .. Len(t) /\ Len(t) \in Nat \ {0}
      BY <1>1, LenProperties, EmptySeq
    <2> QED
      BY <2>1 DEF Last, ToSet
  <1>3. run.turn # None /\ run.after # run.turn
    BY DEF Typed, PageTyped, Same
  <1> QED
    BY <1>1, <1>2, <1>3 DEF Same, t

\* Only the page acts on the page.
LEMMA PageActs ==
  ASSUME [Next]_vars
  PROVE  \/ UNCHANGED pageVars
         \/ Send \/ Retry
         \/ RunSteps \/ LoadLands \/ LoadFails \/ PollSteps \/ Stop \/ StopSteps
  BY DEF Next, Refuse, Accept, LoseRequest, SaveReply, DropReply, Delete, StopReply, LoseStop,
     GetOwnedDetail, OtherSends, OtherRetries, vars

LEMMA ExplainedStep ==
  Typed /\ Served /\ Seen /\ Same /\ Replies /\ Explained /\ [Next]_vars => Explained'
  <1> SUFFICES ASSUME Typed, Served, Seen, Same, Replies, Explained, [Next]_vars
               PROVE  Explained'
    OBVIOUS
  <1>1. CASE UNCHANGED pageVars
    BY <1>1 DEF Explained, pageVars
  <1>2. CASE Send \/ Retry
    <2>1. page'.loading /\ run'.at = "waiting"
      BY <1>2, AsksShape, RequestShape, StartsShape DEF Typed
    <2> QED
      BY <2>1 DEF Explained
  <1>3. CASE RunSteps \/ LoadLands \/ LoadFails \/ PollSteps \/ Stop \/ StopSteps
    <2>1. run'.turn = run.turn /\ (run'.at = "rereading" => run'.kind = "retry")
      BY <1>3, RunGoesOn, RunMoves DEF Explained
    <2>2. CASE RunSteps
      <3>1. RunOutcome
        BY <2>2, RunOutcomes
      <3>2. CASE GoesOn
        <4>1. page.loading
          BY <3>2 DEF GoesOn, Typed, Owned
        <4> QED
          BY <2>1, <3>2, <4>1 DEF GoesOn, Explained
      <3>3. CASE EndsReread
        BY <2>1, <3>3, RereadAsksNothing DEF EndsReread, Explained
      <3>4. CASE EndsUnknown \/ EndsAnswered \/ EndsRefused
        BY <2>1, <3>4 DEF EndsUnknown, EndsAnswered, EndsRefused, Explained
      <3> QED
        BY <3>1, <3>2, <3>3, <3>4 DEF RunOutcome
    <2>3. CASE LoadLands \/ LoadFails
      BY <2>1, <2>3, LoadOutcomes DEF LoadOutcome, Explained
    <2>4. CASE PollSteps
      BY <2>1, <2>4, PollOutcomes DEF PollOutcome, Decides, GivesUp, Explained
    <2>5. CASE Stop \/ StopSteps
      <3>1. StopOutcome
        BY <2>5, StopOutcomes
      <3>2. page.sending => page.loading
        BY DEF Typed, Owned
      <3> QED
        BY <2>1, <3>1, <3>2 DEF StopOutcome, Explained
    <2> QED
      BY <1>3, <2>2, <2>3, <2>4, <2>5
  <1> QED
    BY <1>1, <1>2, <1>3, PageActs

LEMMA ExplainedInit == Init => Explained
  BY DEF Init, Explained, NoRun, EndsWithUser

-----------------------------------------------------------------------------
\* "Not sent" is said once no request is under way and a re-read has missed the question.

Asked == Question(run.turn) \in ToSet(thread)
NotSentKept ==
    /\ page.error = "notSent" => ~InFlight /\ ~Asked
    /\ poll.at = "reading" /\ poll.kind = "outcome" /\ poll.misses > 0
         => /\ ~InFlight
            /\ reads["poll"].at = "ready" /\ Asked
                 => Question(run.turn) \in ToSet(reads["poll"].thread)

\* The page's question reaches the thread only by its own request.
LEMMA AskedByRequest ==
  ASSUME Typed, Served, Seen, [Next]_vars, run'.turn = run.turn
  PROVE  /\ InFlight' => InFlight
         /\ ~InFlight /\ Asked' => Asked
  <1>0. /\ \A t : Question(t).of = t /\ Question(t).role = "user"
        /\ \A q, t : Answer(q, t).role = "assistant"
    BY DEF Question, Answer
  <1>1. CASE UNCHANGED <<thread, requests, run>>
    BY <1>1 DEF InFlight, Asked
  <1>2. ASSUME NEW q \in requests, Refuse(q) \/ LoseRequest(q)
        PROVE  (InFlight' => InFlight) /\ (~InFlight /\ Asked' => Asked)
    BY <1>2 DEF Refuse, LoseRequest, serverVars, pageVars, InFlight, Asked
  <1>3. ASSUME NEW q \in requests, Accept(q)
        PROVE  (InFlight' => InFlight) /\ (~InFlight /\ Asked' => Asked)
    <2>1. run' = run /\ requests' = requests \ {q} /\ q \in RequestType
      BY <1>3 DEF Accept, pageVars, Typed, NetTyped
    <2>2. ToSet(thread') \subseteq ToSet(thread) \cup {Question(q.turn)}
      <3>1. CASE q.kind = "send"
        <4>1. thread' = Append(thread, Question(q.turn)) /\ Question(q.turn) \in Message
          BY <1>3, <2>1, <3>1, MessageFacts DEF Accept, Stores, RequestType
        <4> QED
          BY <4>1, AppendedThread DEF Typed, ServerTyped
      <3>2. CASE q.kind # "send"
        <4>1. thread' = thread \/ (Answered(thread, q.after) /\ thread' = Front(thread))
          BY <1>3, <3>2 DEF Accept, Replaced
        <4>2. Answered(thread, q.after) => thread # <<>>
          BY EmptySeq DEF Typed, ServerTyped, Answered
        <4> QED
          BY <4>1, <4>2, CutThread DEF Typed, ServerTyped
      <3> QED
        BY <3>1, <3>2
    <2>3. ~InFlight => Question(run.turn) # Question(q.turn)
      BY <1>0, <1>3 DEF InFlight
    <2> QED
      BY <2>1, <2>2, <2>3 DEF InFlight, Asked
  <1>4. CASE SaveReply
    <2>1. /\ thread' = Append(thread, Answer(running.of, running.turn))
          /\ Answer(running.of, running.turn) \in Message /\ UNCHANGED <<run, requests>>
      BY <1>4, MessageFacts DEF SaveReply, Stores, pageVars, Typed, ServerTyped
    <2>2. ToSet(thread') = ToSet(thread) \cup {Answer(running.of, running.turn)}
      BY <2>1, AppendedThread DEF Typed, ServerTyped
    <2>3. Question(run.turn) # Answer(running.of, running.turn)
      BY <1>0
    <2> QED
      BY <2>1, <2>2, <2>3 DEF InFlight, Asked
  <1>5. CASE DropReply
    BY <1>1, <1>5 DEF DropReply, pageVars
  <1>6. CASE Delete
    BY <1>6, NoneIn DEF Delete, pageVars, InFlight, Asked
  <1>7. CASE OtherSends
    <2>1. /\ thread' = Append(thread, Question(NextTurn)) /\ Question(NextTurn) \in Message
          /\ UNCHANGED <<run, requests>>
      BY <1>7, OtherThread, MessageFacts DEF OtherSends, Stores, pageVars, netVars
    <2>2. ToSet(thread') = ToSet(thread) \cup {Question(NextTurn)}
      BY <2>1, AppendedThread DEF Typed, ServerTyped
    <2>3. Question(run.turn) # Question(NextTurn)
      BY <1>0, Before
    <2> QED
      BY <2>1, <2>2, <2>3 DEF InFlight, Asked
  <1>8. CASE OtherRetries
    <2>1. UNCHANGED <<run, requests>>
          /\ \E q : thread' = thread \/ (Answered(thread, q) /\ thread' = Front(thread))
      BY <1>8 DEF OtherRetries, pageVars, netVars
    <2>2. \A q : Answered(thread, q) => thread # <<>>
      BY EmptySeq DEF Typed, ServerTyped, Answered
    <2>3. ToSet(thread') \subseteq ToSet(thread)
      BY <2>1, <2>2, CutThread DEF Typed, ServerTyped
    <2> QED
      BY <2>1, <2>3 DEF InFlight, Asked
  <1>9. CASE Send \/ Retry
    <2>1. run'.turn = NextTurn
      BY <1>9, RequestShape DEF Send, Retry, Typed
    <2> QED
      BY <2>1, Before
  <1>10. CASE RunSteps \/ LoadLands \/ LoadFails \/ PollSteps \/ Stop \/ StopSteps
    <2>1. UNCHANGED <<thread, requests>>
      BY <1>10, PageAlone DEF Typed, serverVars
    <2> QED
      BY <2>1 DEF InFlight, Asked
  <1>11. ASSUME NEW s \in stops, StopReply(s) \/ LoseStop(s)
         PROVE  UNCHANGED <<thread, requests, run>>
    BY <1>11 DEF StopReply, LoseStop, serverVars, pageVars
  <1>12. ASSUME NEW k \in DOMAIN reads, GetOwnedDetail(k)
         PROVE  UNCHANGED <<thread, requests, run>>
    BY <1>12 DEF GetOwnedDetail, serverVars, pageVars, netVars
  <1>13. CASE UNCHANGED vars
    BY <1>1, <1>13 DEF vars, serverVars, pageVars, netVars
  <1> QED
    BY <1>1, <1>2, <1>3, <1>4, <1>5, <1>6, <1>7, <1>8, <1>9, <1>10, <1>11, <1>12, <1>13 DEF Next

LEMMA NotSentStep ==
  Typed /\ Served /\ Seen /\ Same /\ NotSentKept /\ [Next]_vars => NotSentKept'
  <1> SUFFICES ASSUME Typed, Served, Seen, Same, NotSentKept, [Next]_vars
               PROVE  NotSentKept'
    OBVIOUS
  <1>0. run'.turn = run.turn =>
          /\ Question(run'.turn) = Question(run.turn)
          /\ InFlight' => InFlight
          /\ ~InFlight /\ Asked' => Asked
    BY AskedByRequest
  <1>1. ASSUME UNCHANGED <<run, poll>>, page'.error = page.error, reads'["poll"] = reads["poll"]
        PROVE  NotSentKept'
    BY <1>0, <1>1 DEF NotSentKept
  <1>2. ASSUME NEW k \in DOMAIN reads, GetOwnedDetail(k)
        PROVE  NotSentKept'
    <2>1. k \in {"load", "poll", "run"} /\ reads[k] \in Read /\ UNCHANGED <<page, run, poll, thread>>
      BY <1>2 DEF GetOwnedDetail, Typed, PageTyped, pageVars, serverVars
    <2>2. CASE k # "poll"
      <3>1. reads'["poll"] = reads["poll"]
        BY <1>2, <2>1, <2>2 DEF GetOwnedDetail, Typed, PageTyped
      <3> QED
        BY <1>1, <2>1, <3>1
    <2>3. CASE k = "poll"
      <3>1. reads'["poll"].at = "ready" => reads'["poll"].thread = thread
        <4>1. CASE reads[k].at = "asked"
          <5>1. SeesRow(reads[k]) \in Read
            BY <2>1 DEF SeesRow, Read
          <5>2. reads'[k] = [SeesRow(reads[k]) EXCEPT !.at = "half"]
            BY <1>2, <2>1, <4>1 DEF GetOwnedDetail, Sees, Typed, PageTyped
          <5> QED
            BY <2>3, <5>1, <5>2 DEF Read
        <4>2. CASE reads[k].at # "asked"
          <5>1. SeesMessages(reads[k]) \in Read /\ SeesMessages(reads[k]).thread = thread
            BY <2>1 DEF SeesMessages, Read, Typed, ServerTyped
          <5>2. reads'[k] = [SeesMessages(reads[k]) EXCEPT !.at = "ready"]
            BY <1>2, <2>1, <4>2 DEF GetOwnedDetail, Sees, Typed, PageTyped
          <5> QED
            BY <2>3, <5>1, <5>2 DEF Read
        <4> QED
          BY <4>1, <4>2
      <3> QED
        BY <1>0, <2>1, <3>1 DEF NotSentKept, Asked
    <2> QED
      BY <2>2, <2>3
  <1>3. CASE Send \/ Retry
    <2>1. page'.error = "none" /\ poll' = poll /\ poll.at = "off"
      <3>1. PICK kind \in {"send", "retry"}, after \in Turn, hidden \in Seq(Message),
                 t \in Seq(Message) : Request(kind, after, hidden) /\ Starts(t) /\ ~Busy
        BY <1>3, AsksShape
      <3>2. poll' = poll /\ page'.error = "none"
        BY <3>1, RequestShape, StartsShape DEF Typed
      <3> QED
        BY <3>1, <3>2 DEF Busy, Typed, Owned
    <2> QED
      BY <2>1 DEF NotSentKept
  <1>4. CASE RunSteps
    <2>1. run'.turn = run.turn
      BY <1>4, RunGoesOn
    <2>2. page'.error = "notSent" => page.error = "notSent"
      BY <1>4, RunOutcomes
         DEF RunOutcome, GoesOn, EndsUnknown, EndsAnswered, EndsReread, EndsRefused
    <2>3. poll'.at # "reading"
      <3>1. run.at # "idle"
        BY <1>4 DEF RunSteps, Prelude, SendDone, RetryDone, Reread, ReplyFailed, ConnectionLost,
           NetworkFails, Limited, SendRefused, RetryRefused, Refetch, Refetched, RefusedWith
      <3>2. poll' = poll \/ poll'.at = "resting"
        BY <1>4 DEF RunSteps, Prelude, SendDone, RetryDone, Reread, ReplyFailed, ConnectionLost,
           NetworkFails, Limited, SendRefused, RetryRefused, Refetch, Refetched, HandsOver, NoPoll
      <3> QED
        BY <3>1, <3>2 DEF Typed, Owned
    <2> QED
      BY <1>0, <2>1, <2>2, <2>3 DEF NotSentKept
  <1>5. CASE LoadLands \/ LoadFails
    <2>1. LoadOutcome
      BY <1>5, LoadOutcomes
    <2>2. poll' = poll \/ poll'.at = "resting"
      BY <1>5 DEF LoadLands, LoadFails, NoPoll
    <2> QED
      BY <1>0, <2>1, <2>2 DEF LoadOutcome, NotSentKept
  <1>6. CASE PollSteps
    <2>1. PollOutcome
      BY <1>6, PollOutcomes
    <2>2. UNCHANGED <<thread, requests>> /\ run' = run
      BY <1>6, <2>1, PageAlone DEF Typed, serverVars, PollOutcome
    <2>3. (InFlight' <=> InFlight) /\ (Asked' <=> Asked)
      BY <2>2 DEF InFlight, Asked
    <2>4. CASE page' = page /\ poll'.kind = poll.kind /\ poll'.at = "resting"
      BY <2>2, <2>3, <2>4 DEF NotSentKept
    <2>5. CASE /\ page' = page /\ poll'.at = "reading" /\ reads'["poll"].at = "asked"
               /\ poll'.misses = poll.misses /\ (poll.misses > 0 => ~InFlight)
      BY <2>2, <2>3, <2>5 DEF NotSentKept
    <2>6. CASE Decides /\ poll'.at = "off"
      <3>1. page'.error = "notSent" => ~InFlight /\ ~Asked
        <4>1. CASE /\ page'.error = "notSent"
                   /\ poll.kind = "outcome" /\ ~Arrived(reads["poll"]) /\ poll.misses > 0
          <5>1. Question(run.turn) \notin ToSet(reads["poll"].thread)
            BY <4>1 DEF Arrived, ToSet
          <5> QED
            BY <2>6, <4>1, <5>1 DEF Decides, NotSentKept
        <4>2. CASE page'.error \in {page.error, "interrupted"}
          BY <4>2 DEF NotSentKept
        <4> QED
          BY <2>6, <4>1, <4>2 DEF Decides
      <3> QED
        BY <2>3, <2>6, <3>1 DEF NotSentKept
    <2>7. CASE GivesUp /\ poll'.at = "off"
      BY <2>7 DEF GivesUp, NotSentKept
    <2> QED
      BY <2>1, <2>4, <2>5, <2>6, <2>7 DEF PollOutcome
  <1>7. CASE Stop \/ StopSteps
    <2>1. StopOutcome
      BY <1>7, StopOutcomes
    <2> QED
      BY <1>0, <2>1 DEF StopOutcome, NotSentKept
  <1> QED
    BY <1>1, <1>2, <1>3, <1>4, <1>5, <1>6, <1>7 DEF Next, Refuse, Accept, LoseRequest, SaveReply,
       DropReply, Delete, StopReply, LoseStop, OtherSends, OtherRetries, pageVars, netVars, vars

LEMMA NotSentInit == Init => NotSentKept
  BY DEF Init, NotSentKept, NoPoll

\* "Not sent" is never said of a question the server holds, however the request and the
\* two re-reads that miss it are delayed (pollForOutcome).
THEOREM NotSentIsSo == Spec => []NotSentIsTrue
  <1> DEFINE I == Typed /\ Served /\ Seen /\ Same /\ NotSentKept
  <1>1. Init => I
    BY TypedInit, ServedInit, SameInit, NotSentInit
  <1>2. I /\ [Next]_vars => I'
    BY TypedStep, ServedStep, SameStep, NotSentStep
  <1>3. I => NotSentIsTrue
    BY DEF NotSentKept, NotSentIsTrue, Asked
  <1> QED
    BY <1>1, <1>2, <1>3, PTL DEF Spec
-----------------------------------------------------------------------------
\* Whose turn holds the conversation, as far as the page can know.

Past == running.turn # run.turn
Given == run.turn \in turns.late
Settling ==
    /\ \A t \in turns.late : t <= turns.last
    /\ answer # "none" => run.at # "idle"
    /\ \A q \in requests :
         q.turn \in turns.late \/ (q.turn = run.turn /\ run.at = "waiting" /\ answer = "none")
    /\ running.turn \in {None, run.turn} \cup turns.others \cup turns.late
    /\ run.at # "idle" => ~Given
    /\ run.turn # None /\ ~page.sending /\ page.known /\ ~Given => Past
    /\ answer \in {"done", "failed"} \cup Refusals \/ run.at \in {"rereading", "refetching"} => Past
    /\ ~Given /\ run.turn # None /\ reads["poll"].at \in {"half", "ready"}
         /\ ~reads["poll"].replying => Past

LEMMA SettlingKept ==
  ASSUME Settling, UNCHANGED <<running, turns, answer, run>>, requests' \subseteq requests,
         page'.sending = page.sending, page'.known = page.known, reads'["poll"] = reads["poll"]
  PROVE  Settling'
  BY DEF Settling, Past, Given

\* A turn given up on stays given up on, and another tab's stays another's.
LEMMA TurnsGrow ==
  ASSUME Typed, [Next]_vars
  PROVE  turns.others \subseteq turns'.others /\ turns.late \subseteq turns'.late
         /\ (turns.blind => turns'.blind)
  <1>0. turns \in [last : Turn, others : SUBSET Turn, late : SUBSET Turn, blind : BOOLEAN]
    BY DEF Typed, NetTyped
  <1>1. OtherActs => turns.others \subseteq turns'.others /\ turns'.late = turns.late
                     /\ turns'.blind = turns.blind
    BY <1>0 DEF OtherActs
  <1>2. NetworkFails => turns.late \subseteq turns'.late /\ turns'.others = turns.others
                        /\ turns'.blind = turns.blind
    BY <1>0 DEF NetworkFails
  <1>3. PollCap => turns.late \subseteq turns'.late /\ turns'.others = turns.others /\ turns'.blind
    BY <1>0 DEF PollCap
  <1>4. Send \/ Retry => turns'.late = turns.late /\ turns'.others = turns.others
                         /\ turns'.blind = (turns.blind \/ reads["load"].at # "off")
    BY RequestShape DEF Send, Retry, Typed
  <1>5. \/ OtherActs \/ NetworkFails \/ PollCap \/ Send \/ Retry
        \/ turns' = turns
    BY DEF Next, Refuse, Accept, LoseRequest, SaveReply, DropReply, Delete, StopReply, LoseStop,
     GetOwnedDetail, OtherSends, OtherRetries, RunSteps, Prelude, SendDone, RetryDone, Reread,
     ReplyFailed, ConnectionLost, Limited, SendRefused, RetryRefused, Refetch, Refetched,
     LoadLands, LoadFails, PollSteps, PollTick, PollLands, PollFails, Stop, StopSteps, Stopped,
     StopFails, StopRefused, StopSettles, ServerOnly, vars
  <1> QED
    BY <1>1, <1>2, <1>3, <1>4, <1>5

LEMMA SettlingRequests ==
  ASSUME Typed, Served, Settling, NEW q \in requests, Refuse(q) \/ Accept(q) \/ LoseRequest(q)
  PROVE  Settling'
  <1>0. /\ UNCHANGED <<run, page, reads, turns>> /\ requests' = requests \ {q}
        /\ q \in RequestType /\ q.turn \in Turn
    BY DEF Refuse, Accept, LoseRequest, pageVars, Typed, NetTyped, RequestType
  <1>1. /\ running.turn # q.turn
        /\ \A p \in requests' : p \in requests /\ p.turn # q.turn
    BY <1>0 DEF Served, Fresh
  <1>2. /\ q.turn \in turns.late \/ (q.turn = run.turn /\ run.at = "waiting" /\ answer = "none")
        /\ run.at # "idle" => run.turn # None /\ ~Given /\ page.sending
        /\ run.at = "idle" => answer = "none"
        /\ run.at = "waiting" => reads["poll"].at = "off"
    BY DEF Settling, Typed, PageTyped, Owned
  <1>3. CASE LoseRequest(q)
    BY <1>3, SettlingKept DEF LoseRequest, serverVars, pageVars
  <1>4. CASE Refuse(q)
    <2>1. running' = running
      BY <1>4 DEF Refuse, serverVars
    <2>2. \/ answer' = answer
          \/ answer' \in Refusals /\ q.turn = run.turn /\ run.at = "waiting"
      BY <1>4 DEF Refuse, Tells, RefusalOf, Refusals
    <2>3. CASE answer' = answer
      BY <1>0, <2>1, <2>3, SettlingKept
    <2>4. CASE answer' \in Refusals /\ q.turn = run.turn /\ run.at = "waiting"
      BY <1>0, <1>1, <1>2, <2>1, <2>4 DEF Settling, Past, Given
    <2> QED
      BY <2>2, <2>3, <2>4
  <1>5. CASE Accept(q)
    <2>1. running'.turn = q.turn
      BY <1>5 DEF Accept
    <2>2. \/ answer' = answer
          \/ answer' = "open" /\ q.turn = run.turn /\ run.at = "waiting"
      BY <1>5 DEF Accept, Tells
    <2>3. CASE q.turn # run.turn
      BY <1>0, <1>1, <1>2, <2>1, <2>2, <2>3 DEF Settling, Past, Given
    <2>4. CASE q.turn = run.turn /\ q.turn \in turns.late
      <3>1. run.at = "idle" /\ answer' = "none"
        BY <1>2, <2>2, <2>4 DEF Given
      <3> QED
        BY <1>0, <1>1, <1>2, <2>1, <2>4, <3>1 DEF Settling, Past, Given, Refusals
    <2>5. CASE q.turn = run.turn /\ run.at = "waiting" /\ answer = "none"
      <3>1. answer' \in {"none", "open"}
        BY <2>2, <2>5
      <3> QED
        BY <1>0, <1>1, <1>2, <2>1, <2>5, <3>1 DEF Settling, Past, Given, Refusals
    <2> QED
      BY <1>2, <2>3, <2>4, <2>5
  <1> QED
    BY <1>3, <1>4, <1>5

\* A turn ends, for it or another, or the other tab begins one.
LEMMA SettlingServer ==
  ASSUME Typed, Served, Settling, SaveReply \/ DropReply \/ Delete \/ OtherSends \/ OtherRetries
  PROVE  Settling'
  <1>0. /\ UNCHANGED <<run, page, reads, requests>>
        /\ answer' \in {answer, "done", "failed", "error"}
        /\ answer' # answer => run.turn # None /\ running.turn = run.turn
        /\ answer' # answer => run.at # "idle"
    <2>1. \/ answer' = answer
          \/ answer' = "done" /\ Streams
          \/ answer' = "failed" /\ Streams
          \/ answer' = "error" /\ Starting
      BY DEF SaveReply, DropReply, Delete, OtherSends, OtherRetries, netVars
    <2>2. Streams \/ Starting => run.at # "idle" /\ running.turn = run.turn
      BY DEF Streams, Starting, Settling
    <2>3. run.at # "idle" => run.turn # None
      BY DEF Typed, PageTyped
    <2>4. UNCHANGED <<run, page, reads, requests>>
      BY DEF SaveReply, DropReply, Delete, OtherSends, OtherRetries, pageVars, netVars
    <2> QED
      BY <2>1, <2>2, <2>3, <2>4
  <1>1. running'.turn # run.turn \/ run.turn = None
    <2>1. OtherSends \/ OtherRetries => running'.turn = NextTurn
      BY OtherThread
    <2>2. SaveReply \/ DropReply \/ Delete => running'.turn = None
      BY DEF SaveReply, DropReply, Delete, Nobody
    <2> QED
      BY <2>1, <2>2, Before
  <1>2. run.at # "idle" => run.turn # None
    BY DEF Typed, PageTyped
  <1>3. /\ turns'.late = turns.late
        /\ running'.turn \in {None} \cup turns'.others
        /\ \A t \in turns.late : t <= turns'.last
    <2>0. turns \in [last : Turn, others : SUBSET Turn, late : SUBSET Turn, blind : BOOLEAN]
      BY DEF Typed, NetTyped
    <2>1. CASE OtherSends \/ OtherRetries
      <3>1. turns'.late = turns.late /\ turns'.last = NextTurn /\ NextTurn \in turns'.others
        BY <2>0, <2>1 DEF OtherSends, OtherRetries, OtherActs
      <3>2. running'.turn = NextTurn
        BY <2>1, OtherThread
      <3>3. \A t \in turns.late : t <= NextTurn
        BY <2>0, NextTurnFacts, Zenon DEF Settling, NextTurn
      <3> QED
        BY <3>1, <3>2, <3>3
    <2>2. CASE SaveReply \/ DropReply \/ Delete
      BY <2>2 DEF SaveReply, DropReply, Delete, Nobody, Settling
    <2> QED
      BY <2>1, <2>2
  <1>4. \A q \in requests : q.turn = run.turn => answer' = answer
    <2>1. \A q \in requests : q.turn # running.turn
      BY DEF Served, Fresh
    <2> QED
      BY <1>0, <2>1
  <1>5. Past' \/ run.turn = None
    BY <1>0, <1>1 DEF Past
  <1>6. run'.at # "idle" => Past'
    BY <1>0, <1>2, <1>5
  <1>7. /\ \A t \in turns'.late : t <= turns'.last
        /\ answer' # "none" => run'.at # "idle"
        /\ running'.turn \in {None, run'.turn} \cup turns'.others \cup turns'.late
        /\ run'.at # "idle" => ~Given'
    BY <1>0, <1>3 DEF Settling, Given
  <1>8. \A q \in requests' :
          q.turn \in turns'.late \/ (q.turn = run'.turn /\ run'.at = "waiting" /\ answer' = "none")
    BY <1>0, <1>3, <1>4 DEF Settling
  <1>9. answer' \in {"done", "failed"} \cup Refusals \/ run'.at \in {"rereading", "refetching"}
          => Past'
    BY <1>6, <1>7 DEF Refusals
  <1> QED
    BY <1>0, <1>5, <1>7, <1>8, <1>9 DEF Settling

LEMMA SettlingReads ==
  ASSUME Typed, Settling, NEW k \in DOMAIN reads, GetOwnedDetail(k)
  PROVE  Settling'
  <1>1. k \in {"load", "poll", "run"} /\ reads[k] \in Read
        /\ UNCHANGED <<page, run, running, turns, answer, requests>>
    BY DEF GetOwnedDetail, Typed, PageTyped, pageVars, serverVars, netVars
  <1>2. CASE k # "poll"
    <2>1. reads'["poll"] = reads["poll"]
      BY <1>1, <1>2 DEF GetOwnedDetail, Typed, PageTyped
    <2> QED
      BY <1>1, <2>1, SettlingKept
  <1>3. CASE k = "poll"
    <2>1. CASE reads[k].at = "asked"
      <3>1. SeesRow(reads[k]) \in Read /\ SeesRow(reads[k]).replying = (running # Nobody)
        <4>1. (running # Nobody) \in BOOLEAN
          BY Zenon
        <4> QED
          BY <1>1, <4>1 DEF SeesRow, Read
      <3>2. reads'[k] = [SeesRow(reads[k]) EXCEPT !.at = "half"]
        BY <1>1, <2>1 DEF GetOwnedDetail, Sees, Typed, PageTyped
      <3>3. ~reads'["poll"].replying => running = Nobody
        BY <1>3, <3>1, <3>2 DEF Read
      <3> QED
        BY <1>1, <3>3 DEF Settling, Past, Given, Nobody
    <2>2. CASE reads[k].at # "asked"
      <3>1. SeesMessages(reads[k]) \in Read /\ SeesMessages(reads[k]).replying = reads[k].replying
        BY <1>1 DEF SeesMessages, Read, Typed, ServerTyped
      <3>2. reads'[k] = [SeesMessages(reads[k]) EXCEPT !.at = "ready"] /\ reads[k].at = "half"
        BY <1>1, <2>2 DEF GetOwnedDetail, Sees, Typed, PageTyped
      <3>3. reads'["poll"].replying = reads["poll"].replying /\ reads["poll"].at = "half"
        BY <1>3, <3>1, <3>2 DEF Read
      <3> QED
        BY <1>1, <3>3 DEF Settling, Past, Given
    <2> QED
      BY <2>1, <2>2
  <1> QED
    BY <1>2, <1>3

LEMMA SettlingAsks ==
  ASSUME Typed, Served, Seen, Settling, Send \/ Retry
  PROVE  Settling'
  <1>1. PICK kind \in {"send", "retry"}, after \in Turn, hidden \in Seq(Message),
             t \in Seq(Message) : Request(kind, after, hidden) /\ Starts(t) /\ ~Busy
    BY AsksShape
  <1>2. /\ run'.turn = NextTurn /\ run'.at = "waiting" /\ answer' = "none" /\ page'.sending
        /\ turns'.late = turns.late /\ turns'.others = turns.others /\ turns'.last = NextTurn
        /\ UNCHANGED <<running, reads>>
        /\ \A q \in requests' : q \in requests \/ q.turn = NextTurn
    <2>1. \A q \in requests' : q \in requests \/ q.turn = NextTurn
      BY <1>1 DEF Request
    <2> QED
      BY <1>1, <2>1, RequestShape, StartsShape DEF Typed
  <1>3. ~page.loading /\ run.at = "idle" /\ poll.at = "off" /\ ~page.sending
        /\ reads["poll"].at = "off"
    BY <1>1 DEF Busy, Typed, Owned
  <1>4. NextTurn \notin turns.late /\ \A l \in turns.late : l <= NextTurn
    <2>1. turns.late \subseteq Turn /\ turns.last \in Turn
      BY DEF Typed, NetTyped
    <2> QED
      BY <2>1, NextTurnFacts, Zenon DEF Settling, NextTurn
  <1>5. running.turn = run.turn => running.turn \in {None} \cup turns.late
    <2>1. page.known \/ running = Nobody
      BY DEF Send, Retry, CanRetry, Served, Open
    <2> QED
      BY <1>3, <2>1 DEF Settling, Past, Given, Nobody
  <1> QED
    BY <1>2, <1>3, <1>4, <1>5 DEF Settling, Past, Given, Refusals

\* What a run's end or a poll's decision shows of the turn.
LEMMA SettlingRun ==
  ASSUME Typed, Served, Settling, RunSteps
  PROVE  Settling'
  <1>0. /\ UNCHANGED <<running, requests>> /\ turns'.last = turns.last /\ turns'.others = turns.others
        /\ run'.turn = run.turn /\ run.at # "idle" /\ run.turn # None /\ ~Given
        /\ poll.at = "off" /\ reads["poll"].at = "off"
    <2>1. run.at # "idle"
      BY DEF RunSteps, Prelude, SendDone, RetryDone, Reread, ReplyFailed, ConnectionLost,
         NetworkFails, Limited, SendRefused, RetryRefused, Refetch, Refetched, RefusedWith
    <2> QED
      BY <2>1, PageAlone, RunGoesOn DEF Typed, PageTyped, Owned, Settling, serverVars
  <1>1. RunOutcome
    BY RunOutcomes
  <1>2. ~NetworkFails => turns' = turns
    BY DEF RunSteps, Prelude, SendDone, RetryDone, Reread, ReplyFailed, ConnectionLost,
       Limited, SendRefused, RetryRefused, Refetch, Refetched, ServerOnly
  <1>3. NetworkFails => /\ turns'.late = IF InFlight THEN turns.late \cup {run.turn} ELSE turns.late
                        /\ run'.at = "idle" /\ answer' = "none"
    BY DEF NetworkFails, Typed, NetTyped, Ends, HandsOver, RunOver, NoRun
  <1>4. ~NetworkFails /\ run'.at # run.at => answer # "none" \/ run.at \in {"rereading", "refetching"}
    BY <1>0 DEF RunSteps, Prelude, SendDone, RetryDone, Reread, ReplyFailed, ConnectionLost,
       Limited, SendRefused, RetryRefused, Refetch, Refetched, RefusedWith, Streaming
  <1>5. \A q \in requests : q.turn \in turns'.late
          \/ (q.turn = run.turn /\ run'.at = "waiting" /\ answer' = "none")
    <2>1. CASE NetworkFails
      BY <1>3, <2>1 DEF Settling, InFlight
    <2>2. CASE ~NetworkFails
      BY <1>0, <1>2, <1>4, <2>2, RunMoves DEF Settling, Streaming
    <2> QED
      BY <2>1, <2>2
  <1>6. turns.late \subseteq turns'.late /\ \A t \in turns'.late : t <= turns.last
    <2>1. run.turn <= turns.last
      BY DEF Served, Numbered
    <2> QED
      BY <1>2, <1>3, <2>1 DEF Settling
  <1>7. run'.at # "idle" => run.turn \notin turns'.late
    BY <1>0, <1>2, <1>3 DEF Given
  <1>8. ~page'.sending /\ page'.known => Past
    BY <1>0, <1>1 DEF RunOutcome, GoesOn, EndsUnknown, EndsAnswered, EndsReread, EndsRefused, Settling
  <1>9. answer' \in {"done", "failed"} \cup Refusals \/ run'.at \in {"rereading", "refetching"} => Past
    BY RunMoves DEF Settling, Streaming, Refusals
  <1>10. reads'["poll"].at = "off"
    BY <1>0, <1>1 DEF RunOutcome
  <1>11. answer' # "none" => run'.at # "idle"
    BY RunMoves DEF Settling
  <1> QED
    BY <1>0, <1>5, <1>6, <1>7, <1>8, <1>9, <1>10, <1>11 DEF Settling, Past, Given

LEMMA SettlingPolls ==
  ASSUME Typed, Settling, LoadLands \/ LoadFails \/ PollSteps \/ Stop \/ StopSteps
  PROVE  Settling'
  <1>0. /\ UNCHANGED <<running, requests, answer>> /\ run' = run
        /\ turns'.last = turns.last /\ turns'.others = turns.others /\ turns'.late = turns.late
    <2>1. turns'.late = turns.late
      BY DEF LoadLands, LoadFails, PollSteps, PollTick, PollLands, PollFails, PollCap,
         Stop, StopSteps, Stopped, StopFails, StopRefused, StopSettles, ServerOnly, Typed, NetTyped
    <2>2. answer' = answer /\ run' = run
      BY DEF LoadLands, LoadFails, PollSteps, PollTick, PollLands, PollFails, PollCap,
         Stop, StopSteps, Stopped, StopFails, StopRefused, StopSettles, netVars
    <2> QED
      BY <2>1, <2>2, PageAlone DEF Typed, serverVars
  <1>1. ASSUME page'.sending = page.sending, page'.known = page.known, reads'["poll"] = reads["poll"]
        PROVE  Settling'
    BY <1>0, <1>1 DEF Settling, Past, Given
  <1>2. CASE LoadLands \/ LoadFails
    BY <1>1, <1>2, LoadOutcomes DEF LoadOutcome
  <1>3. CASE Stop \/ StopSteps
    BY <1>1, <1>3, StopOutcomes DEF StopOutcome
  <1>4. CASE PollSteps
    <2>1. PollOutcome
      BY <1>4, PollOutcomes
    <2>2. reads'["poll"].at \notin {"half", "ready"}
      BY <2>1 DEF PollOutcome
    <2>3. run.turn # None /\ ~page'.sending /\ page'.known /\ ~Given => Past
      <3>1. running = Nobody => running.turn = None
        BY DEF Nobody
      <3> QED
        BY <2>1, <3>1 DEF PollOutcome, Decides, GivesUp, Settling, Past, Given
    <2> QED
      BY <1>0, <2>2, <2>3 DEF Settling, Past, Given
  <1> QED
    BY <1>2, <1>3, <1>4

LEMMA SettlingStep == Typed /\ Served /\ Seen /\ Settling /\ [Next]_vars => Settling'
  <1> SUFFICES ASSUME Typed, Served, Seen, Settling, [Next]_vars PROVE Settling'
    OBVIOUS
  <1>1. CASE UNCHANGED vars
    BY <1>1, SettlingKept DEF vars, serverVars, netVars, pageVars
  <1>2. ASSUME NEW s \in stops, StopReply(s) \/ LoseStop(s) PROVE Settling'
    BY <1>2, SettlingKept DEF StopReply, LoseStop, serverVars, pageVars
  <1> QED
    BY <1>1, <1>2, SettlingRequests, SettlingServer, SettlingReads, SettlingAsks, SettlingRun,
       SettlingPolls DEF Next

LEMMA SettlingInit == Init => Settling
  <1> SUFFICES ASSUME Init PROVE Settling
    OBVIOUS
  <1>1. /\ requests = {} /\ answer = "none" /\ run.turn = None /\ run.at = "idle"
        /\ turns.late = {} /\ turns.others = {1} /\ running.turn \in {None, 1}
    BY DEF Init, NoRun, Nobody
  <1> QED
    BY <1>1 DEF Settling, Past, Given, Refusals
-----------------------------------------------------------------------------
\* A stop on its way is the one the page waits for, and was pressed for its last turn.

Pressed ==
    /\ \A s \in stops : s = stop.turn
    /\ stop.turn # None => stop.turn = run.turn
    /\ stop.answer # "none" => stops = {}
Hits == \A h \in hits : h[2] \in turns.others \cup turns.late

LEMMA StopFacts ==
  ASSUME Typed
  PROVE  /\ None \notin stops
         /\ page.streaming => run.turn # None
  BY TurnFacts DEF Typed, NetTyped, PageTyped, Owned

LEMMA PressedKept ==
  ASSUME Pressed, stops' \subseteq stops, stop' = stop, run'.turn = run.turn
  PROVE  Pressed'
  BY DEF Pressed

LEMMA PressedStep ==
  ASSUME Typed, Served, Seen, Pressed, [Next]_vars
  PROVE  Pressed'
  <1>1. CASE UNCHANGED vars
    BY <1>1, PressedKept DEF vars, netVars, pageVars
  <1>2. ASSUME NEW q \in requests, Refuse(q) \/ Accept(q) \/ LoseRequest(q)
        PROVE  Pressed'
    BY <1>2, PressedKept DEF Refuse, Accept, LoseRequest, pageVars
  <1>3. CASE SaveReply \/ DropReply \/ OtherSends \/ OtherRetries \/ Delete
    BY <1>3, PressedKept DEF SaveReply, DropReply, OtherSends, OtherRetries, Delete, netVars, pageVars
  <1>4. ASSUME NEW k \in DOMAIN reads, GetOwnedDetail(k) PROVE Pressed'
    BY <1>4, PressedKept DEF GetOwnedDetail, netVars, pageVars
  <1>5. ASSUME NEW s \in stops, LoseStop(s) PROVE Pressed'
    BY <1>5, PressedKept DEF LoseStop, pageVars
  <1>6. ASSUME NEW s \in stops, StopReply(s) PROVE Pressed'
    <2>1. stop.turn = s /\ stops' = {} /\ run' = run
      BY <1>6 DEF StopReply, Pressed, pageVars
    <2>2. stop'.turn = stop.turn
      BY <1>6 DEF StopReply, Typed, NetTyped
    <2> QED
      BY <2>1, <2>2 DEF Pressed
  <1>7. CASE Send \/ Retry
    <2>1. PICK kind \in {"send", "retry"}, after \in Turn, hidden \in Seq(Message),
               t \in Seq(Message) : Request(kind, after, hidden) /\ Starts(t) /\ ~Busy
      BY <1>7, AsksShape
    <2>2. stop.turn = None /\ stop' = stop /\ stops' = stops
      BY <2>1 DEF Busy, Request
    <2> QED
      BY <2>2 DEF Pressed
  <1>8. CASE RunSteps \/ LoadLands \/ LoadFails \/ PollSteps
    <2>1. run'.turn = run.turn
      BY <1>8, RunGoesOn
    <2>2. stop' = stop /\ stops' = stops
      BY <1>8 DEF RunSteps, Prelude, SendDone, RetryDone, Reread, ReplyFailed, ConnectionLost,
         NetworkFails, Limited, SendRefused, RetryRefused, Refetch, Refetched, LoadLands,
         LoadFails, PollSteps, PollTick, PollLands, PollFails, PollCap, ServerOnly, netVars
    <2> QED
      BY <2>1, <2>2, PressedKept
  <1>9. CASE Stop
    <2>1. stops = {}
      BY <1>9, StopFacts DEF Stop, Pressed
    <2>2. stops' = {run.turn} /\ stop' = [turn |-> run.turn, answer |-> "none"] /\ run' = run
      BY <1>9, <2>1 DEF Stop
    <2> QED
      BY <2>2 DEF Pressed
  <1>10. CASE StopSteps
    <2>1. stops = {}
      BY <1>10 DEF StopSteps, Stopped, StopFails, StopRefused, Pressed
    <2>2. stops' = stops /\ stop' = NoStop
      BY <1>10 DEF StopSteps, Stopped, StopFails, StopRefused, StopSettles, ServerOnly
    <2> QED
      BY <2>1, <2>2 DEF Pressed, NoStop
  <1> QED
    BY <1>1, <1>2, <1>3, <1>4, <1>5, <1>6, <1>7, <1>8, <1>9, <1>10 DEF Next

LEMMA HitsStep ==
  ASSUME Typed, Settling, Pressed, Hits, [Next]_vars
  PROVE  Hits'
  <1>1. turns.others \subseteq turns'.others /\ turns.late \subseteq turns'.late
    BY TurnsGrow
  <1>2. ASSUME NEW s \in stops, StopReply(s) PROVE Hits'
    <2>1. s = run.turn
      BY StopFacts DEF Pressed
    <2>2. hits' \subseteq hits \cup (IF running.turn \in {s, None} THEN {} ELSE {<<s, running.turn>>})
      BY <1>2 DEF StopReply
    <2>3. running.turn \in {s, None} \cup turns.others \cup turns.late
      BY <2>1 DEF Settling
    <2> QED
      BY <1>1, <2>2, <2>3 DEF Hits
  <1>3. (\E s \in stops : StopReply(s)) \/ hits' = hits
    BY DEF Next, vars, netVars, Refuse, Accept, LoseRequest, SaveReply, DropReply, LoseStop,
       GetOwnedDetail, OtherSends, OtherRetries, Delete, Send, Retry, Request, RunSteps, Prelude,
       SendDone, RetryDone, Reread, ReplyFailed, ConnectionLost, NetworkFails, Limited,
       SendRefused, RetryRefused, Refetch, Refetched, LoadLands, LoadFails, PollSteps, PollTick,
       PollLands, PollFails, PollCap, Stop, StopSteps, Stopped, StopFails, StopRefused,
       StopSettles, ServerOnly
  <1> QED
    BY <1>1, <1>2, <1>3 DEF Hits

LEMMA StopsInit == Init => Pressed /\ Hits
  BY DEF Init, Pressed, Hits, NoStop

\* A stop the page waits for never cuts another turn of this page, but for one whose
\* request the page gave up on and that came late (stop, busy).
THEOREM StopsHitTheirTurn == Spec => []StopHitsItsTurn
  <1> DEFINE I == Typed /\ Served /\ Seen /\ Settling /\ Pressed /\ Hits
  <1>1. Init => I
    BY TypedInit, ServedInit, SettlingInit, StopsInit
  <1>2. I /\ [Next]_vars => I'
    BY TypedStep, ServedStep, SettlingStep, PressedStep, HitsStep
  <1>3. I => StopHitsItsTurn
    BY DEF Hits, StopHitsItsTurn
  <1> QED
    BY <1>1, <1>2, <1>3, PTL DEF Spec
-----------------------------------------------------------------------------
\* "The reply was interrupted" is said of a turn that is over and stored no reply.

Unsaved == OwnReply \notin ever
NoReplyIn(t) == EndsWithUser(t) /\ Last(t).of = run.after => OwnReply \notin ToSet(thread)
Unstored ==
    answer = "failed" \/ answer \in Refusals \/ run.at = "refetching" => Unsaved
RereadIsTrue ==
    run.at = "rereading" /\ reads["run"].at = "ready" => NoReplyIn(reads["run"].thread)

\* What a page that did not act blindly has read, and shows.
Sighted ==
    ~Blind /\ run.turn # None =>
      /\ reads["load"].at = "off"
      /\ page.loading => page.sending
      /\ page.error = "interrupted" => ~page.loading
      /\ ~page.loading /\ page.known => NoReplyIn(page.shown)
      /\ reads["poll"].at = "ready" /\ ~reads["poll"].replying => NoReplyIn(reads["poll"].thread)

LEMMA Gains ==
  ASSUME Typed, Served, [Next]_vars
  PROVE  \A m : m \in ToSet(thread') \ ToSet(thread) \/ m \in ever' \ ever =>
           m.role = "user" \/ (running # Nobody /\ m = Answer(running.of, running.turn))
  <1>0. \A t : Question(t).role = "user"
    BY DEF Question
  <1>1. ASSUME NEW m \in Message, Stores(m)
        PROVE  \A n : n \in ToSet(thread') \ ToSet(thread) \/ n \in ever' \ ever => n = m
    <2>1. ToSet(thread') = ToSet(thread) \cup {m}
      BY <1>1, AppendedThread DEF Stores, Typed, ServerTyped
    <2> QED
      BY <1>1, <2>1 DEF Stores
  <1>2. ASSUME thread' = Front(thread), NEW q, Answered(thread, q)
        PROVE  ToSet(thread') \subseteq ToSet(thread)
    <2>1. thread # <<>>
      BY <1>2, EmptySeq DEF Typed, ServerTyped, Answered
    <2> QED
      BY <1>2, <2>1, CutThread DEF Typed, ServerTyped
  <1>3. ASSUME NEW q \in requests, Accept(q)
        PROVE  \/ Stores(Question(q.turn)) /\ q.turn \in Turn
               \/ ever' = ever /\ ToSet(thread') \subseteq ToSet(thread)
    BY <1>2, <1>3 DEF Accept, Replaced, Typed, NetTyped, RequestType
  <1>4. ASSUME OtherSends \/ OtherRetries
        PROVE  \/ Stores(Question(NextTurn)) /\ NextTurn \in Turn
               \/ ever' = ever /\ ToSet(thread') \subseteq ToSet(thread)
    <2>1. OtherSends => Stores(Question(NextTurn)) /\ NextTurn \in Turn
      BY OtherThread DEF OtherSends
    <2>2. OtherRetries => ever' = ever /\ ToSet(thread') \subseteq ToSet(thread)
      BY <1>2 DEF OtherRetries
    <2> QED
      BY <1>4, <2>1, <2>2
  <1>5. ASSUME SaveReply
        PROVE  /\ Stores(Answer(running.of, running.turn)) /\ running # Nobody
               /\ Answer(running.of, running.turn) \in Message
    <2>1. running.of \in Turn /\ running.turn \in Turn
      BY <1>5 DEF SaveReply, Typed, ServerTyped
    <2> QED
      BY <1>5, <2>1, MessageFacts DEF SaveReply
  <1>6. Delete => thread' = <<>> /\ ever' = ever
    BY DEF Delete
  <1>7. \/ \E q \in requests : Accept(q)
        \/ SaveReply \/ OtherSends \/ OtherRetries \/ Delete
        \/ UNCHANGED serverVars
        \/ DropReply
    <2>1. CASE RunSteps \/ LoadLands \/ LoadFails \/ PollSteps \/ Stop \/ StopSteps
      BY <2>1, PageAlone DEF Typed
    <2>2. CASE Send \/ Retry
      BY <2>2 DEF Send, Retry, Request
    <2> QED
      BY <2>1, <2>2 DEF Next, vars, Refuse, LoseRequest, StopReply, LoseStop, GetOwnedDetail
  <1>8. DropReply => thread' = thread /\ ever' = ever
    BY DEF DropReply
  <1>9. \A t \in Turn : Question(t) \in Message
    BY MessageFacts
  <1> QED
    BY <1>0, <1>1, <1>3, <1>4, <1>5, <1>6, <1>7, <1>8, <1>9, NoneIn DEF serverVars

\* The reply of a turn that is over is not stored any more.
LEMMA StaysUnsaved ==
  ASSUME Typed, Served, [Next]_vars, Past, run'.turn = run.turn, run'.after = run.after
  PROVE  /\ OwnReply' = OwnReply
         /\ Unsaved => Unsaved'
         /\ OwnReply \notin ToSet(thread) => OwnReply' \notin ToSet(thread')
  <1>1. OwnReply.role = "assistant" /\ OwnReply.by = run.turn /\ OwnReply' = OwnReply
    BY DEF OwnReply, Answer
  <1>2. OwnReply # Answer(running.of, running.turn)
    BY <1>1 DEF Past, Answer
  <1> QED
    BY <1>1, <1>2, Gains DEF Unsaved

LEMMA FreshIsUnsaved ==
  ASSUME Typed, Served
  PROVE  /\ \A q \in requests : q.turn = run.turn => Unsaved
         /\ running # Nobody /\ running.turn = run.turn => Unsaved
         /\ Unsaved => OwnReply \notin ToSet(thread)
  BY DEF Typed, ServerTyped, Served, Fresh, Unsaved, OwnReply, Answer

LEMMA UnstoredStep ==
  ASSUME Typed, Served, Seen, Settling, Unstored, [Next]_vars
  PROVE  Unstored'
  <1>1. CASE UNCHANGED pageVars
    <2>1. /\ run'.turn = run.turn /\ run'.after = run.after /\ run'.at = run.at
      BY <1>1 DEF pageVars
    <2>2. \/ answer' = answer
          \/ answer' \in {"open", "done"}
          \/ \E q \in requests : q.turn = run.turn /\ Refuse(q)
          \/ running # Nobody /\ running.turn = run.turn /\ (DropReply \/ Delete)
      <3>1. ASSUME NEW q \in requests, Refuse(q) \/ Accept(q) \/ LoseRequest(q)
            PROVE  \/ answer' \in {answer, "open"}
                   \/ q.turn = run.turn /\ Refuse(q)
        BY <3>1 DEF Refuse, Accept, LoseRequest, Tells
      <3>2. SaveReply => answer' \in {answer, "done"}
        BY DEF SaveReply
      <3>3. DropReply \/ Delete => answer' = answer \/ running.turn = run.turn
        BY DEF DropReply, Delete, Streams, Starting
      <3>4. DropReply => running # Nobody
        BY DEF DropReply
      <3>5. Delete /\ answer' # answer => running # Nobody
        <4>1. Delete /\ answer' # answer => run.at # "idle" /\ running.turn = run.turn
          BY DEF Delete, Streams, Starting, Settling
        <4> QED
          BY <4>1 DEF Nobody, Typed, PageTyped
      <3>6. \/ \E q \in requests : Refuse(q) \/ Accept(q) \/ LoseRequest(q)
            \/ SaveReply \/ DropReply \/ Delete
            \/ answer' = answer
        <4>1. ASSUME Send \/ Retry PROVE FALSE
          <5>1. run'.turn = NextTurn
            BY <4>1, AsksShape, RequestShape DEF Typed
          <5> QED
            BY <2>1, <5>1, Before
        <4>2. CASE RunSteps \/ LoadLands \/ LoadFails \/ PollSteps \/ Stop \/ StopSteps
          BY <2>1, <4>2, RunMoves
        <4> QED
          BY <4>1, <4>2 DEF Next, vars, netVars, StopReply, LoseStop, GetOwnedDetail, OtherSends, OtherRetries
      <3> QED
        BY <3>1, <3>2, <3>3, <3>4, <3>5, <3>6
    <2>3. ASSUME NEW q \in requests, q.turn = run.turn, Refuse(q) PROVE Unstored'
      <3>1. ever' = ever
        BY <2>3 DEF Refuse, serverVars
      <3> QED
        BY <2>1, <2>3, <3>1, FreshIsUnsaved DEF Unstored, Unsaved, OwnReply
    <2>4. ASSUME running # Nobody, running.turn = run.turn, DropReply \/ Delete PROVE Unstored'
      <3>1. ever' = ever
        BY <2>4 DEF DropReply, Delete
      <3> QED
        BY <2>1, <2>4, <3>1, FreshIsUnsaved DEF Unstored, Unsaved, OwnReply
    <2>5. CASE answer' \in {answer, "open", "done"}
      <3>1. answer' = "failed" \/ answer' \in Refusals \/ run'.at = "refetching"
              => answer = "failed" \/ answer \in Refusals \/ run.at = "refetching"
        BY <2>1, <2>5 DEF Refusals
      <3> QED
        BY <2>1, <3>1, StaysUnsaved DEF Unstored, Settling
    <2> QED
      BY <2>2, <2>3, <2>4, <2>5
  <1>2. CASE Send \/ Retry
    <2>1. answer' = "none" /\ run'.at = "waiting"
      BY <1>2, AsksShape, RequestShape DEF Typed
    <2> QED
      BY <2>1 DEF Unstored, Refusals
  <1>3. CASE RunSteps \/ LoadLands \/ LoadFails \/ PollSteps \/ Stop \/ StopSteps
    <2>1. run'.turn = run.turn /\ run'.after = run.after
      BY <1>3, RunGoesOn
    <2>2. answer' = "failed" \/ answer' \in Refusals \/ run'.at = "refetching"
            => answer = "failed" \/ answer \in Refusals \/ run.at = "refetching"
      BY <1>3, RunMoves DEF Refusals, Streaming
    <2> QED
      BY <2>1, <2>2, StaysUnsaved DEF Unstored, Settling
  <1> QED
    BY <1>1, <1>2, <1>3, PageActs

LEMMA NothingAtEnd ==
  ASSUME Typed, Served
  PROVE  NoReplyIn(thread)
  <1> SUFFICES ASSUME EndsWithUser(thread), Last(thread).of = run.after
               PROVE  OwnReply \notin ToSet(thread)
    BY DEF NoReplyIn
  <1>1. Len(thread) \in DOMAIN thread /\ Last(thread) = thread[Len(thread)]
    BY LastPlace DEF Typed, EndsWithUser
  <1>2. EndsWith(thread, run.after)
    BY <1>1 DEF EndsWithUser, EndsWith, Served, Chained
  <1>3. \A i \in DOMAIN thread : thread[i].role = "assistant" => thread[i].of # run.after
    BY <1>2, EndUnanswered DEF Typed, Served
  <1> QED
    BY <1>3 DEF OwnReply, Answer, ToSet

LEMMA ReadyShowsThread ==
  ASSUME Typed, NEW k \in DOMAIN reads, GetOwnedDetail(k)
  PROVE  /\ UNCHANGED serverVars /\ UNCHANGED <<turns, answer>> /\ UNCHANGED pageVars
         /\ \A j \in DOMAIN reads : j # k => reads'[j] = reads[j]
         /\ reads[k].at # "off" /\ reads'[k].at # "off"
         /\ reads'[k].at = "ready" => reads'[k].thread = thread
  <1>1. k \in {"load", "poll", "run"} /\ reads[k] \in Read
    BY DEF Typed, PageTyped
  <1>2. reads[k].at \in {"asked", "half"} /\ \A j \in DOMAIN reads : j # k => reads'[j] = reads[j]
    BY DEF GetOwnedDetail, Typed, PageTyped
  <1>3. CASE reads[k].at = "asked"
    <2>1. reads'[k] = [SeesRow(reads[k]) EXCEPT !.at = "half"]
      BY <1>1, <1>3 DEF GetOwnedDetail, Sees, Typed, PageTyped
    <2>2. reads'[k].at = "half"
      BY <1>1, <2>1 DEF SeesRow, Read
    <2> QED
      BY <1>2, <2>2 DEF GetOwnedDetail, netVars
  <1>4. CASE reads[k].at = "half"
    <2>1. reads'[k] = [SeesMessages(reads[k]) EXCEPT !.at = "ready"]
      BY <1>1, <1>4 DEF GetOwnedDetail, Sees, Typed, PageTyped
    <2>2. reads'[k].at = "ready" /\ reads'[k].thread = thread
      BY <1>1, <2>1 DEF SeesMessages, Read
    <2> QED
      BY <1>2, <2>2 DEF GetOwnedDetail, netVars
  <1> QED
    BY <1>2, <1>3, <1>4

LEMMA PageReads ==
  ASSUME [Next]_vars
  PROVE  \/ UNCHANGED pageVars /\ UNCHANGED reads
         \/ \E k \in DOMAIN reads : GetOwnedDetail(k)
         \/ Send \/ Retry
         \/ RunSteps \/ LoadLands \/ LoadFails \/ PollSteps \/ Stop \/ StopSteps
  BY DEF Next, Refuse, Accept, LoseRequest, SaveReply, DropReply, Delete, StopReply, LoseStop,
     OtherSends, OtherRetries, vars

\* Only a retry's [DONE] leads to its re-read.
LEMMA RereadFollows ==
  ASSUME Typed, RunSteps
  PROVE  RetryDone \/ run'.at # "rereading"
  <1>1. RunOver => run'.at = "idle"
    BY DEF RunOver, NoRun
  <1>2. Prelude \/ Refetch => run'.at # "rereading"
    BY DEF Prelude, Refetch, Typed, PageTyped, Run
  <1>3. SendDone \/ Reread \/ ReplyFailed \/ ConnectionLost \/ NetworkFails \/ Limited
          \/ SendRefused \/ RetryRefused \/ Refetched => RunOver
    BY DEF SendDone, Reread, ReplyFailed, ConnectionLost, NetworkFails, Limited, SendRefused,
       RetryRefused, Refetched, Ends, HandsOver
  <1> QED
    BY <1>1, <1>2, <1>3 DEF RunSteps

LEMMA RereadStep ==
  ASSUME Typed, Served, Seen, Settling, RereadIsTrue, [Next]_vars
  PROVE  RereadIsTrue'
  <1>1. ASSUME run' = run, reads'["run"] = reads["run"]
        PROVE  RereadIsTrue'
    BY <1>1, StaysUnsaved DEF RereadIsTrue, NoReplyIn, Settling
  <1>2. ASSUME NEW k \in DOMAIN reads, GetOwnedDetail(k)
        PROVE  RereadIsTrue'
    <2>1. run' = run /\ thread' = thread /\ (k = "run" \/ reads'["run"] = reads["run"])
      BY <1>2, ReadyShowsThread DEF pageVars, serverVars, Typed, PageTyped
    <2>2. CASE k = "run"
      BY <1>2, <2>1, <2>2, ReadyShowsThread, NothingAtEnd DEF RereadIsTrue, NoReplyIn, OwnReply
    <2> QED
      BY <1>1, <2>1, <2>2
  <1>3. CASE Send \/ Retry
    <2>1. run'.at = "waiting"
      BY <1>3, AsksShape, RequestShape DEF Typed
    <2> QED
      BY <2>1 DEF RereadIsTrue
  <1>4. CASE RunSteps
    <2>1. RetryDone => reads'["run"].at = "asked"
      BY DEF RetryDone, Asks, Typed, PageTyped
    <2>2. RetryDone \/ run'.at # "rereading"
      BY <1>4, RereadFollows
    <2> QED
      BY <2>1, <2>2 DEF RereadIsTrue
  <1>5. CASE LoadLands \/ LoadFails
    BY <1>1, <1>5, LoadOutcomes DEF LoadOutcome
  <1>6. CASE PollSteps
    BY <1>1, <1>6, PollOutcomes DEF PollOutcome
  <1>7. CASE Stop \/ StopSteps
    BY <1>1, <1>7, StopOutcomes DEF StopOutcome
  <1> QED
    BY <1>1, <1>2, <1>3, <1>4, <1>5, <1>6, <1>7, PageReads DEF pageVars

LEMMA SightGrows ==
  ASSUME Typed, [Next]_vars, ~Blind'
  PROVE  ~Blind /\ ~Given
  BY TurnsGrow DEF Blind, Given

LEMMA SightedServer ==
  ASSUME Typed, Served, Settling, Sighted, [Next]_vars, UNCHANGED pageVars, UNCHANGED reads
  PROVE  Sighted'
  <1> SUFFICES ASSUME ~Blind', run'.turn # None PROVE Sighted'
    BY DEF Sighted
  <1>1. page' = page /\ run' = run /\ reads' = reads /\ run.turn # None /\ ~Blind /\ ~Given
    BY SightGrows DEF pageVars
  <1>2. ~page.loading => ~page.sending
    BY DEF Typed, Owned
  <1>3. ~page.loading /\ page.known => Past
    BY <1>1, <1>2 DEF Settling
  <1>4. reads["poll"].at = "ready" /\ ~reads["poll"].replying => Past
    BY <1>1 DEF Settling
  <1>5. Past => OwnReply' = OwnReply
                /\ (OwnReply \notin ToSet(thread) => OwnReply' \notin ToSet(thread'))
    BY <1>1, StaysUnsaved
  <1> QED
    BY <1>1, <1>3, <1>4, <1>5 DEF Sighted, NoReplyIn

LEMMA SightedReads ==
  ASSUME Typed, Served, Sighted, NEW k \in DOMAIN reads, GetOwnedDetail(k), [Next]_vars
  PROVE  Sighted'
  <1> SUFFICES ASSUME ~Blind', run'.turn # None PROVE Sighted'
    BY DEF Sighted
  <1>1. /\ page' = page /\ run' = run /\ thread' = thread
        /\ run.turn # None /\ ~Blind
        /\ k \in {"load", "poll", "run"}
    BY SightGrows, ReadyShowsThread DEF pageVars, serverVars, Typed, PageTyped
  <1>2. k # "load"
    BY <1>1, ReadyShowsThread DEF Sighted
  <1>3. reads'["load"] = reads["load"]
    BY <1>2, ReadyShowsThread DEF Typed, PageTyped
  <1>4. CASE k # "poll"
    <2>1. reads'["poll"] = reads["poll"]
      BY <1>4, ReadyShowsThread DEF Typed, PageTyped
    <2> QED
      BY <1>1, <1>3, <2>1 DEF Sighted, NoReplyIn, OwnReply
  <1>5. CASE k = "poll"
    <2>1. reads'["poll"].at = "ready" => reads'["poll"].thread = thread
      BY <1>5, ReadyShowsThread
    <2> QED
      BY <1>1, <1>3, <2>1, NothingAtEnd DEF Sighted, NoReplyIn, OwnReply
  <1> QED
    BY <1>4, <1>5

LEMMA SightedAsks ==
  ASSUME Typed, Served, Seen, Send \/ Retry
  PROVE  Sighted'
  <1>1. PICK kind \in {"send", "retry"}, after \in Turn, hidden \in Seq(Message),
             t \in Seq(Message) : Request(kind, after, hidden) /\ Starts(t) /\ ~Busy
    BY AsksShape
  <1>2. /\ page'.loading /\ page'.sending /\ page'.error = "none"
        /\ reads' = reads /\ (turns'.blind \/ reads["load"].at = "off")
    BY <1>1, RequestShape, StartsShape DEF Typed
  <1>3. reads["poll"].at = "off"
    BY <1>1 DEF Busy, Typed, Owned
  <1> QED
    BY <1>2, <1>3 DEF Sighted, Blind

LEMMA SightedRun ==
  ASSUME Typed, Settling, Unstored, RereadIsTrue, Sighted, RunSteps, [Next]_vars
  PROVE  Sighted'
  <1> SUFFICES ASSUME ~Blind', run'.turn # None PROVE Sighted'
    BY DEF Sighted
  <1>1. /\ thread' = thread /\ run'.turn = run.turn /\ run'.after = run.after
        /\ ToSet(thread) \subseteq ever
    BY PageAlone, RunGoesOn DEF Typed, ServerTyped, serverVars
  <1>2. ~Blind /\ run.turn # None
    BY <1>1, SightGrows
  <1>3. RunOutcome /\ (page.sending => page.loading)
    BY RunOutcomes DEF Typed, Owned
  <1>4. /\ reads'["load"].at = "off"
        /\ reads'["poll"].at = "ready" /\ ~reads'["poll"].replying => NoReplyIn(reads'["poll"].thread)
    BY <1>2, <1>3 DEF RunOutcome, Sighted
  <1>5. CASE GoesOn
    BY <1>1, <1>2, <1>3, <1>4, <1>5 DEF GoesOn, Sighted, NoReplyIn, OwnReply
  <1>6. CASE ~GoesOn
    <2>1. ~page'.loading /\ (EndsUnknown \/ EndsAnswered \/ EndsReread \/ EndsRefused)
      BY <1>3, <1>6 DEF RunOutcome
    <2>2. page'.known => NoReplyIn(page'.shown)
      <3>1. EndsUnknown \/ EndsAnswered => ~page'.known \/ ~EndsWithUser(page'.shown)
        BY DEF EndsUnknown, EndsAnswered
      <3>2. EndsReread => NoReplyIn(page'.shown)
        BY DEF EndsReread, RereadIsTrue
      <3>3. EndsRefused => OwnReply \notin ToSet(thread)
        BY <1>1 DEF EndsRefused, Unstored, Unsaved
      <3> QED
        BY <2>1, <3>1, <3>2, <3>3 DEF NoReplyIn
    <2> QED
      BY <1>1, <1>4, <2>1, <2>2 DEF Sighted, NoReplyIn, OwnReply
  <1> QED
    BY <1>5, <1>6

\* No reply of a turn whose question the server does not hold.
LEMMA NotAsked ==
  ASSUME Typed, Served, Same, poll.at # "off", poll.kind = "outcome", ~Asked
  PROVE  OwnReply \notin ToSet(thread)
  <1> SUFFICES ASSUME NEW i \in DOMAIN thread, thread[i] = OwnReply PROVE FALSE
    BY DEF ToSet
  <1>1. thread[i].role = "assistant" /\ thread[i].of = run.turn
    BY DEF OwnReply, Answer, Same
  <1> QED
    BY <1>1 DEF Served, Chained, Asked, ToSet

LEMMA SightedPolls ==
  ASSUME Typed, Served, Same, Settling, Sighted, NotSentKept', [Next]_vars,
         LoadLands \/ LoadFails \/ PollSteps \/ Stop \/ StopSteps
  PROVE  Sighted'
  <1> SUFFICES ASSUME ~Blind', run'.turn # None PROVE Sighted'
    BY DEF Sighted
  <1>1. /\ thread' = thread /\ run'.turn = run.turn /\ run'.after = run.after
    BY PageAlone, RunGoesOn DEF Typed, serverVars
  <1>2. /\ ~Blind /\ run.turn # None
        /\ reads["load"].at = "off" /\ (page.loading => page.sending)
    BY <1>1, SightGrows DEF Sighted
  <1>3. CASE LoadLands \/ LoadFails
    BY <1>2, <1>3, LoadOutcomes DEF LoadOutcome
  <1>4. CASE Stop \/ StopSteps
    <2>1. StopOutcome
      BY <1>4, StopOutcomes
    <2> QED
      BY <1>1, <1>2, <2>1 DEF StopOutcome, Sighted, NoReplyIn, OwnReply
  <1>5. CASE PollSteps
    <2>1. PollOutcome
      BY <1>5, PollOutcomes
    <2>2. reads'["load"].at = "off" /\ reads'["poll"].at # "ready"
      BY <1>2, <2>1 DEF PollOutcome
    <2>3. CASE page' = page
      BY <1>1, <1>2, <2>2, <2>3 DEF Sighted, NoReplyIn, OwnReply
    <2>4. CASE page' # page
      <3>1. ~page'.loading /\ poll.at # "off" /\ (Decides \/ GivesUp)
        BY <2>1, <2>4 DEF PollOutcome
      <3>2. ~GivesUp
        BY DEF GivesUp, Blind
      <3>3. CASE page'.error = "notSent"
        <4>1. ~Asked
          BY <1>1, <3>3 DEF NotSentKept, Asked
        <4>2. CASE poll.kind = "outcome"
          BY <1>1, <2>2, <3>1, <4>1, <4>2, NotAsked DEF Sighted, NoReplyIn, OwnReply
        <4>3. CASE poll.kind # "outcome"
          <5>1. page'.shown = reads["poll"].thread /\ reads["poll"].at = "ready" /\ ~reads["poll"].replying
            BY <3>1, <3>2, <4>3 DEF Decides
          <5> QED
            BY <1>1, <1>2, <2>2, <3>1, <5>1 DEF Sighted, NoReplyIn, OwnReply
        <4> QED
          BY <4>2, <4>3
      <3>4. CASE page'.error # "notSent"
        <4>1. page'.shown = reads["poll"].thread /\ reads["poll"].at = "ready" /\ ~reads["poll"].replying
          BY <3>1, <3>2, <3>4 DEF Decides
        <4> QED
          BY <1>1, <1>2, <2>2, <3>1, <4>1 DEF Sighted, NoReplyIn, OwnReply
      <3> QED
        BY <3>3, <3>4
    <2> QED
      BY <2>3, <2>4
  <1> QED
    BY <1>3, <1>4, <1>5

Interruptions == Unstored /\ RereadIsTrue /\ Sighted

LEMMA InterruptionsStep ==
  ASSUME Typed, Served, Seen, Same, NotSentKept, Settling, Interruptions, [Next]_vars
  PROVE  Interruptions'
  <1>1. Unstored' /\ RereadIsTrue'
    BY UnstoredStep, RereadStep DEF Interruptions
  <1>2. NotSentKept'
    BY NotSentStep
  <1>3. Sighted'
    BY <1>2, PageReads, SightedServer, SightedReads, SightedAsks, SightedRun, SightedPolls
       DEF Interruptions
  <1> QED
    BY <1>1, <1>3 DEF Interruptions

LEMMA InterruptionsInit == Init => Interruptions
  BY DEF Init, Interruptions, Unstored, RereadIsTrue, Sighted, Refusals, NoRun

LEMMA InterruptionIsOver ==
  ASSUME Typed, Settling, Sighted
  PROVE  InterruptedIsTrue
  <1> SUFFICES ASSUME Interrupted(run.after), ~Blind
               PROVE  Past /\ OwnReply \notin ToSet(thread)
    BY DEF InterruptedIsTrue, Past, OwnReply
  <1>1. page.known /\ page.error = "interrupted" /\ EndsWithUser(page.shown)
        /\ Last(page.shown).of = run.after
    BY DEF Interrupted
  <1>2. run.turn # None
    <2>1. page.shown \in Seq(Message) /\ page.shown # <<>>
      BY <1>1 DEF Typed, PageTyped, Page, EndsWithUser
    <2>2. Last(page.shown) \in Message
      BY <2>1, CutThread
    <2>3. run.after # None
      BY <1>1, <2>2, MessageFacts, TurnFacts
    <2> QED
      BY <2>3 DEF Typed, PageTyped
  <1>3. ~page.loading /\ ~page.sending /\ ~Given
    BY <1>1, <1>2 DEF Sighted, Typed, Owned, Blind, Given
  <1> QED
    BY <1>1, <1>2, <1>3 DEF Sighted, Settling, NoReplyIn

\* What the page shows and says of its own turn is true, in whatever order the
\* stream's end, a stop's answer and the reads arrive (runTurn, settleFree, stop,
\* get_owned_detail).
THEOREM PageTellsTruth == Spec => []PageIsHonest
  <1> DEFINE I == /\ Typed /\ Served /\ Seen /\ Same /\ Replies /\ Explained
                  /\ NotSentKept /\ Settling /\ Interruptions
  <1>1. Init => I
    BY TypedInit, ServedInit, SameInit, RepliesInit, ExplainedInit, NotSentInit, SettlingInit,
       InterruptionsInit
  <1>2. I /\ [Next]_vars => I'
    BY TypedStep, ServedStep, SameStep, RepliesStep, ExplainedStep, NotSentStep, SettlingStep,
       InterruptionsStep
  <1>3. I => PageIsHonest
    <2> SUFFICES ASSUME I PROVE PageIsHonest
      OBVIOUS
    <2>1. ShownRepliesAreStored
      BY DEF Replies, Stored, ShownRepliesAreStored, ToSet
    <2>2. UnansweredIsExplained
      BY DEF Explained, UnansweredIsExplained, Busy
    <2>3. InterruptedIsTrue
      BY InterruptionIsOver DEF Interruptions
    <2> QED
      BY <2>1, <2>2, <2>3 DEF PageIsHonest
  <1> QED
    BY <1>1, <1>2, <1>3, PTL DEF Spec
-----------------------------------------------------------------------------
\* Threads side by side: what is held of one is the end of the other.

Apart(t) == \A p, q \in DOMAIN t : Plain(t[p]) = Plain(t[q]) => p = q
Foreign(s, t) == \A i \in DOMAIN s : ~Held(s[i], t)

LEMMA PlainSame ==
  ASSUME NEW m, NEW n, Plain(m) = Plain(n)
  PROVE  m.role = n.role /\ m.of = n.of /\ m.by = n.by
  BY DEF Plain

LEMMA ShowsForeign ==
  ASSUME NEW s, NEW t, Foreign(s, t)
  PROVE  ShowsEnd(s, t)
  BY DEF Foreign, ShowsEnd

LEMMA ShowsItself ==
  ASSUME NEW t \in Seq(Message), Apart(t)
  PROVE  ShowsEnd(t, t)
  <1>0. DOMAIN t = 1 .. Len(t) /\ Len(t) \in Nat
    BY LenProperties
  <1>1. \A i \in DOMAIN t : Held(t[i], t)
    BY DEF Held
  <1>2. \A i, j \in DOMAIN t : \A p, q \in DOMAIN t :
          i < j /\ Plain(t[i]) = Plain(t[p]) /\ Plain(t[j]) = Plain(t[q]) => p < q
    <2> SUFFICES ASSUME NEW i \in DOMAIN t, NEW j \in DOMAIN t, NEW p \in DOMAIN t, NEW q \in DOMAIN t,
                        i < j, Plain(t[i]) = Plain(t[p]), Plain(t[j]) = Plain(t[q])
                 PROVE  p < q
      OBVIOUS
    <2>1. i = p /\ j = q
      BY DEF Apart
    <2> QED
      BY <2>1
  <1>3. \A p \in DOMAIN t : p < Len(t) => p + 1 \in DOMAIN t
    BY <1>0
  <1>4. \A i \in DOMAIN t : \E p \in DOMAIN t : Plain(t[i]) = Plain(t[p])
    OBVIOUS
  <1>5. \A p \in DOMAIN t : p < Len(t) =>
          \E j \in DOMAIN t : Held(t[j], t) /\ Plain(t[j]) = Plain(t[p + 1])
    BY <1>1, <1>3
  <1> QED
    BY <1>2, <1>4, <1>5 DEF ShowsEnd

\* A message that is not held may come or go.
LEMMA ShowsMore ==
  ASSUME NEW s \in Seq(Message), NEW t, NEW m \in Message, ShowsEnd(s, t), ~Held(m, t)
  PROVE  ShowsEnd(Append(s, m), t)
  <1> DEFINE a == Append(s, m)
  <1>1. /\ DOMAIN s \subseteq DOMAIN a
        /\ \A i \in DOMAIN s : a[i] = s[i]
        /\ \A i \in DOMAIN a : i \notin DOMAIN s => a[i] = m
    BY AppendedThread
  <1> HIDE DEF a
  <1>2. \A i \in DOMAIN a : Held(a[i], t) => i \in DOMAIN s /\ a[i] = s[i]
    BY <1>1
  <1>3. ShowsEnd(a, t)
    BY <1>1, <1>2 DEF ShowsEnd
  <1> QED
    BY <1>3 DEF a

LEMMA ShowsLess ==
  ASSUME NEW s \in Seq(Message), NEW t, s # <<>>, ShowsEnd(s, t), ~Held(Last(s), t)
  PROVE  ShowsEnd(Front(s), t)
  <1> DEFINE f == Front(s)
  <1>1. /\ \A i \in DOMAIN f : i \in DOMAIN s /\ f[i] = s[i]
        /\ \A i \in DOMAIN s : i = Len(s) \/ i \in DOMAIN f
        /\ Last(s) = s[Len(s)]
    BY CutThread DEF Last
  <1> HIDE DEF f
  <1>2. \A i \in DOMAIN s : Held(s[i], t) => i \in DOMAIN f /\ f[i] = s[i]
    BY <1>1
  <1>3. ShowsEnd(f, t)
    BY <1>1, <1>2 DEF ShowsEnd
  <1> QED
    BY <1>3 DEF f

\* The same message comes at both ends.
LEMMA ShowsNext ==
  ASSUME NEW s \in Seq(Message), NEW t \in Seq(Message), NEW m \in Message, NEW n \in Message,
         Plain(m) = Plain(n), ShowsEnd(s, t),
         \A p \in DOMAIN t : Plain(t[p]) # Plain(n),
         \/ n.role = "assistant" /\ \E p \in DOMAIN t : t[p].of = n.of
         \/ \A i \in DOMAIN s : s[i].of # n.of
  PROVE  ShowsEnd(Append(s, m), Append(t, n))
  <1> DEFINE a == Append(s, m)
             b == Append(t, n)
             e == Len(t) + 1
  <1>0. Len(t) \in Nat /\ DOMAIN t = 1 .. Len(t) /\ e = Len(t) + 1 /\ \A p \in DOMAIN t : p < e
        /\ \A r \in DOMAIN t : r = Len(t) \/ r < Len(t)
    BY LenProperties
  <1>1. /\ DOMAIN s \subseteq DOMAIN a
        /\ \A i \in DOMAIN s : a[i] = s[i]
        /\ \A i \in DOMAIN a : i \notin DOMAIN s => i = Len(s) + 1 /\ a[i] = m
    BY AppendedThread
  <1>2. /\ DOMAIN t \subseteq DOMAIN b
        /\ \A p \in DOMAIN t : b[p] = t[p]
        /\ \A p \in DOMAIN b : p \notin DOMAIN t => p = e /\ b[p] = n
    BY AppendedThread
  <1>3. /\ Len(s) + 1 \in DOMAIN a /\ a[Len(s) + 1] = m /\ Len(s) \in Nat
        /\ DOMAIN s = 1 .. Len(s) /\ Len(s) + 1 \notin DOMAIN s
        /\ \A i \in DOMAIN s : ~(Len(s) + 1 < i)
    <2>1. Len(s) \in Nat /\ DOMAIN s = 1 .. Len(s)
      BY LenProperties
    <2>2. a \in Seq(Message) /\ Len(a) = Len(s) + 1 /\ a[Len(s) + 1] = m
      BY AppendProperties
    <2>3. DOMAIN a = 1 .. Len(s) + 1
      BY <2>2, LenProperties
    <2> QED
      BY <2>1, <2>2, <2>3
  <1>4. /\ e \in DOMAIN b /\ b[e] = n /\ Len(b) = e
        /\ e \notin DOMAIN t
    <2>1. b \in Seq(Message) /\ Len(b) = Len(t) + 1 /\ b[Len(t) + 1] = n
      BY AppendProperties
    <2>2. DOMAIN b = 1 .. Len(t) + 1
      BY <2>1, LenProperties
    <2> QED
      BY <1>0, <2>1, <2>2
  <1>5. m.of = n.of /\ m.role = n.role
    BY PlainSame
  <1> HIDE DEF a, b, e
  <1>6. Held(m, b)
    BY <1>4, <1>5 DEF Held
  <1>7. \A i \in DOMAIN s : Held(a[i], b) <=> Held(s[i], t)
    <2> SUFFICES ASSUME NEW i \in DOMAIN s PROVE Held(s[i], b) <=> Held(s[i], t)
      BY <1>1
    <2>1. Held(s[i], t) => Held(s[i], b)
      BY <1>2 DEF Held
    <2>2. Held(s[i], b) => Held(s[i], t)
      BY <1>2 DEF Held
    <2> QED
      BY <2>1, <2>2
  <1>8. \A i \in DOMAIN s : Held(s[i], t) => Plain(s[i]) # Plain(n)
    BY DEF ShowsEnd
  <1>9. \A i \in DOMAIN a, p \in DOMAIN b : Held(a[i], b) /\ Plain(a[i]) = Plain(b[p]) =>
          \/ i \in DOMAIN s /\ p \in DOMAIN t /\ Held(s[i], t) /\ Plain(s[i]) = Plain(t[p])
          \/ i = Len(s) + 1 /\ p = e
    BY <1>1, <1>2, <1>7, <1>8
  <1>10. \A i \in DOMAIN a : Held(a[i], b) => \E p \in DOMAIN b : Plain(a[i]) = Plain(b[p])
    <2> SUFFICES ASSUME NEW i \in DOMAIN a, Held(a[i], b)
                 PROVE  \E p \in DOMAIN b : Plain(a[i]) = Plain(b[p])
      OBVIOUS
    <2>1. CASE i \in DOMAIN s
      <3>1. PICK p \in DOMAIN t : Plain(s[i]) = Plain(t[p])
        BY <1>7, <2>1 DEF ShowsEnd
      <3> QED
        BY <1>1, <1>2, <2>1, <3>1
    <2>2. CASE i \notin DOMAIN s
      BY <1>1, <1>4, <2>2
    <2> QED
      BY <2>1, <2>2
  <1>11. \A i, j \in DOMAIN a : \A p, q \in DOMAIN b :
           Held(a[i], b) /\ Held(a[j], b) /\ i < j
             /\ Plain(a[i]) = Plain(b[p]) /\ Plain(a[j]) = Plain(b[q]) => p < q
    <2> SUFFICES ASSUME NEW i \in DOMAIN a, NEW j \in DOMAIN a, NEW p \in DOMAIN b, NEW q \in DOMAIN b,
                        Held(a[i], b), Held(a[j], b), i < j,
                        Plain(a[i]) = Plain(b[p]), Plain(a[j]) = Plain(b[q])
                 PROVE  p < q
      OBVIOUS
    <2>1. i \in DOMAIN s
      <3>1. i = Len(s) + 1 => FALSE
        <4>1. j \in DOMAIN s \/ j = Len(s) + 1
          BY <1>1
        <4> QED
          BY <1>3, <4>1
      <3> QED
        BY <1>1, <3>1
    <2>2. p \in DOMAIN t /\ Held(s[i], t) /\ Plain(s[i]) = Plain(t[p])
      BY <1>3, <1>9, <2>1
    <2>3. CASE j \in DOMAIN s
      <3>1. q \in DOMAIN t /\ Held(s[j], t) /\ Plain(s[j]) = Plain(t[q])
        BY <1>3, <1>9, <2>3
      <3> QED
        BY <2>1, <2>2, <2>3, <3>1 DEF ShowsEnd
    <2>4. CASE j \notin DOMAIN s
      <3>1. q = e
        BY <1>9, <2>4
      <3> QED
        BY <1>0, <2>2, <3>1
    <2> QED
      BY <2>3, <2>4
  <1>12. \A i \in DOMAIN a : \A p \in DOMAIN b :
           Held(a[i], b) /\ Plain(a[i]) = Plain(b[p]) /\ p < Len(b)
             => \E j \in DOMAIN a : Held(a[j], b) /\ Plain(a[j]) = Plain(b[p + 1])
    <2> SUFFICES ASSUME NEW i \in DOMAIN a, NEW p \in DOMAIN b,
                        Held(a[i], b), Plain(a[i]) = Plain(b[p]), p < Len(b)
                 PROVE  \E j \in DOMAIN a : Held(a[j], b) /\ Plain(a[j]) = Plain(b[p + 1])
      OBVIOUS
    <2>1. p # e
      BY <1>0, <1>4
    <2>2. i \in DOMAIN s /\ p \in DOMAIN t /\ Held(s[i], t) /\ Plain(s[i]) = Plain(t[p])
      BY <1>9, <2>1
    <2>3. CASE p = Len(t)
      BY <1>0, <1>3, <1>4, <1>6, <2>3
    <2>4. CASE p < Len(t)
      <3>1. PICK j \in DOMAIN s : Held(s[j], t) /\ Plain(s[j]) = Plain(t[p + 1])
        BY <2>2, <2>4 DEF ShowsEnd
      <3>2. p + 1 \in DOMAIN t
        BY <1>0, <2>2, <2>4
      <3> QED
        BY <1>1, <1>2, <1>7, <3>1, <3>2
    <2> QED
      BY <1>0, <2>2, <2>3, <2>4
  <1>13. ShowsEnd(a, b)
    BY <1>10, <1>11, <1>12 DEF ShowsEnd
  <1> QED
    BY <1>13 DEF a, b

\* The reply at both ends goes.
LEMMA ShowsBefore ==
  ASSUME NEW s \in Seq(Message), NEW t \in Seq(Message), s # <<>>, t # <<>>,
         Plain(Last(s)) = Plain(Last(t)), Last(t).role = "assistant",
         \E p \in DOMAIN Front(t) : t[p].of = Last(t).of,
         Apart(t), ShowsEnd(s, t)
  PROVE  ShowsEnd(Front(s), Front(t))
  <1> DEFINE f == Front(s)
             g == Front(t)
             e == Len(t)
  <1>1. /\ \A i \in DOMAIN f : i \in DOMAIN s /\ f[i] = s[i] /\ i < Len(s)
        /\ \A i \in DOMAIN s : i = Len(s) \/ i \in DOMAIN f
        /\ Last(s) = s[Len(s)] /\ Len(s) \in DOMAIN s
    <2>1. DOMAIN s = 1 .. Len(s) /\ Len(s) \in Nat
      BY LenProperties
    <2>2. \A i \in DOMAIN s : i # Len(s) => i < Len(s)
      BY <2>1
    <2> QED
      BY <2>2, CutThread DEF Last
  <1>2. /\ \A p \in DOMAIN g : p \in DOMAIN t /\ g[p] = t[p] /\ p # e
        /\ \A p \in DOMAIN t : p = e \/ p \in DOMAIN g
        /\ Last(t) = t[e] /\ e \in DOMAIN t
    BY CutThread DEF Last
  <1>3. /\ \A p \in DOMAIN t : ~(e < p)
        /\ \A p \in DOMAIN g : p < e /\ (p < Len(g) => p + 1 \in DOMAIN g)
    <2>1. DOMAIN t = 1 .. Len(t) /\ Len(t) \in Nat
      BY LenProperties
    <2>2. Len(g) = Len(t) - 1 /\ DOMAIN g = 1 .. Len(g)
      BY CutThread, LenProperties
    <2> HIDE DEF g
    <2> QED
      BY <2>1, <2>2
  <1>4. s[Len(s)].role = "assistant" /\ Plain(s[Len(s)]) = Plain(t[e])
    BY <1>1, <1>2, PlainSame
  <1>5. \E p \in DOMAIN g : g[p].of = t[e].of
    BY <1>2
  <1> HIDE DEF f, g, e
  <1>6. \A m : Held(m, g) <=> Held(m, t)
    <2>1. ASSUME NEW m, Held(m, g) PROVE Held(m, t)
      BY <1>2, <2>1 DEF Held
    <2>2. ASSUME NEW m, Held(m, t) PROVE Held(m, g)
      BY <1>2, <1>5, <2>2 DEF Held
    <2> QED
      BY <2>1, <2>2
  <1>7. Held(s[Len(s)], t)
    BY <1>4 DEF Held
  <1>8. \A i \in DOMAIN f, p \in DOMAIN t :
          Held(s[i], t) /\ Plain(s[i]) = Plain(t[p]) => p \in DOMAIN g
    <2> SUFFICES ASSUME NEW i \in DOMAIN f, NEW p \in DOMAIN t, Held(s[i], t), Plain(s[i]) = Plain(t[p])
                 PROVE  p \in DOMAIN g
      OBVIOUS
    <2>1. p < e
      BY <1>1, <1>2, <1>4, <1>7 DEF ShowsEnd
    <2>2. p # e
      BY <1>2, <2>1, <1>3
    <2> QED
      BY <1>2, <2>2
  <1>9. \A i \in DOMAIN f : Held(f[i], g) => \E p \in DOMAIN g : Plain(f[i]) = Plain(g[p])
    <2> SUFFICES ASSUME NEW i \in DOMAIN f, Held(s[i], t)
                 PROVE  \E p \in DOMAIN g : Plain(s[i]) = Plain(g[p])
      BY <1>1, <1>6
    <2>1. PICK p \in DOMAIN t : Plain(s[i]) = Plain(t[p])
      BY <1>1 DEF ShowsEnd
    <2> QED
      BY <1>2, <1>8, <2>1
  <1>10. \A i, j \in DOMAIN f : \A p, q \in DOMAIN g :
           Held(f[i], g) /\ Held(f[j], g) /\ i < j
             /\ Plain(f[i]) = Plain(g[p]) /\ Plain(f[j]) = Plain(g[q]) => p < q
    BY <1>1, <1>2, <1>6 DEF ShowsEnd
  <1>11. \A i \in DOMAIN f : \A p \in DOMAIN g :
           Held(f[i], g) /\ Plain(f[i]) = Plain(g[p]) /\ p < Len(g)
             => \E j \in DOMAIN f : Held(f[j], g) /\ Plain(f[j]) = Plain(g[p + 1])
    <2> SUFFICES ASSUME NEW i \in DOMAIN f, NEW p \in DOMAIN g,
                        Held(f[i], g), Plain(f[i]) = Plain(g[p]), p < Len(g)
                 PROVE  \E j \in DOMAIN f : Held(f[j], g) /\ Plain(f[j]) = Plain(g[p + 1])
      OBVIOUS
    <2>1. p + 1 \in DOMAIN g /\ p < e /\ g[p + 1] = t[p + 1] /\ p + 1 # e /\ p + 1 \in DOMAIN t
      BY <1>2, <1>3
    <2>2. PICK j \in DOMAIN s : Held(s[j], t) /\ Plain(s[j]) = Plain(t[p + 1])
      BY <1>1, <1>2, <1>6, <2>1 DEF ShowsEnd, e
    <2>3. j # Len(s)
      BY <1>2, <1>4, <2>1, <2>2 DEF Apart
    <2> QED
      BY <1>1, <1>6, <2>1, <2>2, <2>3
  <1>12. ShowsEnd(f, g)
    BY <1>9, <1>10, <1>11 DEF ShowsEnd
  <1> QED
    BY <1>12 DEF f, g

\* An object has one place: the last one is taken out of the end.
LEMMA WithoutLast ==
  ASSUME NEW s \in Seq(Message), s # <<>>,
         \A i \in DOMAIN s : s[i] = Last(s) => i = Len(s)
  PROVE  Without(s, Last(s)) = Front(s)
  <1>1. DOMAIN s = 1 .. Len(s) /\ Len(s) \in Nat \ {0} /\ Last(s) = s[Len(s)]
    BY LenProperties, EmptySeq DEF Last
  <1>2. (CHOOSE i \in DOMAIN s : s[i] = Last(s)) = Len(s) /\ Last(s) \in ToSet(s)
    BY <1>1 DEF ToSet
  <1>3. Without(s, Last(s)) = SubSeq(s, 1, Len(s) - 1) \o SubSeq(s, Len(s) + 1, Len(s))
    BY <1>2 DEF Without, RemoveAt
  <1>4. Len(s) + 1 \in 1 .. Len(s) + 1 /\ Len(s) \in 0 .. Len(s) /\ ~(Len(s) + 1 <= Len(s))
    BY <1>1
  <1>5. SubSeq(s, Len(s) + 1, Len(s)) = <<>>
    BY <1>1, <1>4
  <1>6. SubSeq(s, 1, Len(s) - 1) \in Seq(Message)
    BY CutThread DEF Front
  <1>7. SubSeq(s, 1, Len(s) - 1) \o <<>> = SubSeq(s, 1, Len(s) - 1)
    BY <1>6, ConcatEmptySeq
  <1> QED
    BY <1>3, <1>5, <1>7 DEF Front
-----------------------------------------------------------------------------
\* Alone with its conversation, the page shows what the server holds.

Lone == turns.others \subseteq {1} /\ ~Blind /\ conv # "deleted"

\* The steps, and what the server's own leave alone.
LEMMA StepKinds ==
  ASSUME [Next]_vars
  PROVE  \/ \E q \in requests : Accept(q) \/ Refuse(q)
         \/ SaveReply \/ DropReply
         \/ OtherSends \/ OtherRetries \/ Delete
         \/ /\ UNCHANGED <<serverVars, turns, answer, reads, pageVars>>
            /\ requests' \subseteq requests
         \/ \E k \in DOMAIN reads : GetOwnedDetail(k)
         \/ Send \/ Retry
         \/ RunSteps \/ LoadLands \/ LoadFails \/ PollSteps \/ Stop \/ StopSteps
  BY DEF Next, vars, netVars, LoseRequest, StopReply, LoseStop

LEMMA LoneGrows ==
  ASSUME Typed, Served, [Next]_vars, Lone'
  PROVE  Lone /\ turns.late = {} /\ ~OtherSends /\ ~OtherRetries /\ ~Delete
  <1>1. turns.others \subseteq {1} /\ ~Blind /\ turns.late = {}
    BY TurnsGrow, SightGrows DEF Lone, Blind
  <1>2. ~OtherSends /\ ~OtherRetries
    <2>1. NextTurn # 1
      BY BoundsAssumption DEF NextTurn, Typed, NetTyped, Turn
    <2>2. OtherActs => NextTurn \in turns'.others
      BY DEF OtherActs, Typed, NetTyped
    <2> QED
      BY <2>1, <2>2 DEF OtherSends, OtherRetries, Lone
  <1>3. ~Delete
    BY DEF Delete, Lone
  <1>4. conv # "deleted"
    <2>1. \A q \in requests : Accept(q) => conv # "deleted"
      BY AcceptFacts DEF Accept
    <2>2. conv' = conv \/ \E q \in requests : Accept(q)
      BY <1>2, <1>3, StepKinds, PageAlone
         DEF serverVars, Refuse, SaveReply, DropReply, GetOwnedDetail, Send, Retry, Request, Typed
    <2> QED
      BY <2>1, <2>2 DEF Lone
  <1> QED
    BY <1>1, <1>2, <1>3, <1>4 DEF Lone

\* Whose turn it can be then.
LEMMA LoneTurns ==
  ASSUME Typed, Settling, Lone
  PROVE  /\ \A q \in requests : q.turn = run.turn /\ run.at = "waiting" /\ answer = "none"
         /\ running.turn \in {None, run.turn, 1}
         /\ running # Nobody => running.turn # None /\ running.turn \in Turn /\ running.of \in Turn
  <1>1. running # Nobody => running.turn \in Turn /\ running.of \in Turn
    BY DEF Typed, ServerTyped
  <1> QED
    BY <1>1, TurnFacts DEF Settling, Lone, Blind

\* The turn that was there before the page is not one of its own.
Early ==
    /\ run.turn # 1 /\ \A q \in requests : q.turn # 1
    /\ running.turn = 1 => /\ running.of = 1 /\ answer \notin Streaming
                           /\ run.at \notin {"reading", "rereading"}
    /\ conv = "none" => ever = {}
    /\ page.sending => run.turn # None
    /\ answer = "open" => running.turn = run.turn

LEMMA EarlyServer ==
  ASSUME Typed, Served, Settling, Early,
         \/ \E q \in requests : Accept(q) \/ Refuse(q)
         \/ SaveReply \/ DropReply \/ OtherSends \/ OtherRetries \/ Delete
  PROVE  Early'
  <1>0. /\ answer = "open" => run.turn # None /\ running # Nobody
        /\ 1 # None /\ NextTurn # 1
    <2>1. answer = "open" => run.turn # None
      BY DEF Settling, Typed, PageTyped
    <2>2. NextTurn # 1
      BY BoundsAssumption DEF NextTurn, Typed, NetTyped, Turn
    <2> QED
      BY <2>1, <2>2 DEF Early, Nobody, None
  <1>1. ASSUME NEW q \in requests, Accept(q) PROVE Early'
    <2>1. /\ running = Nobody /\ running' = [turn |-> q.turn, of |-> q.after]
          /\ conv' = "open" /\ requests' \subseteq requests /\ UNCHANGED <<page, run>>
          /\ answer' = answer \/ (answer' = "open" /\ q.turn = run.turn)
      BY <1>1, AcceptFacts DEF Accept, Tells, pageVars
    <2> QED
      BY <1>0, <2>1 DEF Early
  <1>2. ASSUME NEW q \in requests, Refuse(q) PROVE Early'
    <2>1. /\ UNCHANGED <<serverVars, page, run>> /\ requests' \subseteq requests
          /\ answer' = answer \/ answer' \in Refusals
      BY <1>2 DEF Refuse, Tells, pageVars, Refusals, RefusalOf
    <2>2. \A a \in Refusals : a \notin Streaming
      BY DEF Refusals, Streaming
    <2> QED
      BY <2>1, <2>2 DEF Early, serverVars, Streaming
  <1>3. CASE SaveReply \/ DropReply \/ Delete
    <2>1. /\ running' = Nobody /\ UNCHANGED <<requests, page, run>>
          /\ answer' = "open" => answer = "open" /\ ~Streams
          /\ conv' = "none" => conv = "none" /\ running # Nobody
      BY <1>3 DEF SaveReply, DropReply, Delete, pageVars
    <2>2. Nobody.turn # 1
      BY <1>0 DEF Nobody
    <2> QED
      BY <2>1, <2>2 DEF Early, Streams, Served, Open
  <1>4. CASE OtherSends \/ OtherRetries
    <2>1. /\ running = Nobody /\ running'.turn = NextTurn /\ conv = "open" /\ conv' = "open"
          /\ UNCHANGED <<requests, page, run, answer>>
      BY <1>4 DEF OtherSends, OtherRetries, OtherActs, pageVars, netVars
    <2> QED
      BY <1>0, <2>1 DEF Early
  <1> QED
    BY <1>1, <1>2, <1>3, <1>4

LEMMA EarlyStep ==
  ASSUME Typed, Served, Seen, Settling, Early, [Next]_vars
  PROVE  Early'
  <1>1. CASE UNCHANGED <<serverVars, answer, pageVars>> /\ requests' \subseteq requests
    BY <1>1 DEF Early, serverVars, pageVars
  <1>2. CASE \E k \in DOMAIN reads : GetOwnedDetail(k)
    BY <1>1, <1>2 DEF GetOwnedDetail, netVars
  <1>3. CASE Send \/ Retry
    <2>1. /\ run'.turn = NextTurn /\ run'.at = "waiting" /\ answer' = "none"
          /\ UNCHANGED <<conv, ever, running>>
          /\ \A q \in requests' : q \in requests \/ q.turn = NextTurn
      <3>1. PICK kind, after, hidden : Request(kind, after, hidden)
        BY <1>3, AsksShape
      <3>2. requests' = requests \cup {[kind |-> kind, turn |-> NextTurn, after |-> after,
                                        replace |-> hidden # <<>>]}
        BY <3>1 DEF Request
      <3> QED
        BY <3>1, <3>2, RequestShape DEF Typed
    <2>2. NextTurn # 1 /\ NextTurn # None
      BY BoundsAssumption DEF NextTurn, Typed, NetTyped, Turn, None
    <2>3. "none" \notin Streaming
      BY DEF Streaming
    <2> QED
      BY <2>1, <2>2, <2>3 DEF Early
  <1>4. CASE RunSteps \/ LoadLands \/ LoadFails \/ PollSteps \/ Stop \/ StopSteps
    <2>1. UNCHANGED serverVars /\ requests' = requests /\ run'.turn = run.turn
      BY <1>4, PageAlone, RunGoesOn DEF Typed
    <2>2. page'.sending => page.sending \/ run.turn # None
      <3>1. RunSteps => run.at # "idle"
        BY DEF RunSteps, Prelude, SendDone, RetryDone, Reread, ReplyFailed, ConnectionLost,
           NetworkFails, Limited, SendRefused, RetryRefused, Refetch, Refetched, RefusedWith
      <3>2. page'.sending = page.sending \/ ~page'.sending \/ RunSteps
        BY <1>4, LoadOutcomes, PollOutcomes, StopOutcomes DEF LoadOutcome, PollOutcome, StopOutcome
      <3> QED
        BY <3>1, <3>2 DEF Typed, PageTyped
    <2>3. /\ answer' = answer \/ answer' = "none"
          /\ run'.at \in {"reading", "rereading"} =>
               run.at \in {"reading", "rereading"} \/ answer \in Streaming
      BY <1>4, RunMoves
    <2>4. "none" \notin Streaming /\ "none" # "open"
      BY DEF Streaming
    <2> QED
      BY <2>1, <2>2, <2>3, <2>4 DEF Early, serverVars
  <1> QED
    BY <1>1, <1>2, <1>3, <1>4, EarlyServer, StepKinds

LEMMA EarlyInit == Init => Early
  BY DEF Init, Early, Nobody, None, NoRun, Streaming, ToSet

\* A turn that has ended leaves nothing under way.
LEMMA Quiet ==
  ASSUME Typed, Settling, Early, Lone, answer \in {"done", "failed"} \/ run.at = "rereading"
  PROVE  running = Nobody /\ requests = {}
  <1>1. running.turn # run.turn
    BY DEF Settling, Past
  <1>2. running.turn # 1
    BY DEF Early, Streaming
  <1>3. running.turn = None
    BY <1>1, <1>2, LoneTurns
  <1>4. running = Nobody
    BY <1>3, LoneTurns
  <1> QED
    BY <1>4, LoneTurns

\* What the server's answer says of the thread.
Answers ==
    /\ answer = "failed" => EndsWith(thread, run.after)
    /\ answer = "done" \/ run.at = "rereading" => thread # <<>> /\ Last(thread) = OwnReply
    /\ run.turn # None =>
         \A m \in ever : m.role = "assistant" /\ m.of = run.turn => m.by = run.turn
    /\ answer \in Refusals \ {"error"} /\ run.after = run.turn => \A m \in ever : m.of # run.turn
    /\ answer # "gone"

LEMMA AnswersKept ==
  ASSUME Answers, UNCHANGED <<thread, ever>>, run'.turn = run.turn, run'.after = run.after,
         answer' = answer \/ answer' = "none",
         run'.at = "rereading" => run.at = "rereading" \/ answer = "done"
  PROVE  Answers'
  <1>1. "none" \notin Refusals \cup {"failed", "done", "gone"}
    BY DEF Refusals
  <1>2. OwnReply' = OwnReply
    BY DEF OwnReply
  <1> QED
    BY <1>1, <1>2 DEF Answers

LEMMA AnswersRefuse ==
  ASSUME Typed, Served, Same, Settling, Answers, Lone, NEW q \in requests, Refuse(q)
  PROVE  Answers'
  <1>1. q.turn = run.turn /\ run.at = "waiting" /\ answer = "none"
    BY LoneTurns
  <1>2. /\ UNCHANGED <<thread, ever, run>>
        /\ answer' \in {"limit", "error"} \/ (answer' = RefusalOf(q) /\ RefusalOf(q) # "none")
    BY <1>1 DEF Refuse, Tells, serverVars, pageVars
  <1>3. RefusalOf(q) \in {"none", "busy", "nothing", "answered"}
    BY DEF RefusalOf, Lone
  <1>4. answer' \notin {"failed", "done", "gone"}
    BY <1>2, <1>3
  <1>5. \A m \in ever : m.of # run.turn
    BY <1>1 DEF Served, Fresh
  <1> QED
    BY <1>1, <1>2, <1>4, <1>5 DEF Answers

LEMMA AnswersAccept ==
  ASSUME Typed, Served, Settling, Answers, Lone, NEW q \in requests, Accept(q)
  PROVE  Answers'
  <1>1. run.at = "waiting" /\ answer = "none"
    BY LoneTurns
  <1>2. run' = run /\ answer' \in {"none", "open"}
    BY <1>1 DEF Accept, Tells, pageVars
  <1>3. \A m \in ever' : m \in ever \/ m.role = "user"
    BY AcceptedThread DEF Question
  <1>4. answer' \notin Refusals \cup {"failed", "done", "gone"}
    BY <1>2 DEF Refusals
  <1> QED
    BY <1>1, <1>2, <1>3, <1>4 DEF Answers

LEMMA AnswersReplies ==
  ASSUME Typed, Served, Same, Settling, Early, Answers, Lone, SaveReply \/ DropReply
  PROVE  Answers'
  <1>0. running # Nobody /\ run' = run /\ OwnReply' = OwnReply
    BY DEF SaveReply, DropReply, pageVars, OwnReply
  <1>1. answer \notin {"done", "failed"} /\ run.at # "rereading"
    BY <1>0, Quiet
  <1>2. /\ EndsWith(thread, running.of)
        /\ running.turn = run.turn => running.of = run.after
    BY <1>0 DEF Served, Open, Same
  <1>3. CASE DropReply
    <2>1. UNCHANGED <<thread, ever>>
      BY <1>3 DEF DropReply
    <2>2. (answer' = "failed" /\ Streams) \/ answer' \in {"error", answer}
      BY <1>3 DEF DropReply
    <2> QED
      BY <1>0, <1>1, <1>2, <2>1, <2>2 DEF Answers, Streams, Refusals
  <1>4. CASE SaveReply
    <2> DEFINE a == Answer(running.of, running.turn)
    <2>1. /\ thread' = Append(thread, a) /\ ever' = ever \cup {a}
          /\ (answer' = "done" /\ Streams) \/ answer' = answer
      BY <1>4 DEF SaveReply, Stores
    <2>2. a \in Message /\ thread \in Seq(Message)
      BY <1>0, LoneTurns, MessageFacts DEF Typed, ServerTyped
    <2>3. /\ a.of = running.of /\ a.by = running.turn
          /\ running.turn = run.turn => a = OwnReply
      BY <1>2 DEF Answer, OwnReply
    <2> HIDE DEF a
    <2>4. thread' # <<>> /\ Last(thread') = a
      BY <2>1, <2>2, AppendedThread
    <2>5. running.turn = run.turn \/ (a.of = 1 /\ a.of # run.turn)
      BY <1>0, <2>3, LoneTurns DEF Early
    <2>6. answer \in Refusals => a.of # run.turn
      BY <2>5 DEF Settling, Past
    <2>7. answer' = "done" \/ run'.at = "rereading" => Last(thread') = OwnReply
      BY <1>0, <1>1, <2>1, <2>3, <2>4 DEF Streams
    <2>8. answer' # "failed" /\ answer' # "gone" /\ (answer' \in Refusals => answer' = answer)
      BY <1>1, <2>1 DEF Answers, Refusals
    <2>9. run.turn # None =>
            \A m \in ever' : m.role = "assistant" /\ m.of = run.turn => m.by = run.turn
      BY <2>1, <2>3, <2>5 DEF Answers
    <2> QED
      BY <1>0, <2>1, <2>4, <2>6, <2>7, <2>8, <2>9 DEF Answers
  <1> QED
    BY <1>3, <1>4

LEMMA AnswersStep ==
  ASSUME Typed, Served, Seen, Same, Settling, Early, Lone => Answers, [Next]_vars, Lone'
  PROVE  Answers'
  <1>0. Lone /\ Answers /\ ~OtherSends /\ ~OtherRetries /\ ~Delete
    BY LoneGrows
  <1>1. CASE UNCHANGED <<serverVars, answer, pageVars>>
    BY <1>0, <1>1, AnswersKept DEF serverVars, pageVars
  <1>2. CASE \E k \in DOMAIN reads : GetOwnedDetail(k)
    BY <1>1, <1>2 DEF GetOwnedDetail, netVars
  <1>3. CASE Send \/ Retry
    <2>1. PICK kind, after, hidden : Request(kind, after, hidden)
      BY <1>3, AsksShape
    <2>2. /\ run'.turn = NextTurn /\ run'.at = "waiting" /\ answer' = "none"
          /\ UNCHANGED <<ever, thread>>
      BY <2>1, RequestShape DEF Typed
    <2>3. \A m \in ever : m.of # NextTurn
      BY Before
    <2> QED
      BY <2>2, <2>3 DEF Answers, Refusals
  <1>4. CASE RunSteps \/ LoadLands \/ LoadFails \/ PollSteps \/ Stop \/ StopSteps
    <2>1. UNCHANGED serverVars /\ run'.turn = run.turn /\ run'.after = run.after
      BY <1>4, PageAlone, RunGoesOn DEF Typed
    <2>2. /\ answer' = answer \/ answer' = "none"
          /\ run'.at = "rereading" => run.at = "rereading" \/ answer = "done"
      BY <1>4, RunMoves
    <2> QED
      BY <1>0, <2>1, <2>2, AnswersKept DEF serverVars
  <1> QED
    BY <1>0, <1>1, <1>2, <1>3, <1>4, AnswersAccept, AnswersRefuse, AnswersReplies, StepKinds

LEMMA AnswersInit == Init => Answers
  BY DEF Init, Answers, NoRun, None, Refusals

\* A read that found the conversation free, or that follows a finished retry, has
\* nothing to race with: what it takes stays the thread until the page applies it.
Conclusive(k) ==
    /\ reads[k].at \in {"half", "ready"}
    /\ ~reads[k].replying \/ (k = "run" /\ run.at = "rereading")
Reads ==
    \A k \in {"load", "poll", "run"} : Conclusive(k) =>
      /\ running = Nobody /\ requests = {}
      /\ reads[k].at = "ready" => reads[k].thread = thread

LEMMA ReadsAreKept ==
  ASSUME Reads, UNCHANGED <<running, thread>>, requests' \subseteq requests,
         run'.at = "rereading" => run.at = "rereading" \/ reads'["run"].at \in {"off", "asked"},
         \A k \in {"load", "poll", "run"} :
           reads'[k] = reads[k] \/ reads'[k].at \in {"off", "asked"}
  PROVE  Reads'
  <1> SUFFICES ASSUME NEW k \in {"load", "poll", "run"}, Conclusive(k)'
               PROVE  /\ running = Nobody /\ requests' = {}
                      /\ reads'[k].at = "ready" => reads'[k].thread = thread
    BY DEF Reads
  <1>1. reads'[k] = reads[k] /\ Conclusive(k)
    BY DEF Conclusive
  <1> QED
    BY <1>1 DEF Reads

LEMMA PageAsks ==
  ASSUME Typed, RunSteps \/ LoadLands \/ LoadFails \/ PollSteps \/ Stop \/ StopSteps
  PROVE  /\ \A k \in {"load", "poll", "run"} :
              reads'[k] = reads[k] \/ reads'[k].at \in {"off", "asked"}
         /\ run'.at = "rereading" => run.at = "rereading" \/ reads'["run"].at = "asked"
  <1>1. \/ UNCHANGED reads
        \/ \E k \in {"load", "poll", "run"} : StopsReading(k) \/ Asks(k)
    BY DEF RunSteps, Prelude, SendDone, RetryDone, Reread, ReplyFailed, ConnectionLost,
       NetworkFails, Limited, SendRefused, RetryRefused, Refetch, Refetched, LoadLands, LoadFails,
       PollSteps, PollTick, PollLands, PollFails, PollCap, Stop, StopSteps, Stopped, StopFails,
       StopRefused, StopSettles
  <1>2. \A k \in {"load", "poll", "run"} :
          reads'[k] = reads[k] \/ reads'[k].at \in {"off", "asked"}
    BY <1>1, ReadFacts DEF Typed
  <1>3. CASE RunSteps
    <2>1. RetryDone => reads'["run"].at = "asked"
      BY DEF RetryDone, Asks, Typed, PageTyped
    <2>2. RetryDone \/ run'.at # "rereading"
      BY <1>3, RereadFollows
    <2> QED
      BY <1>2, <2>1, <2>2
  <1>4. CASE LoadLands \/ LoadFails \/ PollSteps \/ Stop \/ StopSteps
    BY <1>2, <1>4, LoadOutcomes, PollOutcomes, StopOutcomes
       DEF LoadOutcome, PollOutcome, StopOutcome
  <1> QED
    BY <1>2, <1>3, <1>4

LEMMA ReadsAlone ==
  ASSUME Typed, Settling, Sighted, Lone, NEW k \in {"load", "poll", "run"}, reads[k].at # "off"
  PROVE  requests = {}
  <1> SUFFICES ASSUME NEW q \in requests PROVE FALSE
    OBVIOUS
  <1>1. q.turn = run.turn /\ run.at = "waiting" /\ q.turn # None
    BY LoneTurns, TurnFacts DEF Typed, NetTyped, RequestType
  <1>2. reads["load"].at = "off"
    BY <1>1 DEF Sighted, Lone
  <1>3. reads["poll"].at = "off" /\ reads["run"].at = "off"
    BY <1>1 DEF Typed, Owned
  <1> QED
    BY <1>2, <1>3

LEMMA ReadsStep ==
  ASSUME Typed, Served, Seen, Settling, Sighted, Early, Lone => Reads, [Next]_vars, Lone'
  PROVE  Reads'
  <1>0. Lone /\ Reads /\ ~OtherSends /\ ~OtherRetries /\ ~Delete
    BY LoneGrows
  <1>1. CASE UNCHANGED <<serverVars, reads, pageVars>> /\ requests' \subseteq requests
    BY <1>0, <1>1, ReadsAreKept DEF serverVars, pageVars
  <1>2. ASSUME running # Nobody \/ requests # {}, UNCHANGED <<run, reads>>
        PROVE  Reads'
    BY <1>0, <1>2 DEF Reads, Conclusive
  <1>3. CASE \E q \in requests : Accept(q) \/ Refuse(q)
    BY <1>2, <1>3 DEF Accept, Refuse, pageVars
  <1>4. CASE SaveReply \/ DropReply
    BY <1>2, <1>4 DEF SaveReply, DropReply, pageVars
  <1>5. ASSUME NEW k \in DOMAIN reads, GetOwnedDetail(k)
        PROVE  Reads'
    <2>1. /\ UNCHANGED <<running, thread, requests, run>>
          /\ k \in {"load", "poll", "run"} /\ reads[k].at # "off"
          /\ \A j \in {"load", "poll", "run"} : j # k => reads'[j] = reads[j]
      BY <1>5, ReadyShowsThread DEF GetOwnedDetail, netVars, serverVars, pageVars, Typed, PageTyped
    <2>2. requests = {}
      BY <1>0, <2>1, ReadsAlone
    <2>3. ASSUME Conclusive(k)'
          PROVE  running = Nobody /\ (reads'[k].at = "ready" => reads'[k].thread = thread)
      <3>1. CASE k = "run" /\ run.at = "rereading"
        BY <1>0, <1>5, <2>1, <3>1, Quiet, ReadyShowsThread
      <3>2. CASE ~reads'[k].replying
        <4>1. CASE reads[k].at = "asked"
          <5>1. reads'[k].replying = (running # Nobody)
            BY <1>5, <2>1, <4>1 DEF GetOwnedDetail, Sees, SeesRow, Typed, PageTyped, Read
          <5> QED
            BY <1>5, <3>2, <5>1, ReadyShowsThread
        <4>2. CASE reads[k].at # "asked"
          <5>1. reads[k].at = "half" /\ reads'[k].replying = reads[k].replying
            BY <1>5, <2>1, <4>2 DEF GetOwnedDetail, Sees, SeesMessages, Typed, PageTyped, Read
          <5> QED
            BY <1>0, <1>5, <2>1, <3>2, <5>1, ReadyShowsThread DEF Reads, Conclusive
        <4> QED
          BY <4>1, <4>2
      <3> QED
        BY <2>1, <2>3, <3>1, <3>2 DEF Conclusive
    <2>4. \A j \in {"load", "poll", "run"} : j # k => (Conclusive(j)' => Conclusive(j))
      BY <2>1 DEF Conclusive
    <2> QED
      BY <1>0, <2>1, <2>2, <2>3, <2>4 DEF Reads
  <1>6. CASE Send \/ Retry
    <2>1. PICK kind, after, hidden : Request(kind, after, hidden) /\ ~Busy
      BY <1>6, AsksShape
    <2>2. UNCHANGED reads /\ reads["load"].at = "off"
      BY <2>1, RequestShape DEF Lone, Blind, Typed
    <2>3. reads["poll"].at = "off" /\ reads["run"].at = "off"
      BY <2>1 DEF Busy, Typed, Owned
    <2> QED
      BY <2>2, <2>3 DEF Reads, Conclusive
  <1>7. CASE RunSteps \/ LoadLands \/ LoadFails \/ PollSteps \/ Stop \/ StopSteps
    <2>1. UNCHANGED serverVars /\ requests' = requests
      BY <1>7, PageAlone DEF Typed
    <2> QED
      BY <1>0, <1>7, <2>1, PageAsks, ReadsAreKept DEF serverVars
  <1> QED
    BY <1>0, <1>1, <1>3, <1>4, <1>5, <1>6, <1>7, StepKinds

LEMMA ReadsInit == Init => Reads
  BY DEF Init, Reads, Conclusive, NoRead
-----------------------------------------------------------------------------
\* The thread with its last reply taken off, and back on.

LEMMA CutAppended ==
  ASSUME NEW S, NEW s \in Seq(S), NEW m \in S
  PROVE  Front(Append(s, m)) = s
  <1> DEFINE a == Append(s, m)
             f == Front(a)
  <1>1. Len(s) \in Nat /\ DOMAIN s = 1 .. Len(s)
    BY LenProperties
  <1>2. a \in Seq(S) /\ a # <<>> /\ Len(a) = Len(s) + 1 /\ \A i \in 1 .. Len(s) : a[i] = s[i]
    BY AppendProperties
  <1> HIDE DEF a
  <1>3. f \in Seq(S) /\ Len(f) = Len(a) - 1 /\ \A i \in DOMAIN f : f[i] = a[i]
    BY <1>2, CutThread
  <1>4. DOMAIN f = 1 .. Len(f)
    BY <1>3, LenProperties
  <1> HIDE DEF f
  <1>5. Len(f) = Len(s) /\ \A i \in 1 .. Len(s) : f[i] = s[i]
    BY <1>1, <1>2, <1>3, <1>4
  <1> QED
    BY <1>3, <1>5, SeqEqual DEF f, a

LEMMA AppendedCut ==
  ASSUME NEW S, NEW s \in Seq(S), s # <<>>
  PROVE  Append(Front(s), Last(s)) = s
  <1> DEFINE f == Front(s)
             l == Last(s)
             a == Append(f, l)
  <1>1. Len(s) \in Nat \ {0} /\ DOMAIN s = 1 .. Len(s)
    BY LenProperties, EmptySeq
  <1>2. /\ f \in Seq(S) /\ Len(f) = Len(s) - 1 /\ l \in S /\ l = s[Len(s)]
        /\ \A i \in DOMAIN f : f[i] = s[i]
    BY CutThread DEF Last
  <1>3. DOMAIN f = 1 .. Len(f)
    BY <1>2, LenProperties
  <1> HIDE DEF f, l
  <1>4. /\ a \in Seq(S) /\ Len(a) = Len(f) + 1 /\ a[Len(f) + 1] = l
        /\ \A i \in 1 .. Len(f) : a[i] = f[i]
    BY <1>2, AppendProperties
  <1> HIDE DEF a
  <1>5. Len(a) = Len(s) /\ Len(f) + 1 = Len(s)
    BY <1>1, <1>2, <1>4
  <1>6. \A i \in 1 .. Len(s) : i \in 1 .. Len(f) \/ i = Len(s)
    BY <1>1, <1>2, Places, Zenon
  <1>7. \A i \in 1 .. Len(s) : a[i] = s[i]
    BY <1>2, <1>3, <1>4, <1>5, <1>6
  <1> QED
    BY <1>4, <1>5, <1>7, SeqEqual DEF f, l, a

LEMMA ThreadApart ==
  ASSUME Typed, Served
  PROVE  Apart(thread)
  <1> SUFFICES ASSUME NEW p \in DOMAIN thread, NEW q \in DOMAIN thread,
                      Plain(thread[p]) = Plain(thread[q])
               PROVE  p = q
    BY DEF Apart
  <1>1. thread[p].role = thread[q].role /\ thread[p].of = thread[q].of
    BY PlainSame
  <1>2. thread[p].role \in {"user", "assistant"} /\ p \in Nat /\ q \in Nat
    BY ThreadFacts, LenProperties DEF Typed, ServerTyped, Message
  <1>3. CASE thread[p].role = "user"
    BY <1>1, <1>3 DEF Served, Chained
  <1>4. CASE thread[p].role = "assistant"
    <2>1. /\ p - 1 \in DOMAIN thread /\ thread[p - 1] = Question(thread[p].of)
          /\ q - 1 \in DOMAIN thread /\ thread[q - 1] = Question(thread[q].of)
      BY <1>1, <1>4 DEF Served, Chained
    <2>2. p - 1 = q - 1
      BY <1>1, <2>1 DEF Served, Chained, Question
    <2> QED
      BY <1>2, <2>2
  <1> QED
    BY <1>2, <1>3, <1>4

\* Each reply a thread has, or a page shows, stands right after its question.
Follows(s) ==
    \A i \in DOMAIN s : s[i].role = "assistant" =>
      i - 1 \in DOMAIN s /\ s[i - 1].role = "user" /\ s[i - 1].of = s[i].of

LEMMA ThreadFollows == Typed /\ Served => Follows(thread)
  <1>1. \A q : Question(q).role = "user" /\ Question(q).of = q
    BY DEF Question
  <1> QED
    BY <1>1 DEF Served, Chained, Follows

LEMMA FollowsNext ==
  ASSUME NEW s \in Seq(Message), NEW m \in Message, Follows(s),
         m.role = "assistant" => s # <<>> /\ Last(s).role = "user" /\ Last(s).of = m.of
  PROVE  Follows(Append(s, m))
  <1> DEFINE a == Append(s, m)
  <1>1. Len(s) \in Nat /\ DOMAIN s = 1 .. Len(s)
    BY LenProperties
  <1>2. /\ DOMAIN s \subseteq DOMAIN a
        /\ \A i \in DOMAIN s : a[i] = s[i]
        /\ \A i \in DOMAIN a : i \notin DOMAIN s => i = Len(s) + 1 /\ a[i] = m
    BY AppendedThread
  <1> HIDE DEF a
  <1>3. s # <<>> => Len(s) \in DOMAIN s /\ Last(s) = s[Len(s)] /\ Len(s) + 1 - 1 = Len(s)
    BY <1>1, EmptySeq DEF Last
  <1>4. Follows(a)
    BY <1>2, <1>3 DEF Follows
  <1> QED
    BY <1>4 DEF a

LEMMA FollowsLess ==
  ASSUME NEW s \in Seq(Message), s # <<>>, Follows(s)
  PROVE  Follows(Front(s))
  <1> DEFINE f == Front(s)
  <1>1. /\ \A i \in DOMAIN f : i \in DOMAIN s /\ f[i] = s[i]
        /\ \A i \in DOMAIN s : i = Len(s) \/ i \in DOMAIN f
        /\ \A i \in DOMAIN f : i - 1 # Len(s)
    <2>1. DOMAIN s = 1 .. Len(s) /\ Len(s) \in Nat
      BY LenProperties
    <2>2. \A i \in DOMAIN s : i - 1 # Len(s)
      BY <2>1
    <2> QED
      BY <2>2, CutThread
  <1> HIDE DEF f
  <1>2. Follows(f)
    BY <1>1 DEF Follows
  <1> QED
    BY <1>2 DEF f

LEMMA ForeignLess ==
  ASSUME NEW s \in Seq(Message), s # <<>>, NEW t, Foreign(s, t)
  PROVE  Foreign(Front(s), t)
  BY CutThread DEF Foreign

LEMMA ForeignNext ==
  ASSUME NEW s \in Seq(Message), NEW m \in Message, NEW t, Foreign(s, t), ~Held(m, t)
  PROVE  Foreign(Append(s, m), t)
  BY AppendedThread DEF Foreign

\* A thread without the reply to q at its end, which a retry hides.
Stripped(t, q) ==
    IF t # <<>> /\ Last(t).role = "assistant" /\ Last(t).of = q THEN Front(t) ELSE t

LEMMA StrippedAsked ==
  ASSUME NEW t, NEW q, EndsWith(t, q)
  PROVE  Stripped(t, q) = t
  BY DEF EndsWith, Stripped, Question

LEMMA StrippedOther ==
  ASSUME Typed, NEW q, \A m \in ever : m.of # q
  PROVE  Stripped(thread, q) = thread
  BY LastPlace, ThreadFacts DEF Stripped, Typed, ServerTyped
-----------------------------------------------------------------------------
\* What a page shows that is alone with its conversation.

Alone ==
    /\ Lone /\ reads["load"].at = "off" /\ ~page.limited
    /\ page.sending \/ (~page.loading /\ page.known)

\* A page that waits for a reply shows the thread without it.
Target == IF page.sending THEN Stripped(thread, run.after) ELSE thread
Asking(s) ==
    /\ s # <<>> /\ Last(s).role = "user" /\ Last(s).of = run.after
    /\ run.after = run.turn =>
         /\ Last(s) = Own(Question(run.turn))
         /\ \A i \in DOMAIN s : s[i].of = run.turn => i = Len(s)
Showing ==
    Alone =>
      /\ Follows(page.shown)
      /\ page.sending => Asking(page.shown)
      /\ ShowsEnd(page.shown, Target)
      /\ running.turn = 1 => Foreign(page.shown, thread)

\* The history is the first thing a page shows.
Blank == ~Blind /\ reads["load"].at # "off" => page.shown = <<>>

LEMMA ShowingKept ==
  ASSUME Showing, Alone, page'.shown = page.shown, page'.sending = page.sending, thread' = thread,
         run'.after = run.after, run'.turn = run.turn, running' \in {running, Nobody}
  PROVE  Showing'
  <1>1. running'.turn = 1 => running.turn = 1
    BY DEF Nobody, None
  <1>2. Target' = Target
    BY DEF Target
  <1>3. Asking(page.shown) => Asking(page.shown)'
    BY DEF Asking
  <1> QED
    BY <1>1, <1>2, <1>3 DEF Showing

LEMMA ShowingThread ==
  ASSUME Typed, Served, thread' = thread, page'.shown = thread, ~page'.sending, running' = Nobody
  PROVE  Showing'
  <1>1. Follows(thread) /\ ShowsEnd(thread, thread)
    BY ThreadFollows, ThreadApart, ShowsItself DEF Typed, ServerTyped
  <1>2. running'.turn # 1
    BY DEF Nobody, None
  <1> QED
    BY <1>1, <1>2 DEF Showing, Target

LEMMA OwnPlain ==
  \A m \in Message : /\ Plain(Own(m)) = Plain(m)
                     /\ Own(m).role = m.role /\ Own(m).of = m.of
  BY DEF Own, Plain, Message

LEMMA ShowingAccept ==
  ASSUME Typed, Served, Same, Settling, Early, Alone, Showing, NEW q \in requests, Accept(q)
  PROVE  Showing'
  <1>1. q.turn = run.turn /\ run.at = "waiting" /\ q.after = run.after
    BY LoneTurns DEF Same, Alone
  <1>2. page.sending /\ page' = page /\ run' = run
    BY <1>1 DEF Accept, Typed, Owned, pageVars
  <1>3. EndsWith(thread', run.after) /\ running'.turn # 1
    BY <1>1, AcceptedThread DEF Early
  <1>4. Target' = thread'
    BY <1>2, <1>3, StrippedAsked DEF Target
  <1>5. /\ Follows(page.shown) /\ Asking(page.shown)
        /\ ShowsEnd(page.shown, Stripped(thread, run.after))
    BY <1>2 DEF Showing, Target
  <1>6. CASE q.kind = "send"
    <2> DEFINE s == page.shown
               n == Question(run.turn)
    <2>1. /\ s \in Seq(Message) /\ s # <<>> /\ thread \in Seq(Message)
          /\ run.turn \in Turn /\ run.after = run.turn
      BY <1>1, <1>5, <1>6 DEF Typed, ServerTyped, NetTyped, RequestType, PageTyped, Page, Asking,
         Served, Fresh
    <2>2. /\ n \in Message /\ Own(n) \in Message /\ n.role = "user" /\ n.of = run.turn
          /\ Own(n).role = "user" /\ Own(n).of = run.turn /\ Plain(Own(n)) = Plain(n)
      BY <2>1, MessageFacts, OwnPlain DEF Question
    <2>3. Last(s) = Own(n) /\ \A i \in DOMAIN s : s[i].of = run.turn => i = Len(s)
      BY <1>5, <2>1 DEF Asking
    <2>4. thread' = Append(thread, n)
      BY <1>1, <1>6 DEF Accept, Stores
    <2>5. \A m \in ever : m.of # run.turn
      BY <1>1 DEF Served, Fresh
    <2> HIDE DEF s, n
    <2>6. Stripped(thread, run.after) = thread
      BY <2>1, <2>5, StrippedOther
    <2>7. \A p \in DOMAIN thread : thread[p].of # run.turn /\ Plain(thread[p]) # Plain(n)
      BY <2>2, <2>5, ThreadFacts, PlainSame DEF Typed
    <2>8. ~Held(Own(n), thread)
      BY <2>2, <2>7 DEF Held
    <2>9. ShowsEnd(Front(s), thread)
      BY <1>5, <2>1, <2>3, <2>6, <2>8, ShowsLess DEF s
    <2>10. Front(s) \in Seq(Message) /\ \A i \in DOMAIN Front(s) : Front(s)[i].of # n.of
      BY <2>1, <2>2, <2>3, CutThread
    <2>11. ShowsEnd(Append(Front(s), Own(n)), Append(thread, n))
      BY <2>1, <2>2, <2>7, <2>9, <2>10, ShowsNext
    <2>12. Append(Front(s), Own(n)) = s
      BY <2>1, <2>3, AppendedCut
    <2> QED
      BY <1>2, <1>3, <1>4, <1>5, <2>4, <2>11, <2>12 DEF Showing, Asking, s
  <1>7. CASE q.kind # "send"
    <2>1. /\ thread' = IF Answered(thread, run.after) THEN Front(thread) ELSE thread
          /\ Answered(thread, run.after) \/ EndsWith(thread, run.after)
      <3>1. q.kind = "retry"
        BY <1>7 DEF Typed, NetTyped, RequestType
      <3> QED
        BY <1>1, <1>7, <3>1, AcceptFacts DEF Accept, Replaced
    <2>2. thread' = Stripped(thread, run.after)
      <3>1. CASE Answered(thread, run.after)
        BY <2>1, <3>1, StrippedThread DEF Stripped, Typed, Served
      <3>2. CASE ~Answered(thread, run.after)
        BY <2>1, <3>2, StrippedAsked
      <3> QED
        BY <3>1, <3>2
    <2> QED
      BY <1>2, <1>3, <1>4, <1>5, <2>2 DEF Showing, Asking
  <1> QED
    BY <1>6, <1>7

LEMMA ShowingSave ==
  ASSUME Typed, Served, Same, Settling, Early, Alone, Showing, SaveReply
  PROVE  Showing'
  <1> DEFINE a == Answer(running.of, running.turn)
  <1>0. /\ running # Nobody /\ running' = Nobody /\ page' = page /\ run' = run
        /\ thread' = Append(thread, a) /\ EndsWith(thread, running.of)
        /\ turns.late = {}
    BY DEF SaveReply, Stores, pageVars, Served, Open, Alone, Lone, Blind
  <1>1. /\ thread \in Seq(Message) /\ a \in Message
        /\ a.role = "assistant" /\ a.of = running.of
        /\ running.turn \in {run.turn, 1} /\ running.turn # None
    BY <1>0, LoneTurns, MessageFacts DEF Typed, ServerTyped, Answer, Alone
  <1> HIDE DEF a
  <1>2. /\ Front(thread') = thread /\ Last(thread') = a /\ thread' # <<>>
        /\ \A p \in DOMAIN thread' :
             (p \in DOMAIN thread /\ thread'[p] = thread[p]) \/ thread'[p] = a
    BY <1>0, <1>1, CutAppended, AppendedThread
  <1>3. running'.turn # 1
    BY <1>0 DEF Nobody, None
  <1>4. CASE running.turn = run.turn
    <2>1. running.of = run.after
      BY <1>0, <1>4 DEF Same
    <2>2. page.sending
      BY <1>0, <1>1, <1>4 DEF Settling, Past, Given, Alone
    <2>3. Target = thread /\ Target' = thread
      BY <1>0, <1>1, <1>2, <2>1, <2>2, StrippedAsked DEF Target, Stripped
    <2>4. Asking(page.shown) => Asking(page.shown)'
      BY <1>0 DEF Asking
    <2> QED
      BY <1>0, <1>3, <2>2, <2>3, <2>4 DEF Showing
  <1>5. CASE running.turn = 1
    <2>1. Foreign(page.shown, thread)
      BY <1>5 DEF Showing
    <2>2. \A m : Held(m, thread') => Held(m, thread)
      <3> SUFFICES ASSUME NEW m, Held(m, thread'), m.role = "user"
                   PROVE  \E p \in DOMAIN thread : thread[p].of = m.of
        BY DEF Held
      <3>1. PICK p \in DOMAIN thread' : thread'[p].of = m.of
        BY DEF Held
      <3>2. CASE p \in DOMAIN thread /\ thread'[p] = thread[p]
        BY <3>1, <3>2
      <3>3. CASE thread'[p] = a
        <4>1. thread # <<>> /\ Last(thread).of = running.of
          BY <1>0 DEF EndsWith, Question
        <4> QED
          BY <1>1, <3>1, <3>3, <4>1, LastPlace DEF Typed
      <3> QED
        BY <1>2, <3>2, <3>3
    <2>3. ShowsEnd(page.shown, thread) /\ ShowsEnd(page.shown, thread')
      BY <2>1, <2>2, ShowsForeign DEF Foreign
    <2>4. Target' \in {thread, thread'}
      BY <1>2 DEF Target, Stripped
    <2>5. Asking(page.shown) => Asking(page.shown)'
      BY <1>0 DEF Asking
    <2> QED
      BY <1>0, <1>3, <2>3, <2>4, <2>5 DEF Showing
  <1> QED
    BY <1>1, <1>4, <1>5

LEMMA ShownFacts ==
  ASSUME PageTyped
  PROVE  /\ page.shown \in Seq(Message) /\ Len(page.shown) \in Nat
         /\ DOMAIN page.shown = 1 .. Len(page.shown)
         /\ \A j \in DOMAIN page.shown :
              /\ page.shown[j] \in Message /\ page.shown[j] \in ToSet(page.shown)
              /\ page.shown[j].role \in {"user", "assistant"}
  <1>1. page.shown \in Seq(Message) /\ Len(page.shown) \in Nat /\ DOMAIN page.shown = 1 .. Len(page.shown)
    BY LenProperties DEF PageTyped, Page
  <1>2. \A j \in DOMAIN page.shown : page.shown[j] \in Message /\ page.shown[j] \in ToSet(page.shown)
    BY <1>1, ElementOfSeq DEF ToSet
  <1>3. \A m \in Message : m.role \in {"user", "assistant"}
    BY DEF Message
  <1> QED
    BY <1>1, <1>2, <1>3

\* A new question is not in the thread.
LEMMA ShowingSend ==
  ASSUME Typed, Served, Seen, Replies, Early, Showing, Alone', Send
  PROVE  Showing'
  <1> DEFINE n == Question(NextTurn)
             s == page.shown
  <1>1. /\ Request("send", NextTurn, <<>>) /\ Starts(Append(s, Own(n)))
        /\ ~page.loading /\ ~page.limited
        /\ page.known \/ conv = "none"
    BY DEF Send, MaySend, Busy
  <1>2. /\ s \in Seq(Message) /\ NextTurn \in Turn /\ n \in Message /\ Own(n) \in Message
        /\ n.role = "user" /\ n.of = NextTurn /\ Own(n).role = "user" /\ Own(n).of = NextTurn
        /\ thread \in Seq(Message)
    <2>1. NextTurn \in Turn
      BY <1>1, TurnFacts DEF Request, NextTurn, Typed, NetTyped
    <2> QED
      BY <2>1, MessageFacts, OwnPlain DEF Question, Typed, ServerTyped, PageTyped, Page
  <1> HIDE DEF n
  <1>3. Append(s, Own(n)) \in Seq(Message) /\ Append(s, Own(n)) # <<>>
        /\ Last(Append(s, Own(n))) = Own(n)
    BY <1>2, AppendedThread
  <1>4. /\ page'.shown = Append(s, Own(n)) /\ page'.sending /\ page'.limited = page.limited
        /\ run'.turn = NextTurn /\ run'.after = NextTurn
        /\ UNCHANGED <<thread, ever, running, conv, reads>> /\ turns'.others = turns.others
        /\ turns'.late = turns.late /\ (turns.blind => turns'.blind)
    BY <1>1, <1>3, RequestShape, StartsShape DEF Typed
  <1>5. \A m \in ever : m.of # NextTurn
    BY Before
  <1>6. Target' = thread
    <2>1. Stripped(thread, NextTurn) = thread
      BY <1>5, StrippedOther
    <2> QED
      BY <1>4, <2>1 DEF Target
  <1>7. ~Held(Own(n), thread)
    BY <1>2, <1>5, ThreadFacts DEF Held, Typed
  <1>8. Lone /\ reads["load"].at = "off" /\ (page.known => Alone)
    BY <1>1, <1>4 DEF Alone, Lone, Blind
  <1>9. Asking(page.shown)'
    <2>1. \A i \in DOMAIN s : s[i].of # NextTurn
      <3>1. \A i \in DOMAIN s : s[i] \in ToSet(s) /\ s[i] \in Message
        BY ShownFacts DEF Typed
      <3>2. \A t \in Turn : t <= turns.last => t # NextTurn
        BY DEF NextTurn, Typed, NetTyped, Turn
      <3> QED
        BY <3>1, <3>2, MessageFacts DEF Seen
    <2>2. Len(Append(s, Own(n))) = Len(s) + 1
      BY <1>2, AppendProperties
    <2>3. \A i \in DOMAIN Append(s, Own(n)) :
            Append(s, Own(n))[i].of = NextTurn => i = Len(Append(s, Own(n)))
      BY <1>2, <2>1, <2>2, AppendedThread
    <2> QED
      BY <1>2, <1>3, <1>4, <2>3 DEF Asking, n
  <1>10. CASE page.known
    <2>1. Follows(s) /\ ShowsEnd(s, thread) /\ (running.turn = 1 => Foreign(s, thread))
      BY <1>1, <1>8, <1>10 DEF Showing, Target, Typed, Owned
    <2>2. /\ Follows(Append(s, Own(n))) /\ ShowsEnd(Append(s, Own(n)), thread)
          /\ running.turn = 1 => Foreign(Append(s, Own(n)), thread)
      BY <1>2, <1>7, <2>1, FollowsNext, ShowsMore, ForeignNext
    <2> QED
      BY <1>4, <1>6, <1>9, <2>2 DEF Showing
  <1>11. CASE ~page.known
    <2>1. thread = <<>> /\ ever = {}
      BY <1>1, <1>11 DEF Early, Served, Open
    <2>2. \A i \in DOMAIN s : s[i].role = "user"
      <3>1. \A i \in DOMAIN s : s[i] \in ToSet(s) /\ s[i].role \in {"user", "assistant"}
        BY ShownFacts DEF Typed
      <3> QED
        BY <2>1, <3>1 DEF Replies, Stored
    <2>3. Foreign(s, thread) /\ Follows(s)
      BY <2>1, <2>2 DEF Foreign, Held, Follows
    <2>4. Foreign(Append(s, Own(n)), thread) /\ Follows(Append(s, Own(n)))
      BY <1>2, <1>7, <2>3, FollowsNext, ForeignNext
    <2> QED
      BY <1>4, <1>6, <1>9, <2>4, ShowsForeign DEF Showing
  <1> QED
    BY <1>10, <1>11

LEMMA LastUserIs ==
  ASSUME PageTyped, CanRetry
  PROVE  /\ LastUserAt \in DOMAIN page.shown /\ page.shown[LastUserAt].role = "user"
         /\ \A j \in DOMAIN page.shown : page.shown[j].role = "user" => j <= LastUserAt
  <1> DEFINE users == {i \in DOMAIN page.shown : page.shown[i].role = "user"}
  <1>1. page.shown \in Seq(Message) /\ Len(page.shown) \in Nat /\ DOMAIN page.shown = 1 .. Len(page.shown)
    BY LenProperties DEF PageTyped, Page
  <1>2. users # {} /\ users \subseteq 1 .. Len(page.shown)
    BY <1>1 DEF CanRetry
  <1>3. \E i \in users : \A j \in users : j <= i
    BY <1>1, <1>2, GreatestPlace
  <1> QED
    BY <1>3 DEF LastUserAt

\* What a retry finds at the end of the page: the last question, or the reply to it.
LEMMA LastShown ==
  ASSUME PageTyped, CanRetry, Follows(page.shown)
  PROVE  /\ page.shown # <<>>
         /\ \/ LastUserAt = Len(page.shown)
            \/ /\ LastUserAt = Len(page.shown) - 1
               /\ Last(page.shown).role = "assistant"
               /\ Last(page.shown).of = page.shown[LastUserAt].of
  <1> DEFINE s == page.shown
             i == LastUserAt
             e == Len(s)
  <1>1. /\ s \in Seq(Message) /\ e \in Nat /\ DOMAIN s = 1 .. e
        /\ \A j \in DOMAIN s : s[j].role \in {"user", "assistant"}
    BY ShownFacts
  <1>2. i \in DOMAIN s /\ s[i].role = "user" /\ \A j \in DOMAIN s : s[j].role = "user" => j <= i
    BY LastUserIs
  <1>3. s # <<>> /\ Last(s) = s[e] /\ e \in DOMAIN s /\ i <= e
    BY <1>1, <1>2, EmptySeq DEF Last
  <1> HIDE DEF s, i
  <1>4. CASE i # e
    <2>1. s[e].role = "assistant"
      BY <1>1, <1>2, <1>3, <1>4
    <2>2. e - 1 \in DOMAIN s /\ s[e - 1].role = "user" /\ s[e - 1].of = s[e].of
      BY <1>3, <2>1 DEF Follows, s
    <2>3. i = e - 1
      BY <1>1, <1>2, <1>3, <1>4, <2>2
    <2> QED
      BY <1>3, <2>1, <2>2, <2>3 DEF s, i
  <1> QED
    BY <1>3, <1>4 DEF s, i

\* What is held at the end of the one is the end of the other, and is there once.
LEMMA EndShown ==
  ASSUME NEW s \in Seq(Message), NEW t \in Seq(Message), s # <<>>, Apart(t), ShowsEnd(s, t),
         Held(Last(s), t)
  PROVE  /\ t # <<>> /\ Plain(Last(s)) = Plain(Last(t))
         /\ \A i \in DOMAIN s : s[i] = Last(s) => i = Len(s)
  <1> DEFINE e == Len(s)
  <1>1. e \in DOMAIN s /\ Last(s) = s[e] /\ \A i \in DOMAIN s : i = e \/ i < e
    BY LenProperties, EmptySeq DEF Last
  <1>2. /\ \A p \in DOMAIN t : p = Len(t) \/ (p < Len(t) /\ p + 1 \in DOMAIN t)
        /\ \A p \in DOMAIN t : p + 1 # p /\ ~(p + 1 < p) /\ ~(p < p)
        /\ t # <<>> => Last(t) = t[Len(t)]
        /\ t = <<>> => DOMAIN t = {}
    BY LenProperties, EmptySeq DEF Last
  <1> HIDE DEF e
  <1>3. PICK p \in DOMAIN t : Plain(s[e]) = Plain(t[p])
    BY <1>1 DEF ShowsEnd
  <1>4. p = Len(t)
    <2> SUFFICES ASSUME p < Len(t), p + 1 \in DOMAIN t PROVE FALSE
      BY <1>2
    <2>1. PICK j \in DOMAIN s : Held(s[j], t) /\ Plain(s[j]) = Plain(t[p + 1])
      BY <1>1, <1>3 DEF ShowsEnd
    <2>2. j # e
      BY <1>2, <1>3, <2>1 DEF Apart
    <2>3. j < e
      BY <1>1, <2>2
    <2>4. p + 1 < p
      BY <1>1, <1>3, <2>1, <2>3 DEF ShowsEnd
    <2> QED
      BY <1>2, <2>4
  <1>5. \A i \in DOMAIN s : s[i] = Last(s) => i = e
    <2> SUFFICES ASSUME NEW i \in DOMAIN s, s[i] = s[e], i < e PROVE FALSE
      BY <1>1
    <2>1. p < p
      BY <1>1, <1>3 DEF ShowsEnd
    <2> QED
      BY <1>2, <2>1
  <1> QED
    BY <1>1, <1>2, <1>3, <1>4, <1>5 DEF e

\* A retry leaves its question at the end, and hides the reply to it.
LEMMA ShowingRetry ==
  ASSUME Typed, Served, Seen, Showing, Alone', Retry
  PROVE  Showing'
  <1> DEFINE s == page.shown
             q == s[LastUserAt].of
             hidden == ShownAfter(LastUserAt)
  <1>1. CanRetry /\ Request("retry", q, hidden) /\ Starts(Hides(hidden))
    BY DEF Retry
  <1>2. /\ s \in Seq(Message) /\ thread \in Seq(Message) /\ q \in Turn /\ q # NextTurn
        /\ LastUserAt \in DOMAIN s /\ s[LastUserAt].role = "user" /\ s[LastUserAt] \in Message
    <2>1. /\ LastUserAt \in DOMAIN s /\ s[LastUserAt].role = "user" /\ s[LastUserAt] \in Message
          /\ s[LastUserAt] \in ToSet(s)
      BY <1>1, LastUserIs, ShownFacts DEF Typed
    <2>2. q \in Turn /\ q <= turns.last /\ turns.last \in Turn
      BY <2>1, MessageFacts DEF Seen, Typed, NetTyped
    <2>3. q # NextTurn
      BY <2>2, NextTurnFacts DEF NextTurn
    <2> QED
      BY <2>1, <2>2, <2>3, ShownFacts DEF Typed, ServerTyped
  <1>3. /\ run'.turn = NextTurn /\ run'.after = q
        /\ UNCHANGED <<thread, running, conv, reads>> /\ turns'.others = turns.others
        /\ turns'.late = turns.late /\ (turns.blind => turns'.blind)
    BY <1>1, RequestShape DEF Typed
  <1>4. page'.sending /\ page'.limited = page.limited /\ page'.shown = Hides(hidden)
    BY <1>1 DEF Starts, Typed, PageTyped, Page
  <1>5. Alone /\ ~page.sending
    BY <1>1, <1>3, <1>4 DEF Alone, Lone, Blind, CanRetry, Busy, Typed, Owned
  <1>6. /\ Follows(s) /\ ShowsEnd(s, thread) /\ (running.turn = 1 => Foreign(s, thread))
        /\ Apart(thread)
    BY <1>5, ThreadApart DEF Showing, Target
  <1>7. /\ s # <<>>
        /\ \/ LastUserAt = Len(s)
           \/ LastUserAt = Len(s) - 1 /\ Last(s).role = "assistant" /\ Last(s).of = q
    BY <1>1, <1>6, LastShown DEF Typed
  <1>8. Len(s) \in Nat \ {0} /\ DOMAIN s = 1 .. Len(s) /\ Last(s) = s[Len(s)]
    BY <1>2, <1>7, LenProperties, EmptySeq DEF Last
  <1> HIDE DEF s, q, hidden
  <1>9. ASSUME page'.shown # <<>>, Last(page'.shown) = s[LastUserAt], Follows(page'.shown),
               ShowsEnd(page'.shown, Stripped(thread, q)),
               running.turn = 1 => Foreign(page'.shown, thread)
        PROVE  Showing'
    <2>1. Target' = Stripped(thread, q)
      BY <1>3, <1>4 DEF Target
    <2>2. Asking(page.shown)'
      BY <1>2, <1>3, <1>9 DEF Asking, q
    <2> QED
      BY <1>3, <1>9, <2>1, <2>2 DEF Showing
  <1>10. CASE LastUserAt = Len(s)
    <2>1. hidden = <<>>
      BY <1>8, <1>10 DEF hidden, ShownAfter, s
    <2>2. page'.shown = s
      BY <1>4, <2>1 DEF Hides, s
    <2>3. Last(s) = s[LastUserAt]
      BY <1>8, <1>10
    <2>4. Stripped(thread, q) = thread
      <3> SUFFICES ASSUME thread # <<>>, Last(thread).role = "assistant", Last(thread).of = q
                   PROVE  FALSE
        BY DEF Stripped
      <3>1. Held(Last(s), thread)
        BY <2>3, LastPlace DEF Held, Typed, q
      <3>2. Plain(Last(s)) = Plain(Last(thread))
        BY <1>2, <1>6, <1>7, <3>1, EndShown
      <3> QED
        BY <1>2, <2>3, <3>2, PlainSame
    <2> QED
      BY <1>6, <1>7, <1>9, <2>2, <2>3, <2>4
  <1>11. CASE LastUserAt = Len(s) - 1 /\ Last(s).role = "assistant" /\ Last(s).of = q
    <2>1. hidden = <<Last(s)>>
      BY <1>8, <1>11 DEF hidden, ShownAfter, s
    <2>2. /\ thread # <<>> /\ Plain(Last(s)) = Plain(Last(thread))
          /\ \A i \in DOMAIN s : s[i] = Last(s) => i = Len(s)
      <3>1. Held(Last(s), thread)
        BY <1>11 DEF Held
      <3> QED
        BY <1>2, <1>6, <1>7, <3>1, EndShown
    <2>3. page'.shown = Front(s)
      <3>1. hidden # <<>> /\ hidden[1] = Last(s)
        BY <2>1
      <3> QED
        BY <1>2, <1>4, <1>7, <2>2, <3>1, WithoutLast DEF Hides, s
    <2>4. Last(thread).role = "assistant" /\ Last(thread).of = q
      BY <1>11, <2>2, PlainSame
    <2>5. Stripped(thread, q) = Front(thread)
      BY <2>2, <2>4 DEF Stripped
    <2>6. \E p \in DOMAIN Front(thread) : thread[p].of = Last(thread).of
      <3>1. /\ Len(thread) - 1 \in DOMAIN thread /\ thread[Len(thread) - 1] = Question(q)
            /\ Len(thread) - 1 # Len(thread)
        <4>1. /\ Len(thread) \in DOMAIN thread /\ Len(thread) \in Nat
              /\ thread[Len(thread)].role = "assistant" /\ thread[Len(thread)].of = q
          BY <2>2, <2>4, LastPlace DEF Typed
        <4>2. Len(thread) - 1 \in DOMAIN thread /\ thread[Len(thread) - 1] = Question(q)
          BY <4>1 DEF Served, Chained
        <4> QED
          BY <4>1, <4>2
      <3>2. Len(thread) - 1 \in DOMAIN Front(thread)
        BY <1>2, <2>2, <3>1, CutThread
      <3> QED
        BY <2>4, <3>1, <3>2 DEF Question
    <2>7. ShowsEnd(Front(s), Front(thread))
      BY <1>2, <1>6, <1>7, <2>2, <2>4, <2>6, ShowsBefore
    <2>8. Front(s) # <<>> /\ Last(Front(s)) = s[LastUserAt]
      <3>1. /\ Front(s) \in Seq(Message) /\ Len(Front(s)) = Len(s) - 1
            /\ \A i \in DOMAIN Front(s) : Front(s)[i] = s[i]
        BY <1>2, <1>7, CutThread
      <3>2. LastUserAt \in DOMAIN Front(s) /\ DOMAIN Front(s) = 1 .. Len(Front(s))
        BY <1>2, <1>8, <1>11, <3>1, LenProperties
      <3>3. Front(s) # <<>>
        BY <3>2, EmptySeq
      <3> QED
        BY <1>11, <3>1, <3>2, <3>3 DEF Last
    <2>9. Follows(Front(s)) /\ (running.turn = 1 => Foreign(Front(s), thread))
      BY <1>2, <1>6, <1>7, FollowsLess, ForeignLess
    <2> QED
      BY <1>9, <2>3, <2>5, <2>7, <2>8, <2>9
  <1> QED
    BY <1>7, <1>10, <1>11

\* What a page shows after a step of its run.
ShowsOn == page'.shown = page.shown /\ page'.sending = page.sending /\ page'.limited = page.limited
EndShows ==
    \/ (answer = "done" \/ run.at = "rereading") /\ page'.shown = Append(page.shown, Own(OwnReply))
    \/ /\ run.at = "rereading" /\ reads["run"].at = "ready"
       /\ page'.shown = reads["run"].thread
    \/ answer = "failed" /\ page'.shown = page.shown
    \/ /\ answer = "busy" /\ run.kind = "send" /\ run.at # "idle"
       /\ page'.shown = Without(page.shown, Own(Question(run.turn)))
    \/ answer = "error" /\ run.kind = "send" /\ run.at # "idle" /\ page'.shown = page.shown
    \/ /\ run.at = "refetching" /\ reads["run"].at = "ready" /\ ~reads["run"].replying
       /\ page'.shown = reads["run"].thread
RunShows ==
    \/ ShowsOn
    \/ page'.limited \/ answer = "gone" \/ (~page'.known /\ ~page'.sending)
    \/ ~page'.sending /\ page'.limited = page.limited /\ EndShows

LEMMA RunsShow ==
  ASSUME Typed, RunSteps
  PROVE  RunShows
  <1>0. /\ page \in Page /\ run \in Run /\ reads["run"].thread \in Seq(Message)
        /\ run.at # "idle" => page.sending /\ run.turn # None
        /\ run.at = "waiting" => run.hadId = page.known
    BY DEF Typed, PageTyped, Owned, Read
  <1>1. CASE Prelude \/ RetryDone \/ Refetch
    <2>1. ShowsOn
      BY <1>0, <1>1 DEF Prelude, RetryDone, Refetch, ShowsOn, Page
    <2> QED
      BY <2>1 DEF RunShows
  <1>2. ASSUME NEW kind, HandsOver(kind) PROVE RunShows
    <2>1. ShowsOn
      BY <1>2, HandsOverShape DEF ShowsOn, Typed
    <2> QED
      BY <2>1 DEF RunShows
  <1>3. ASSUME NEW p \in Page, Ends(p)
        PROVE  page'.shown = p.shown /\ page'.limited = p.limited /\ page'.known = p.known
               /\ ~page'.sending
    BY <1>3, EndsShape
  <1>4. NotedStop(page) \in Page /\ NotedStop(page).limited = page.limited
        /\ NotedStop(page).shown = page.shown
    BY <1>0 DEF NotedStop, Page
  <1>5. ASSUME Ends(Committed(NotedStop(page))), run.turn # None,
               answer = "done" \/ run.at = "rereading"
        PROVE  RunShows
    <2> DEFINE n == NotedStop(page)
    <2>1. Committed(n) \in Page
      BY <1>4, <1>5, CommittedShape DEF Typed
    <2>2. Committed(n) = [n EXCEPT !.shown = Append(n.shown, Own(OwnReply))]
      BY DEF Committed, OwnReply
    <2>3. n \in Page /\ n.limited = page.limited /\ n.shown = page.shown
      BY <1>4
    <2> HIDE DEF n
    <2>4. Committed(n).shown = Append(page.shown, Own(OwnReply)) /\ Committed(n).limited = page.limited
      BY <2>2, <2>3 DEF Page
    <2>5. page'.shown = Append(page.shown, Own(OwnReply)) /\ page'.limited = page.limited
          /\ ~page'.sending
      BY <1>3, <1>5, <2>1, <2>4 DEF n
    <2> QED
      BY <1>5, <2>5 DEF RunShows, EndShows
  <1>6. CASE SendDone
    BY <1>0, <1>5, <1>6 DEF SendDone
  <1>7. CASE Reread
    <2> DEFINE p == [NotedStop(page) EXCEPT !.shown = reads["run"].thread]
    <2>1. /\ run.at = "rereading"
          /\ (reads["run"].at = "ready" /\ Ends(p)) \/ Ends(Committed(NotedStop(page)))
      BY <1>7 DEF Reread
    <2>2. p \in Page /\ p.limited = page.limited /\ p.shown = reads["run"].thread
      BY <1>0, <1>4 DEF Page
    <2> HIDE DEF p
    <2>3. CASE reads["run"].at = "ready" /\ Ends(p)
      <3>1. page'.shown = reads["run"].thread /\ page'.limited = page.limited /\ ~page'.sending
        BY <1>3, <2>2, <2>3
      <3> QED
        BY <2>1, <2>3, <3>1 DEF RunShows, EndShows
    <2> QED
      BY <1>0, <1>5, <2>1, <2>3
  <1>8. CASE ReplyFailed
    <2>1. Cut(page) \in Page /\ Cut(page).shown = page.shown /\ Cut(page).limited = page.limited
      <3>1. Cut(page).limited = page.limited
        BY <1>0 DEF Cut, Page
      <3> QED
        BY <1>0, <3>1, CutShape
    <2>2. answer = "failed" /\ Ends(Cut(page))
      BY <1>8 DEF ReplyFailed
    <2>3. page'.shown = page.shown /\ page'.limited = page.limited /\ ~page'.sending
      BY <1>3, <2>1, <2>2
    <2> QED
      BY <2>2, <2>3 DEF RunShows, EndShows
  <1>9. ASSUME NEW e \in {"interrupted", "refused"}, Ends([page EXCEPT !.error = e])
        PROVE  page'.shown = page.shown /\ page'.limited = page.limited /\ page'.known = page.known
               /\ ~page'.sending
    <2> DEFINE p == [page EXCEPT !.error = e]
    <2>1. p \in Page /\ p.known = page.known /\ p.shown = page.shown /\ p.limited = page.limited
      BY <1>0 DEF Page
    <2> QED
      BY <1>3, <1>9, <2>1
  <1>10. CASE ConnectionLost \/ NetworkFails
    <2>1. \/ \E kind \in {"outcome", "settle", "confirm"} : HandsOver(kind)
          \/ /\ run.at = "waiting" /\ ~run.hadId
             /\ \E e \in {"interrupted", "refused"} : Ends([page EXCEPT !.error = e])
      BY <1>10 DEF ConnectionLost, NetworkFails, HandsOver
    <2>2. CASE \E kind \in {"outcome", "settle", "confirm"} : HandsOver(kind)
      BY <1>2, <2>2
    <2>3. CASE /\ run.at = "waiting" /\ ~run.hadId
               /\ \E e \in {"interrupted", "refused"} : Ends([page EXCEPT !.error = e])
      <3>1. ~page'.known /\ ~page'.sending
        BY <1>0, <1>9, <2>3
      <3> QED
        BY <3>1 DEF RunShows
    <2> QED
      BY <2>1, <2>2, <2>3
  <1>11. Dropped(page) \in Page /\ Dropped(page).limited = page.limited
         /\ Dropped(page).shown = Without(page.shown, Own(Question(run.turn)))
    <2>1. PICK t \in Seq(Message) : Dropped(page) = [page EXCEPT !.shown = t]
      BY <1>0, DroppedShape
    <2>2. Dropped(page) = [page EXCEPT !.shown = Without(page.shown, Own(Question(run.turn)))]
      BY DEF Dropped
    <2>3. Dropped(page).shown = Without(page.shown, Own(Question(run.turn)))
      BY <1>0, <2>2 DEF Page
    <2> QED
      BY <1>0, <2>1, <2>3 DEF Page
  <1>12. CASE Limited
    <2> DEFINE r == RestoreHidden(Dropped(page))
               p == [r EXCEPT !.limited = TRUE]
    <2>1. Ends(p)
      BY <1>12 DEF Limited
    <2>2. r \in Page
      <3>1. PICK t \in Seq(Message) : r = [Dropped(page) EXCEPT !.shown = t]
        BY <1>0, <1>11, RestoredShape
      <3> QED
        BY <1>11, <3>1 DEF Page
    <2> HIDE DEF r
    <2>3. p \in Page /\ p.limited
      BY <2>2 DEF Page
    <2>4. page'.limited
      BY <1>3, <2>1, <2>3
    <2> QED
      BY <2>4 DEF RunShows
  <1>13. CASE SendRefused
    <2>1. /\ run.kind = "send" /\ run.at = "waiting"
          /\ \/ answer = "busy" /\ Ends([Dropped(page) EXCEPT !.error = "refused"])
             \/ answer = "gone"
             \/ answer = "error" /\ Ends([page EXCEPT !.error = "refused"])
      BY <1>13 DEF SendRefused, RefusedWith
    <2>2. CASE answer = "busy" /\ Ends([Dropped(page) EXCEPT !.error = "refused"])
      <3> DEFINE d == Dropped(page)
                 p == [d EXCEPT !.error = "refused"]
      <3>1. d \in Page /\ d.limited = page.limited
            /\ d.shown = Without(page.shown, Own(Question(run.turn)))
        BY <1>11
      <3> HIDE DEF d
      <3>2. p \in Page /\ p.limited = page.limited
            /\ p.shown = Without(page.shown, Own(Question(run.turn)))
        BY <3>1 DEF Page
      <3>3. Ends(p)
        BY <2>2 DEF d
      <3> HIDE DEF p
      <3>4. /\ page'.limited = page.limited /\ ~page'.sending
            /\ page'.shown = Without(page.shown, Own(Question(run.turn)))
        BY <1>3, <3>2, <3>3
      <3> QED
        BY <2>1, <2>2, <3>4 DEF RunShows, EndShows
    <2>3. CASE answer = "error" /\ Ends([page EXCEPT !.error = "refused"])
      BY <1>9, <2>1, <2>3 DEF RunShows, EndShows
    <2> QED
      BY <2>1, <2>2, <2>3 DEF RunShows
  <1>14. CASE RetryRefused
    <2>1. answer = "gone" \/ \E kind \in {"settle", "confirm"} : HandsOver(kind)
      BY <1>14 DEF RetryRefused, RefusedWith
    <2> QED
      BY <1>2, <2>1 DEF RunShows
  <1>15. CASE Refetched
    <2> DEFINE p == SettleFree(page, reads["run"].thread)
    <2>1. /\ run.at = "refetching"
          /\ \/ HandsOver("settle")
             \/ reads["run"].at = "ready" /\ ~reads["run"].replying /\ Ends(p)
      BY <1>15 DEF Refetched
    <2>2. p \in Page /\ p.shown = reads["run"].thread /\ p.limited = page.limited
      <3>1. p.limited = page.limited
        BY <1>0 DEF SettleFree, Settled, Cut, Page
      <3> QED
        BY <1>0, <3>1, SettleFreeShape
    <2> HIDE DEF p
    <2>3. CASE reads["run"].at = "ready" /\ ~reads["run"].replying /\ Ends(p)
      <3>1. page'.shown = reads["run"].thread /\ page'.limited = page.limited /\ ~page'.sending
        BY <1>3, <2>2, <2>3
      <3> QED
        BY <2>1, <2>3, <3>1 DEF RunShows, EndShows
    <2> QED
      BY <1>2, <2>1, <2>3
  <1> QED
    BY <1>1, <1>6, <1>7, <1>8, <1>10, <1>12, <1>13, <1>14, <1>15 DEF RunSteps

\* The reply that streamed is the one the server holds.
LEMMA ShowingCommit ==
  ASSUME Typed, Served, Showing, Alone, page.sending, run.turn # None,
         page'.shown = Append(page.shown, Own(OwnReply)), ~page'.sending,
         thread' = thread, running' = Nobody, thread # <<>>, Last(thread) = OwnReply
  PROVE  Showing'
  <1> DEFINE s == page.shown
             f == Front(thread)
  <1>1. /\ s \in Seq(Message) /\ thread \in Seq(Message) /\ OwnReply \in Message
        /\ Own(OwnReply) \in Message /\ Plain(Own(OwnReply)) = Plain(OwnReply)
        /\ OwnReply.role = "assistant" /\ OwnReply.of = run.after
        /\ Own(OwnReply).role = "assistant" /\ Own(OwnReply).of = run.after
    <2>1. run.turn \in Turn /\ run.after \in Turn
      BY DEF Typed, PageTyped, Run
    <2>2. OwnReply \in Message /\ OwnReply.role = "assistant" /\ OwnReply.of = run.after
      BY <2>1, MessageFacts DEF OwnReply, Answer
    <2> QED
      BY <2>2, MessageFacts, OwnPlain, ShownFacts DEF Typed, ServerTyped
  <1>2. /\ Follows(s) /\ s # <<>> /\ Last(s).role = "user" /\ Last(s).of = run.after
        /\ ShowsEnd(s, Stripped(thread, run.after))
    BY DEF Showing, Asking, Target
  <1>3. Stripped(thread, run.after) = f
    BY <1>1 DEF Stripped
  <1>4. /\ f \in Seq(Message) /\ Append(f, OwnReply) = thread
        /\ \A p \in DOMAIN f : p \in DOMAIN thread /\ f[p] = thread[p] /\ p # Len(thread)
    BY <1>1, CutThread, AppendedCut
  <1>5. /\ Len(thread) \in DOMAIN thread /\ Len(thread) \in Nat /\ thread[Len(thread)] = OwnReply
        /\ \A p \in DOMAIN thread : p = Len(thread) \/ p \in DOMAIN f
    BY <1>1, LastPlace, CutThread DEF Typed
  <1> HIDE DEF s, f
  <1>6. \A p \in DOMAIN f : Plain(f[p]) # Plain(OwnReply)
    BY <1>4, <1>5, ThreadApart DEF Apart
  <1>7. \E p \in DOMAIN f : f[p].of = OwnReply.of
    <2>1. Len(thread) - 1 \in DOMAIN thread /\ thread[Len(thread) - 1] = Question(run.after)
      BY <1>1, <1>5 DEF Served, Chained
    <2>2. Len(thread) - 1 # Len(thread)
      BY <1>5
    <2> QED
      BY <1>1, <1>4, <1>5, <2>1, <2>2 DEF Question
  <1>8. ShowsEnd(Append(s, Own(OwnReply)), Append(f, OwnReply))
    BY <1>1, <1>2, <1>3, <1>4, <1>6, <1>7, ShowsNext
  <1>9. Follows(Append(s, Own(OwnReply)))
    BY <1>1, <1>2, FollowsNext
  <1>10. running'.turn # 1
    BY DEF Nobody, None
  <1> QED
    BY <1>4, <1>8, <1>9, <1>10 DEF Showing, Target, s

\* A question that the server does not hold is taken back.
LEMMA ShowingDropped ==
  ASSUME Typed, Served, Showing, Alone, page.sending, run.after = run.turn,
         \A p \in DOMAIN thread : thread[p].of # run.turn,
         page'.shown = Without(page.shown, Own(Question(run.turn))), ~page'.sending,
         thread' = thread, running' = running
  PROVE  Showing'
  <1> DEFINE s == page.shown
  <1>1. /\ s \in Seq(Message) /\ s # <<>> /\ Last(s).role = "user" /\ Last(s).of = run.turn
        /\ Last(s) = Own(Question(run.turn))
        /\ \A i \in DOMAIN s : s[i].of = run.turn => i = Len(s)
    BY ShownFacts DEF Typed, Showing, Asking
  <1>2. Follows(s) /\ ShowsEnd(s, thread) /\ (running.turn = 1 => Foreign(s, thread))
    <2>1. Stripped(thread, run.after) = thread
      BY LastPlace DEF Stripped, Typed
    <2> QED
      BY <2>1 DEF Showing, Target
  <1> HIDE DEF s
  <1>3. page'.shown = Front(s)
    BY <1>1, WithoutLast DEF s
  <1>4. ~Held(Last(s), thread)
    BY <1>1 DEF Held
  <1>5. /\ Follows(Front(s)) /\ ShowsEnd(Front(s), thread)
        /\ running.turn = 1 => Foreign(Front(s), thread)
    BY <1>1, <1>2, <1>4, FollowsLess, ForeignLess, ShowsLess
  <1> QED
    BY <1>3, <1>5 DEF Showing, Target

LEMMA ShowingRun ==
  ASSUME Typed, Served, Same, Settling, Interruptions, Early, Lone, Answers, Reads, Showing,
         Alone', RunSteps
  PROVE  Showing'
  <1>0. /\ run.at # "idle" /\ page.sending /\ run.turn # None
        /\ reads["load"].at = "off"
        /\ UNCHANGED <<thread, running>>
        /\ run'.turn = run.turn /\ run'.after = run.after
    <2>1. run.at # "idle"
      BY DEF RunSteps, Prelude, SendDone, RetryDone, Reread, ReplyFailed, ConnectionLost,
         NetworkFails, Limited, SendRefused, RetryRefused, Refetch, Refetched, RefusedWith
    <2>2. page.sending /\ run.turn # None
      BY <2>1 DEF Typed, Owned, PageTyped
    <2> QED
      BY <2>1, <2>2, PageAlone, RunGoesOn DEF Typed, serverVars, Interruptions, Sighted, Lone
  <1>1. ~page.limited /\ (ShowsOn \/ (~page'.sending /\ EndShows))
    BY RunsShow DEF RunShows, ShowsOn, Answers, Alone
  <1>2. Alone
    BY <1>0, <1>1 DEF Alone
  <1>3. CASE ShowsOn
    BY <1>0, <1>2, <1>3, ShowingKept DEF ShowsOn
  <1>4. CASE ~page'.sending /\ (answer = "done" \/ run.at = "rereading")
               /\ page'.shown = Append(page.shown, Own(OwnReply))
    <2>1. running = Nobody /\ thread # <<>> /\ Last(thread) = OwnReply
      BY <1>4, Quiet DEF Answers
    <2> QED
      BY <1>0, <1>2, <1>4, <2>1, ShowingCommit
  <1>5. CASE /\ ~page'.sending /\ reads["run"].at = "ready"
             /\ run.at = "rereading" \/ (run.at = "refetching" /\ ~reads["run"].replying)
             /\ page'.shown = reads["run"].thread
    <2>1. running = Nobody /\ reads["run"].thread = thread
      BY <1>5 DEF Reads, Conclusive
    <2> QED
      BY <1>0, <1>5, <2>1, ShowingThread
  <1>6. ASSUME ~page'.sending, page'.shown = page.shown, Stripped(thread, run.after) = thread
        PROVE  Showing'
    BY <1>0, <1>2, <1>6 DEF Showing, Target
  <1>7. CASE ~page'.sending /\ answer = "failed" /\ page'.shown = page.shown
    BY <1>6, <1>7, StrippedAsked DEF Answers
  <1>8. CASE /\ ~page'.sending /\ answer = "busy" /\ run.kind = "send"
             /\ page'.shown = Without(page.shown, Own(Question(run.turn)))
    <2>1. run.after = run.turn
      BY <1>0, <1>8 DEF Same
    <2>2. \A m \in ever : m.of # run.turn
      BY <1>8, <2>1 DEF Answers, Refusals
    <2>3. \A p \in DOMAIN thread : thread[p].of # run.turn
      BY <2>2, ThreadFacts DEF Typed
    <2> QED
      BY <1>0, <1>2, <1>8, <2>1, <2>3, ShowingDropped
  <1>9. CASE ~page'.sending /\ answer = "error" /\ run.kind = "send" /\ page'.shown = page.shown
    <2>1. run.after = run.turn
      BY <1>0, <1>9 DEF Same
    <2>2. OwnReply \notin ever
      BY <1>9 DEF Interruptions, Unstored, Unsaved, Refusals
    <2>3. Stripped(thread, run.after) = thread
      <3> SUFFICES ASSUME thread # <<>>, Last(thread).role = "assistant", Last(thread).of = run.after
                   PROVE  FALSE
        BY DEF Stripped
      <3>1. /\ Last(thread) \in ever /\ Last(thread) \in Message
            /\ ~Last(thread).local
        BY LastPlace, ThreadFacts DEF Served, Chained, Typed
      <3>2. Last(thread).by = run.turn
        BY <1>0, <2>1, <3>1 DEF Answers
      <3>3. Last(thread) = OwnReply
        BY <3>1, <3>2 DEF Message, OwnReply, Answer
      <3> QED
        BY <2>2, <3>1, <3>3
    <2> QED
      BY <1>6, <1>9, <2>3
  <1> QED
    BY <1>1, <1>3, <1>4, <1>5, <1>7, <1>8, <1>9 DEF EndShows

LEMMA ShowingLoad ==
  ASSUME Typed, Served, Interruptions, Early, Lone, Reads, Blank, Alone', LoadLands \/ LoadFails
  PROVE  Showing'
  <1>1. /\ reads["load"].at # "off" /\ run' = run /\ page'.sending = page.sending
        /\ UNCHANGED <<thread, running>>
    BY LoadOutcomes, PageAlone DEF LoadOutcome, Typed, serverVars
  <1>2. ~page.sending /\ page.shown = <<>>
    BY <1>1 DEF Interruptions, Sighted, Lone, Early, Blank
  <1>3. page \in Page /\ reads["load"].thread \in Seq(Message)
    BY DEF Typed, PageTyped, Read
  <1>4. CASE LoadLands
    <2> DEFINE p == [page EXCEPT !.shown = reads["load"].thread]
    <2>1. p \in Page /\ p.shown = reads["load"].thread
      BY <1>3 DEF Page
    <2>2. /\ reads["load"].at = "ready"
          /\ \/ reads["load"].replying /\ page' = [p EXCEPT !.still = TRUE, !.loading = TRUE]
             \/ ~reads["load"].replying /\ page' \in {p, [p EXCEPT !.error = "interrupted"]}
      BY <1>2, <1>4 DEF LoadLands
    <2> HIDE DEF p
    <2>3. ~reads["load"].replying
      <3> SUFFICES ASSUME page' = [p EXCEPT !.still = TRUE, !.loading = TRUE] PROVE FALSE
        BY <2>2
      <3>1. page'.loading
        BY <2>1 DEF Page
      <3> QED
        BY <1>1, <1>2, <3>1 DEF Alone
    <2>4. page'.shown = reads["load"].thread
      BY <2>1, <2>2, <2>3 DEF Page
    <2>5. running = Nobody /\ reads["load"].thread = thread
      BY <2>2, <2>3 DEF Reads, Conclusive
    <2> QED
      BY <1>1, <1>2, <2>4, <2>5, ShowingThread
  <1>5. CASE LoadFails
    <2>1. page'.shown = <<>>
      BY <1>2, <1>3, <1>5 DEF LoadFails, Page
    <2>2. DOMAIN page'.shown = {}
      BY <2>1, EmptySeq
    <2>3. Follows(page'.shown) /\ \A t : Foreign(page'.shown, t)
      BY <2>2 DEF Follows, Foreign
    <2>4. \A t : ShowsEnd(page'.shown, t)
      BY <2>3, ShowsForeign
    <2> QED
      BY <1>1, <1>2, <2>3, <2>4 DEF Showing
  <1> QED
    BY <1>4, <1>5

LEMMA NotSentShape ==
  ASSUME PageTyped, page' = NotSent(page)
  PROVE  /\ page'.shown = Without(page.shown, Own(Question(run.turn)))
         /\ ~page'.sending /\ page'.limited = page.limited
  <1> DEFINE p == Settled(page)
             w == Without(page.shown, Own(Question(run.turn)))
  <1>1. p \in Page /\ p.shown = page.shown /\ ~p.sending /\ p.limited = page.limited
    BY DEF Settled, Page, PageTyped
  <1> HIDE DEF p
  <1>2. page' = [[p EXCEPT !.shown = w] EXCEPT !.error = "notSent"]
    BY <1>1 DEF NotSent, Dropped, p
  <1> HIDE DEF w
  <1>3. page'.shown = w /\ ~page'.sending /\ page'.limited = page.limited
    BY <1>1, <1>2 DEF Page
  <1> QED
    BY <1>3 DEF w

LEMMA ShowingPoll ==
  ASSUME Typed, Served, Same, Interruptions, Lone, Reads, Showing, Alone', PollSteps
  PROVE  Showing'
  <1>0. /\ run' = run /\ reads'["load"] = reads["load"] /\ UNCHANGED <<thread, running>>
        /\ poll.at # "off"
    BY PollOutcomes, PageAlone DEF PollOutcome, Typed, serverVars
  <1>1. CASE page' = page
    <2>1. Alone
      BY <1>0, <1>1 DEF Alone
    <2> QED
      BY <1>0, <1>1, <2>1, ShowingKept
  <1>2. ~PollCap
    <2>1. PollCap => turns'.blind
      BY DEF PollCap, Typed, NetTyped
    <2> QED
      BY <2>1 DEF Alone, Lone, Blind
  <1>3. CASE PollLands /\ ~Undecided(reads["poll"])
    <2>1. reads["poll"].at = "ready" /\ ~reads["poll"].replying
      BY <1>3 DEF PollLands, Undecided
    <2>2. running = Nobody /\ reads["poll"].thread = thread
      BY <2>1 DEF Reads, Conclusive
    <2>3. CASE poll.kind = "outcome" /\ ~Arrived(reads["poll"])
      <3>1. page' = NotSent(page)
        BY <1>3, <2>3 DEF PollLands
      <3>2. run.turn # None /\ run.after = run.turn
        BY <1>0, <2>3 DEF Same
      <3>3. page.sending /\ reads["load"].at = "off"
        BY <1>0, <3>2 DEF Interruptions, Sighted, Lone, Typed, Owned
      <3>4. /\ page'.shown = Without(page.shown, Own(Question(run.turn)))
            /\ ~page'.sending /\ page'.limited = page.limited
        BY <3>1, NotSentShape DEF Typed
      <3>5. Alone
        BY <3>3, <3>4 DEF Alone
      <3>6. \A p \in DOMAIN thread : thread[p] # Question(run.turn)
        BY <2>2, <2>3 DEF Arrived
      <3>7. \A p \in DOMAIN thread : thread[p].of # run.turn
        <4> SUFFICES ASSUME NEW p \in DOMAIN thread, thread[p].of = run.turn PROVE FALSE
          OBVIOUS
        <4>1. thread[p].role \in {"user", "assistant"}
          BY ThreadFacts DEF Message, Typed
        <4> QED
          BY <3>6, <4>1 DEF Served, Chained
      <3> QED
        BY <1>0, <3>2, <3>3, <3>4, <3>5, <3>7, ShowingDropped
    <2>4. CASE ~(poll.kind = "outcome" /\ ~Arrived(reads["poll"]))
      <3>1. page' = SettleFree(page, reads["poll"].thread)
        BY <1>3, <2>4 DEF PollLands
      <3>2. page'.shown = thread /\ ~page'.sending
        <4>1. page \in Page /\ thread \in Seq(Message)
          BY DEF Typed, PageTyped, ServerTyped
        <4> QED
          BY <2>2, <3>1, <4>1, SettleFreeShape
      <3> QED
        BY <1>0, <2>2, <3>2, ShowingThread
    <2> QED
      BY <2>3, <2>4
  <1> QED
    BY <1>1, <1>2, <1>3 DEF PollSteps, PollTick, PollLands, PollFails

LEMMA ShowingOther ==
  ASSUME Typed, Lone, Showing, Alone',
         \/ Stop \/ StopSteps \/ DropReply
         \/ \E q \in requests : Refuse(q)
         \/ \E k \in DOMAIN reads : GetOwnedDetail(k)
         \/ UNCHANGED <<serverVars, reads, pageVars>>
  PROVE  Showing'
  <1>1. CASE Stop \/ StopSteps
    <2>1. /\ run' = run /\ reads' = reads /\ UNCHANGED <<thread, running>>
          /\ page'.shown = page.shown /\ page'.known = page.known /\ page'.limited = page.limited
          /\ page'.loading = page.loading /\ page'.sending = page.sending
      BY <1>1, StopOutcomes, PageAlone DEF StopOutcome, Typed, serverVars
    <2>2. Alone
      BY <2>1 DEF Alone
    <2> QED
      BY <2>1, <2>2, ShowingKept
  <1>2. ASSUME UNCHANGED <<thread, page, run>>, running' \in {running, Nobody},
               reads'["load"].at = "off" => reads["load"].at = "off"
        PROVE  Showing'
    <2>1. Alone
      BY <1>2 DEF Alone
    <2> QED
      BY <1>2, <2>1, ShowingKept
  <1>3. CASE DropReply
    BY <1>2, <1>3 DEF DropReply, pageVars
  <1>4. CASE UNCHANGED <<serverVars, reads, pageVars>>
    BY <1>2, <1>4 DEF serverVars, pageVars
  <1>5. CASE \E q \in requests : Refuse(q)
    BY <1>4, <1>5 DEF Refuse
  <1>6. ASSUME NEW k \in DOMAIN reads, GetOwnedDetail(k)
        PROVE  Showing'
    <2>1. reads'["load"].at = "off" => reads["load"].at = "off"
      <3>1. DOMAIN reads = {"load", "poll", "run"}
        BY DEF Typed, PageTyped
      <3> QED
        BY <1>6, <3>1, ReadyShowsThread
    <2> QED
      BY <1>2, <1>6, <2>1, ReadyShowsThread DEF serverVars, pageVars
  <1> QED
    BY <1>1, <1>3, <1>4, <1>5, <1>6

LEMMA BlankStep ==
  ASSUME Typed, Served, Seen, Interruptions, Early, Blank, [Next]_vars
  PROVE  Blank'
  <1> SUFFICES ASSUME ~Blind', reads'["load"].at # "off" PROVE page'.shown = <<>>
    BY DEF Blank
  <1>1. ~Blind
    BY SightGrows
  <1>2. ASSUME page'.shown = page.shown, reads["load"].at # "off"
        PROVE  page'.shown = <<>>
    BY <1>1, <1>2 DEF Blank
  <1>3. reads["load"].at # "off" => run.turn = None /\ run.at = "idle" /\ ~page.sending
    BY <1>1 DEF Interruptions, Sighted, Early, Typed, PageTyped
  <1>4. CASE UNCHANGED <<reads, pageVars>>
    BY <1>2, <1>4 DEF pageVars
  <1>5. ASSUME NEW k \in DOMAIN reads, GetOwnedDetail(k)
        PROVE  page'.shown = <<>>
    <2>1. "load" \in DOMAIN reads
      BY DEF Typed, PageTyped
    <2> QED
      BY <1>2, <1>5, <2>1, ReadyShowsThread DEF pageVars
  <1>6. CASE Send \/ Retry
    <2>1. PICK kind, after, hidden : Request(kind, after, hidden)
      BY <1>6, AsksShape
    <2> QED
      BY <2>1, RequestShape DEF Blind, Typed
  <1>7. CASE RunSteps
    <2>1. run.at # "idle" /\ reads'["load"] = reads["load"]
      <3>1. reads'["load"] = reads["load"]
        BY <1>7, RunOutcomes DEF RunOutcome
      <3>2. run.at # "idle"
        BY <1>7 DEF RunSteps, Prelude, SendDone, RetryDone, Reread, ReplyFailed, ConnectionLost,
           NetworkFails, Limited, SendRefused, RetryRefused, Refetch, Refetched, RefusedWith
      <3> QED
        BY <3>1, <3>2
    <2> QED
      BY <1>3, <2>1
  <1>8. CASE LoadLands \/ LoadFails
    BY <1>8, LoadOutcomes DEF LoadOutcome
  <1>9. CASE PollSteps
    <2>1. poll.at # "off" /\ reads'["load"] = reads["load"]
      BY <1>9, PollOutcomes DEF PollOutcome
    <2> QED
      BY <1>3, <2>1 DEF Typed, Owned
  <1>10. CASE Stop \/ StopSteps
    BY <1>2, <1>10, StopOutcomes DEF StopOutcome
  <1> QED
    BY <1>4, <1>5, <1>6, <1>7, <1>8, <1>9, <1>10, PageReads

LEMMA ShowingStep ==
  ASSUME Typed, Served, Seen, Same, Settling, Replies, Interruptions, Early, Blank,
         Lone => Answers, Lone => Reads, Showing, [Next]_vars
  PROVE  Showing'
  <1> SUFFICES ASSUME Alone' PROVE Showing'
    BY DEF Showing
  <1>0. Lone /\ Answers /\ Reads /\ ~OtherSends /\ ~OtherRetries /\ ~Delete
    BY LoneGrows DEF Alone
  <1>1. UNCHANGED <<reads, page>> => Alone
    BY <1>0 DEF Alone
  <1>2. ASSUME NEW q \in requests, Accept(q)
        PROVE  Showing'
    BY <1>1, <1>2, ShowingAccept DEF Accept, pageVars
  <1>3. CASE SaveReply
    BY <1>1, <1>3, ShowingSave DEF SaveReply, pageVars
  <1>4. CASE RunSteps
    BY <1>0, <1>4, ShowingRun
  <1>5. CASE LoadLands \/ LoadFails
    BY <1>0, <1>5, ShowingLoad
  <1>6. CASE PollSteps
    BY <1>0, <1>6, ShowingPoll
  <1> QED
    BY <1>0, <1>2, <1>3, <1>4, <1>5, <1>6, ShowingSend, ShowingRetry, ShowingOther, StepKinds

LEMMA ShowingInit == Init => Showing /\ Blank
  <1> SUFFICES ASSUME Init PROVE Showing /\ Blank
    OBVIOUS
  <1>1. page.shown = <<>> /\ ~page.sending /\ page.known = (conv = "open")
    BY DEF Init
  <1>2. conv = "open" => reads["load"].at # "off"
    BY DEF Init, NoRead
  <1> QED
    BY <1>1, <1>2 DEF Showing, Alone, Blank

\* Alone with its conversation, a page at rest that did not act blindly shows what
\* the server holds, or its end when the history failed to load (send, retry,
\* settleFree, the re-read after a retry).
THEOREM AlonePageShowsServer == Spec => []AloneShowsServer
  <1> DEFINE I == /\ Typed /\ Served /\ Seen /\ Same /\ Replies /\ NotSentKept /\ Settling
                  /\ Interruptions /\ Early /\ (Lone => Answers) /\ (Lone => Reads)
                  /\ Showing /\ Blank
  <1>1. Init => I
    BY TypedInit, ServedInit, SameInit, RepliesInit, NotSentInit, SettlingInit,
       InterruptionsInit, EarlyInit, AnswersInit, ReadsInit, ShowingInit
  <1>2. I /\ [Next]_vars => I'
    <2> SUFFICES ASSUME I, [Next]_vars PROVE I'
      OBVIOUS
    <2>1. (Typed /\ Served /\ Seen /\ Same /\ Replies /\ NotSentKept /\ Settling)'
      BY TypedStep, ServedStep, SameStep, RepliesStep, NotSentStep, SettlingStep
    <2>2. Interruptions' /\ Early' /\ Blank'
      BY InterruptionsStep, EarlyStep, BlankStep
    <2>3. (Lone => Answers)'
      BY AnswersStep
    <2>4. (Lone => Reads)'
      BY ReadsStep DEF Interruptions
    <2>5. Showing'
      BY ShowingStep
    <2> QED
      BY <2>1, <2>2, <2>3, <2>4, <2>5
  <1>3. I => AloneShowsServer
    <2> SUFFICES ASSUME I, AtRest, page.known, conv = "open", turns.others = {1}, ~Blind
                 PROVE  ShowsEnd(page.shown, thread)
      BY DEF AloneShowsServer
    <2>1. ~page.sending
      BY DEF AtRest, Busy, Typed, Owned
    <2>2. Alone
      BY DEF AtRest, Busy, Alone, Lone
    <2> QED
      BY <2>1, <2>2 DEF Showing, Target
  <1> QED
    BY <1>1, <1>2, <1>3, PTL DEF Spec
=============================================================================
