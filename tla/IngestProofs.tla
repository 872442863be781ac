---------------------------- MODULE IngestProofs ----------------------------
(* Theorems about Ingest, for every number of deliveries and retries and   *)
(* every set of faults.                                                    *)
EXTENDS Ingest, TLAPS

THEOREM TypeCorrect == Spec => []TypeOK
  <1> USE RetriesAssumption DEF TypeOK, Running, InFlight
  <1>1. Init => TypeOK
    <2> SUFFICES ASSUME Init PROVE TypeOK
      OBVIOUS
    <2>1. saw \in [Delivery -> SUBSET Delivery] /\ chunks \subseteq Delivery
      BY DEF Init
    <2>2. tries \in [Delivery -> 0..MAX_RETRIES]
      BY DEF Init
    <2>3. QED
      BY <2>1, <2>2 DEF Init
  <1>2. TypeOK /\ [Next]_vars => TypeOK'
    <2> SUFFICES ASSUME TypeOK, [Next]_vars PROVE TypeOK'
      OBVIOUS
    <2> USE DEF rowVars, workVars, Moves
    <2>1. CASE StoreFile \/ CommitUpload \/ RefreshFails \/ MarkUnpublished \/ UploadDies
      BY <2>1 DEF StoreFile, CommitUpload, RefreshFails, MarkUnpublished, UploadDies
    <2>2. CASE Publish
      BY <2>2 DEF Publish, Enqueued
    <2>3. ASSUME NEW d \in Delivery,
                 Deliver(d) \/ ClaimDocument(d) \/ FetchFile(d) \/ DeleteChunks(d)
                   \/ WriteReady(d) \/ GiveUp(d)
          PROVE  TypeOK'
      <3>1. CASE Deliver(d) \/ FetchFile(d) \/ DeleteChunks(d)
        BY <3>1 DEF Deliver, FetchFile, DeleteChunks
      <3>2. CASE ClaimDocument(d)
        BY <3>2 DEF ClaimDocument
      <3>3. CASE WriteReady(d)
        BY <3>3 DEF WriteReady
      <3>4. CASE GiveUp(d)
        BY <3>4 DEF GiveUp
      <3> QED
        BY <2>3, <3>1, <3>2, <3>3, <3>4
    <2>4. ASSUME NEW d \in Delivery, Retries(d)
          PROVE  /\ tries' \in [Delivery -> 0..MAX_RETRIES]
                 /\ at' \in [Delivery -> Running \cup {"none", "queued", "failing", "over"}]
      BY <2>4 DEF Retries, MayRetry
    <2>5. ASSUME NEW d \in Delivery, RetryTransient(d) PROVE TypeOK'
      BY <2>5, <2>4 DEF RetryTransient
    <2>6. ASSUME NEW d \in Delivery, CommitLost(d) PROVE TypeOK'
      <3>1. chunks' \subseteq Delivery /\ saw' \in [Delivery -> SUBSET Delivery]
        BY <2>6 DEF CommitLost
      <3>2. status' \in {"processing", "ready"} /\ UNCHANGED <<upload, object, deletion>>
            /\ overdue' = FALSE
        BY <2>6 DEF CommitLost
      <3>3. Retries(d)
        BY <2>6 DEF CommitLost
      <3>4. QED
        BY <2>4, <3>1, <3>2, <3>3
    <2>7. ASSUME NEW d \in Delivery, RecordFailed(d) \/ ChildDies(d) PROVE TypeOK'
      BY <2>7 DEF RecordFailed, ChildDies
    <2>8. ASSUME NEW d \in Delivery, NEW e \in Delivery, Redeliver(d, e) PROVE TypeOK'
      BY <2>8 DEF Redeliver
    <2>9. CASE DeadlinePasses \/ FailStale \/ DeleteRow \/ DeleteObject
      BY <2>9 DEF DeadlinePasses, FailStale, DeleteRow, DeleteObject
    <2>10. CASE UNCHANGED vars
      BY <2>10 DEF vars
    <2>11. QED
      BY <2>1, <2>2, <2>3, <2>5, <2>6, <2>7, <2>8, <2>9, <2>10 DEF Next
  <1>3. QED
    BY <1>1, <1>2, PTL DEF Spec

-----------------------------------------------------------------------------
(* The life of the row, its bytes and its chunks *)

\* The row commits after its bytes are stored, and loses them only after it is
\* gone.  A row that never was holds no chunks.
RowLife ==
    /\ upload \in {"idle", "stored"} => status = "none"
    /\ upload = "stored" => object
    /\ deletion # "none" => status = "deleted"
    /\ status = "none" => chunks = {}

RowInv == RowLife /\ RowHasBytes /\ OneChunkSet

LEMMA RowStep == RowInv /\ [Next]_vars => RowInv'
  <1> SUFFICES ASSUME RowInv, [Next]_vars PROVE RowInv'
    OBVIOUS
  <1> USE DEF RowInv, RowLife, RowHasBytes, OneChunkSet, Exists, InFlight, rowVars, workVars
  <1>1. CASE StoreFile \/ CommitUpload \/ Publish \/ RefreshFails \/ MarkUnpublished \/ UploadDies
    BY <1>1 DEF StoreFile, CommitUpload, Publish, RefreshFails, MarkUnpublished, UploadDies
  <1>2. ASSUME NEW d \in Delivery,
               Deliver(d) \/ ClaimDocument(d) \/ FetchFile(d) \/ DeleteChunks(d)
                 \/ GiveUp(d) \/ RetryTransient(d) \/ RecordFailed(d) \/ ChildDies(d)
        PROVE  RowInv'
    BY <1>2 DEF Deliver, ClaimDocument, ClaimableRow, FetchFile, DeleteChunks, GiveUp,
                RetryTransient, RecordFailed, FailableRow, ChildDies
  <1>3. ASSUME NEW d \in Delivery, WriteReady(d) \/ CommitLost(d) PROVE RowInv'
    BY <1>3 DEF WriteReady, CommitLost, Readied, ClaimableRow
  <1>4. ASSUME NEW d \in Delivery, NEW e \in Delivery, Redeliver(d, e) PROVE RowInv'
    BY <1>4 DEF Redeliver
  <1>5. CASE DeadlinePasses \/ FailStale \/ DeleteRow \/ DeleteObject
    BY <1>5 DEF DeadlinePasses, FailStale, Stale, DeleteRow, DeleteObject
  <1>6. CASE UNCHANGED vars
    BY <1>6 DEF vars
  <1>7. QED
    BY <1>1, <1>2, <1>3, <1>4, <1>5, <1>6 DEF Next

LEMMA RowAlways == Spec => []RowInv
  <1>1. Init => RowInv
    BY DEF Init, RowInv, RowLife, RowHasBytes, OneChunkSet, Exists, InFlight
  <1>2. QED
    BY <1>1, RowStep, PTL DEF Spec

\* A ready document has one complete chunk set, an unfinished one has none.
THEOREM OneSet == Spec => []OneChunkSet
  BY RowAlways, PTL DEF RowInv

\* A row never exists without its bytes.
THEOREM BytesKept == Spec => []RowHasBytes
  BY RowAlways, PTL DEF RowInv

-----------------------------------------------------------------------------
(* Terminal states *)

LEMMA TerminalStep ==
  ASSUME RowInv, [Next]_vars
  PROVE  /\ status = "failed" => status' \in {"failed", "deleted"}
         /\ status = "ready" /\ status' = "failed" => upload = "refused"
  <1> DEFINE Goal ==
        /\ status = "failed" => status' \in {"failed", "deleted"}
        /\ status = "ready" /\ status' = "failed" => upload = "refused"
  <1> USE DEF Exists, InFlight, rowVars, workVars
  <1>1. CASE StoreFile \/ CommitUpload \/ Publish \/ RefreshFails \/ MarkUnpublished \/ UploadDies
    BY <1>1 DEF StoreFile, CommitUpload, Publish, RefreshFails, MarkUnpublished, UploadDies,
                RowInv, RowLife
  <1>2. ASSUME NEW d \in Delivery,
               Deliver(d) \/ ClaimDocument(d) \/ FetchFile(d) \/ DeleteChunks(d)
                 \/ GiveUp(d) \/ RetryTransient(d) \/ RecordFailed(d) \/ ChildDies(d)
        PROVE  Goal
    BY <1>2 DEF Deliver, ClaimDocument, ClaimableRow, FetchFile, DeleteChunks, GiveUp,
                RetryTransient, RecordFailed, FailableRow, ChildDies
  <1>3. ASSUME NEW d \in Delivery, WriteReady(d) \/ CommitLost(d) PROVE Goal
    BY <1>3 DEF WriteReady, CommitLost, Readied, ClaimableRow
  <1>4. ASSUME NEW d \in Delivery, NEW e \in Delivery, Redeliver(d, e) PROVE Goal
    BY <1>4 DEF Redeliver
  <1>5. CASE DeadlinePasses \/ FailStale \/ DeleteRow \/ DeleteObject
    BY <1>5 DEF DeadlinePasses, FailStale, Stale, DeleteRow, DeleteObject
  <1>6. CASE UNCHANGED vars
    BY <1>6 DEF vars
  <1>7. QED
    BY <1>1, <1>2, <1>3, <1>4, <1>5, <1>6 DEF Next

\* A failed document is never resurrected.
THEOREM FailedStays == Spec => FailedIsFinal
  BY RowAlways, TerminalStep, PTL DEF FailedIsFinal, Spec

\* No attempt fails a finished document.
THEOREM ReadySurvivesWorkers == Spec => WorkerKeepsReady
  BY RowAlways, TerminalStep, PTL DEF WorkerKeepsReady, Spec
=============================================================================
