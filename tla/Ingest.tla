------------------------------- MODULE Ingest -------------------------------
(***************************************************************************)
(* One uploaded document: the upload that stores its bytes, commits its    *)
(* row and publishes its message (routers/documents.py), the attempts that *)
(* read, embed and store it (rag/ingest.py, worker/tasks.py), and the      *)
(* deadline and delete the owner's requests apply.                         *)
(*                                                                         *)
(* A delivery is one message on the ingest queue with the attempt it runs; *)
(* a retry is the same delivery queued again.  The broker may hand a       *)
(* message out twice: a second delivery.                                   *)
(***************************************************************************)
EXTENDS Integers, FiniteSets

CONSTANTS
    Delivery,      \* deliveries of the ingest message
    MAX_RETRIES,   \* retries of one message after a transient failure
    Faults         \* which of "broker", "crash", "db", "storage" may happen

ASSUME RetriesAssumption == MAX_RETRIES \in Nat

VARIABLES
    upload,     \* "idle", "stored", "publishing", "refused", "over"
    status,     \* documents.status; "none" before the row, "deleted" after it
    overdue,    \* updated_at is past the deadline of the row's status
    object,     \* the bytes are in object storage
    chunks,     \* the deliveries whose chunk sets are stored
    at,         \* where each delivery is
    tries,      \* request.retries of each delivery
    saw,        \* chunk sets an attempt's DELETE FROM chunks saw
    deletion    \* "none", "row" (storage.delete still to come), "over"

rowVars == <<status, overdue, chunks>>
workVars == <<at, tries, saw>>
vars == <<upload, rowVars, object, workVars, deletion>>

\* IN_FLIGHT
InFlight == {"pending", "processing"}
Exists == status \notin {"none", "deleted"}
\* An attempt is running ingest_document_async.
Running == {"claiming", "fetching", "embedding", "writing"}

Moves(d, l) == at' = [at EXCEPT ![d] = l]

Init ==
    /\ upload = "idle"
    /\ status = "none"
    /\ overdue = FALSE
    /\ object = FALSE
    /\ chunks = {}
    /\ at = [d \in Delivery |-> "none"]
    /\ tries = [d \in Delivery |-> 0]
    /\ saw = [d \in Delivery |-> {}]
    /\ deletion = "none"

-----------------------------------------------------------------------------
(* upload_document *)

\* The row is flushed for its id and the bytes are put; a put that fails ends
\* the request, and may have stored them.
StoreFile ==
    /\ upload = "idle"
    /\ \/ upload' = "stored" /\ object' = TRUE
       \/ "storage" \in Faults /\ upload' = "over" /\ object' \in BOOLEAN
    /\ UNCHANGED <<rowVars, workVars, deletion>>

\* The row commits as 'pending'; the commit, or only its answer, may be lost.
CommitUpload ==
    /\ upload = "stored"
    /\ \/ upload' = "publishing" /\ status' = "pending"
       \/ "db" \in Faults /\ upload' = "over" /\ status' \in {"none", "pending"}
    /\ UNCHANGED <<overdue, chunks, object, workVars, deletion>>

\* The message reaches the queue as delivery d.
Enqueued(d) == at[d] = "none" /\ Moves(d, "queued")

\* publish: a failed publish may have reached the broker all the same.
Publish ==
    /\ upload = "publishing"
    /\ \/ (\E d \in Delivery : Enqueued(d)) /\ upload' = "over"
       \/ "broker" \in Faults /\ upload' = "refused"
          /\ (UNCHANGED at \/ \E d \in Delivery : Enqueued(d))
    /\ UNCHANGED <<rowVars, object, tries, saw, deletion>>

\* The row went between the commit and session.refresh: nothing is published.
RefreshFails ==
    /\ upload = "publishing" /\ status = "deleted"
    /\ upload' = "over"
    /\ UNCHANGED <<rowVars, object, workVars, deletion>>

\* The publish raised: the row's status is written by primary key, whatever it
\* is by now; a row deleted meanwhile fails the write.
MarkUnpublished ==
    /\ upload = "refused"
    /\ upload' = "over"
    /\ \/ Exists /\ status' = "failed" /\ overdue' = FALSE
       \/ (~Exists \/ "db" \in Faults) /\ UNCHANGED <<status, overdue>>
    /\ UNCHANGED <<chunks, object, workVars, deletion>>

\* The API process dies under the request; an uncommitted row is rolled back.
UploadDies ==
    /\ "crash" \in Faults
    /\ upload \in {"stored", "publishing", "refused"}
    /\ upload' = "over"
    /\ UNCHANGED <<rowVars, object, workVars, deletion>>

-----------------------------------------------------------------------------
(* The worker: ingest_document and ingest_document_async *)

Deliver(d) ==
    /\ at[d] = "queued"
    /\ Moves(d, "claiming")
    /\ UNCHANGED <<upload, rowVars, object, tries, saw, deletion>>

\* 'processing' is claimed over a row in flight only, and restarts the
\* deadline's clock.
ClaimableAny == Exists
ClaimableRow == status \in InFlight

\* A missing row, or one that is not in flight, fails the attempt for good; a
\* 'ready' one is a message whose work is done.
ClaimDocument(d) ==
    /\ at[d] = "claiming"
    /\ \/ /\ ClaimableRow
          /\ status' = "processing" /\ overdue' = FALSE
          /\ Moves(d, "fetching")
       \/ /\ ~ClaimableRow
          /\ Moves(d, IF status = "ready" THEN "over" ELSE "failing")
          /\ UNCHANGED <<status, overdue>>
    /\ UNCHANGED <<upload, chunks, object, tries, saw, deletion>>

\* storage.get: a missing object is permanent.
FetchFile(d) ==
    /\ at[d] = "fetching"
    /\ Moves(d, IF object THEN "embedding" ELSE "failing")
    /\ UNCHANGED <<upload, rowVars, object, tries, saw, deletion>>

\* Extracted, split and embedded: the storing transaction deletes the chunks it
\* can see.
DeleteChunks(d) ==
    /\ at[d] = "embedding"
    /\ saw' = [saw EXCEPT ![d] = chunks]
    /\ Moves(d, "writing")
    /\ UNCHANGED <<upload, rowVars, object, tries, deletion>>

\* The conditional 'ready' write takes the row lock, so it and the inserts
\* commit as one step; another attempt's 'ready' stands.
ReadyUnchecked == Exists
Readied == status = "processing"

WriteReady(d) ==
    /\ at[d] = "writing"
    /\ \/ /\ Readied
          /\ status' = "ready" /\ overdue' = FALSE
          /\ chunks' = (chunks \ saw[d]) \cup {d}
          /\ Moves(d, "over")
       \/ /\ ~Readied
          /\ Moves(d, IF status = "ready" THEN "over" ELSE "failing")
          /\ UNCHANGED rowVars
    /\ saw' = [saw EXCEPT ![d] = {}]
    /\ UNCHANGED <<upload, object, tries, deletion>>

\* What follows a transient failure: the message is queued again (lost when that
\* publish fails), or, after the last retry, the document fails.
MayRetryOnceMore(d) == tries[d] <= MAX_RETRIES
MayRetry(d) == tries[d] < MAX_RETRIES
Retries(d) ==
    \/ /\ MayRetry(d)
       /\ tries' = [tries EXCEPT ![d] = @ + 1]
       /\ Moves(d, "queued") \/ ("broker" \in Faults /\ Moves(d, "over"))
    \/ ~MayRetry(d) /\ Moves(d, "failing") /\ UNCHANGED tries

\* PermanentIngestError or SoftTimeLimitExceeded: the attempt is the last.
GiveUp(d) ==
    /\ at[d] \in Running
    /\ Moves(d, "failing")
    /\ saw' = [saw EXCEPT ![d] = {}]
    /\ UNCHANGED <<upload, rowVars, object, tries, deletion>>

\* Any other exception.
RetryTransient(d) ==
    /\ at[d] \in Running
    /\ Retries(d)
    /\ saw' = [saw EXCEPT ![d] = {}]
    /\ UNCHANGED <<upload, rowVars, object, deletion>>

\* A claim or a 'ready' write commits and its answer is lost: to the attempt a
\* transient failure like any other, with the row written.
CommitLost(d) ==
    /\ "db" \in Faults
    /\ \/ /\ at[d] = "claiming" /\ ClaimableRow
          /\ status' = "processing"
          /\ UNCHANGED chunks
       \/ /\ at[d] = "writing" /\ Readied
          /\ status' = "ready"
          /\ chunks' = (chunks \ saw[d]) \cup {d}
    /\ overdue' = FALSE
    /\ Retries(d)
    /\ saw' = [saw EXCEPT ![d] = {}]
    /\ UNCHANGED <<upload, object, deletion>>

\* mark_document_failed, best effort: the first terminal write wins.
FailableAny == Exists
FailableRow == status \in InFlight

RecordFailed(d) ==
    /\ at[d] = "failing"
    /\ \/ FailableRow /\ status' = "failed" /\ overdue' = FALSE
       \/ (~FailableRow \/ "db" \in Faults) /\ UNCHANGED <<status, overdue>>
    /\ Moves(d, "over")
    /\ UNCHANGED <<upload, chunks, object, tries, saw, deletion>>

\* A child killed mid-task (out of memory, the hard limit): its message is
\* acknowledged and the row keeps its status.
ChildDies(d) ==
    /\ "crash" \in Faults
    /\ at[d] \in Running \cup {"failing"}
    /\ Moves(d, "over")
    /\ saw' = [saw EXCEPT ![d] = {}]
    /\ UNCHANGED <<upload, rowVars, object, tries, deletion>>

\* The broker hands an unacknowledged message out again (visibility_timeout, or
\* a worker's shutdown); the first attempt may still be running.
Redeliver(d, e) ==
    /\ "crash" \in Faults
    /\ at[d] \in Running \cup {"failing"} /\ at[e] = "none"
    /\ Moves(e, "queued")
    /\ tries' = [tries EXCEPT ![e] = tries[d]]
    /\ UNCHANGED <<upload, rowVars, object, saw, deletion>>

-----------------------------------------------------------------------------
(* The owner's requests, and time *)

\* The row is in flight past its deadline: STUCK_AFTER from the last claim, or
\* QUEUED_AFTER from the commit.
DeadlinePasses ==
    /\ status \in InFlight /\ ~overdue
    /\ overdue' = TRUE
    /\ UNCHANGED <<upload, status, chunks, object, workVars, deletion>>

\* list_documents applies fail_stale before it reads.
StaleProcessing == status = "processing" /\ overdue
Stale == status \in InFlight /\ overdue

FailStale ==
    /\ Stale
    /\ status' = "failed" /\ overdue' = FALSE
    /\ UNCHANGED <<upload, chunks, object, workVars, deletion>>

DeleteObjectFirst ==
    /\ Exists
    /\ object' = FALSE /\ deletion' = "row"
    /\ UNCHANGED <<upload, rowVars, workVars>>

\* delete_document: the row and, by cascade, its chunks first.
DeleteRow ==
    /\ Exists
    /\ status' = "deleted" /\ overdue' = FALSE /\ chunks' = {}
    /\ deletion' = "row"
    /\ UNCHANGED <<upload, object, workVars>>

\* Then the stored object, best effort.
DeleteObject ==
    /\ deletion = "row"
    /\ deletion' = "over"
    /\ object' = FALSE \/ ({"storage", "crash"} \cap Faults # {} /\ UNCHANGED object)
    /\ UNCHANGED <<upload, rowVars, workVars>>

Next ==
    \/ StoreFile \/ CommitUpload \/ Publish \/ RefreshFails \/ MarkUnpublished \/ UploadDies
    \/ \E d \in Delivery :
          \/ Deliver(d) \/ ClaimDocument(d) \/ FetchFile(d) \/ DeleteChunks(d)
          \/ WriteReady(d) \/ GiveUp(d) \/ RetryTransient(d) \/ CommitLost(d)
          \/ RecordFailed(d) \/ ChildDies(d)
          \/ \E e \in Delivery : Redeliver(d, e)
    \/ DeadlinePasses \/ FailStale \/ DeleteRow \/ DeleteObject

Spec == Init /\ [][Next]_vars

\* The owner keeps the documents panel open: it lists the documents while it
\* shows one in flight.  Nothing is asked of the worker or the broker.
FairSpec == Spec /\ WF_vars(DeadlinePasses) /\ WF_vars(FailStale)

-----------------------------------------------------------------------------
(* Properties *)

\* Every variable keeps its type.
TypeOK ==
    /\ upload \in {"idle", "stored", "publishing", "refused", "over"}
    /\ status \in {"none", "pending", "processing", "ready", "failed", "deleted"}
    /\ overdue \in BOOLEAN
    /\ object \in BOOLEAN
    /\ chunks \subseteq Delivery
    /\ at \in [Delivery -> Running \cup {"none", "queued", "failing", "over"}]
    /\ tries \in [Delivery -> 0..MAX_RETRIES]
    /\ saw \in [Delivery -> SUBSET Delivery]
    /\ deletion \in {"none", "row", "over"}

\* "status=ready => one complete chunk set" (ingest.py), however many attempts
\* run at once and wherever they die; a row in flight or gone has none.
OneChunkSet ==
    /\ status = "ready" => \E d \in Delivery : chunks = {d}
    /\ status \in InFlight \cup {"deleted"} => chunks = {}

\* 'failed' is terminal: an attempt the deadline stopped, or a message delivered
\* late, never resurrects the row beside the owner's re-upload.
FailedIsFinal == [][status = "failed" => status' \in {"failed", "deleted"}]_vars

\* A row never exists without its bytes, so no attempt of an existing document
\* finds its stored file missing (upload_document, delete_document).  A comment of
\* download_document says "The row outlived its object (a failed delete's second
\* half, or a sweep)": the delete commits the row's end first, so only the object can
\* outlive, and a download misses it only with a row read before a delete.
RowHasBytes == Exists => object

\* A late or failing attempt cannot fail a finished document: only the request
\* that published it can.
WorkerKeepsReady ==
    [][status = "ready" /\ status' = "failed" => upload = "refused"]_vars

\* Every document the owner keeps looking at leaves flight, although its
\* message, its attempt or its status write may be lost.
EveryDocumentSettles == status \in InFlight ~> status \notin InFlight

-----------------------------------------------------------------------------
(* What a comment says and the code does not keep *)

\* ingest.py: "'ready' and 'failed' are terminal".  A publish that raised after
\* the broker took the message fails the row by primary key, even when it is
\* ready by then.
ReadyIsFinal == [][status = "ready" => status' \in {"ready", "deleted"}]_vars
=============================================================================
