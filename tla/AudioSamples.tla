---------------------------- MODULE AudioSamples ----------------------------
(* The discovery samples of one ServiceOffering: rows in PostgreSQL, bytes  *)
(* in an object store (audio-sample.service.ts over                         *)
(* prisma-audio-repository.ts and a StorageAdapter).                        *)
(*                                                                          *)
(* An upload, a removal and a seller's list are sequences of steps with an  *)
(* await between any two.  A repository method is one transaction under the *)
(* offering's advisory lock, or one statement, so it is one action; the     *)
(* object store is a provider that may refuse, or act and lose its answer.  *)
(*   upload, list  sweepRows, finalizeRow, sweepLocators, forget            *)
(*   upload   put, create, discard, record, discardAgain, recordAgain       *)
(*   removal  evidence, resume, find, count, final, mark, delete, finalize  *)
(*                                                                          *)
(* An upload makes one object and at most one row, so a sample, its row and *)
(* its object all bear the upload's name; a retry is another upload.        *)
EXTENDS Integers, FiniteSets

CONSTANTS
    Uploads,        \* uploadSample calls, and the samples they make
    Stored,         \* samples that are Live at the start
    Unconfirmed,    \* the legacy rows, without a media-use confirmation
    Removals,       \* removeSample calls
    Listings,       \* listSamplesForSeller calls
    MaxSamples,     \* BG2_AUDIO_SAMPLE_MAX_PER_OFFERING
    NoSample        \* the sample of a call that has none in hand

Samples == Uploads \cup Stored
Sweepers == Uploads \cup Listings
Calls == Sweepers \cup Removals

ASSUME SamplesAssumption ==
    /\ MaxSamples \in Nat
    /\ IsFiniteSet(Stored) /\ Cardinality(Stored) <= MaxSamples
    /\ Unconfirmed \subseteq Stored
    /\ Uploads \cap (Stored \cup Removals \cup Listings) = {}
    /\ Removals \cap Listings = {}
    /\ NoSample \notin Samples

VARIABLES
    offering,    \* service_offerings.status
    row,         \* offering_audio_samples.cleanupStatus, "none" without a row
    objects,     \* the objects the store holds (the provider's state)
    locators,    \* audio_sample_orphaned_storage
    pausedFor,   \* samples with a final_sample_removal row in the pauses
    pc,          \* the step each call is at
    sample,      \* the sample each call has in hand
    backlog,     \* what is left of the list a sweep read
    sawActive,   \* the removals whose context read said Active
    outcome      \* how the call ended

rows    == <<offering, row, pausedFor>>
stores  == <<objects, locators>>
locals  == <<sample, backlog, sawActive>>
vars    == <<rows, stores, pc, locals, outcome>>

Steps == {"idle", "sweepRows", "finalizeRow", "sweepLocators", "forget", "put",
          "create", "discard", "record", "discardAgain", "recordAgain", "evidence",
          "resume", "find", "count", "final", "mark", "delete", "finalize", "done",
          "lost"}
Outcomes == {"none", "CREATED", "LISTED", "REMOVED", "LIMIT_EXCEEDED", "NOT_FOUND",
             "STORAGE_FAILED", "CONFIRMATION_REQUIRED", "FAILED", "UNRECORDED"}

SamplesTypeOK ==
    /\ offering \in {"Draft", "Active", "Paused"}
    /\ row \in [Samples -> {"none", "Live", "PendingCleanup"}]
    /\ objects \subseteq Samples /\ locators \subseteq Samples
    /\ pausedFor \subseteq Samples
    /\ pc \in [Calls -> Steps]
    /\ sample \in [Calls -> Samples \cup {NoSample}]
    /\ backlog \in [Calls -> SUBSET Samples]
    /\ sawActive \subseteq Removals
    /\ outcome \in [Calls -> Outcomes]

SamplesInit ==
    /\ offering = "Draft"
    /\ row = [s \in Samples |-> IF s \in Stored THEN "Live" ELSE "none"]
    /\ objects = Stored /\ locators = {} /\ pausedFor = {}
    /\ pc = [c \in Calls |-> "idle"]
    /\ sample = [c \in Calls |-> NoSample]
    /\ backlog = [c \in Calls |-> {}]
    /\ sawActive = {}
    /\ outcome = [c \in Calls |-> "none"]
-----------------------------------------------------------------------------
Live       == {s \in Samples : row[s] = "Live"}
Qualifying == Live \ Unconfirmed     \* confirmed Live samples

At(c, step)   == pc[c] = step
Goto(c, step) == pc' = [pc EXCEPT ![c] = step]
End(c, o)     == Goto(c, "done") /\ outcome' = [outcome EXCEPT ![c] = o]
Pending(c, step, o) == Goto(c, step) /\ outcome' = [outcome EXCEPT ![c] = o]
Hand(c, s)    == sample' = [sample EXCEPT ![c] = s]
SetBacklog(c, set) == backlog' = [backlog EXCEPT ![c] = set]

(* Mutation: a row is not deleted but becomes Removed, a value the schema   *)
(* has and no query filters.                                                *)
SetRowSoftly(s, status) ==
    row' = [row EXCEPT ![s] = IF status = "none" THEN "Removed" ELSE status]

SetRow(s, status) == row' = [row EXCEPT ![s] = status]

(* The store answers that it deleted the object or does not have it.        *)
StoreDeletes(s) == objects' = objects \ {s}
StoreRefuses(s) == objects' \in {objects, objects \ {s}}   \* or loses its answer
-----------------------------------------------------------------------------
(* Activation and reactivation count under the sample lock; a pause by the  *)
(* seller does not look at the samples.                                     *)
Activate ==
    /\ offering \in {"Draft", "Paused"}
    /\ Cardinality(Qualifying) \in 1..MaxSamples
    /\ offering' = "Active"
    /\ UNCHANGED <<row, pausedFor, stores, pc, locals, outcome>>

Pause ==
    /\ offering = "Active"
    /\ offering' = "Paused"
    /\ UNCHANGED <<row, pausedFor, stores, pc, locals, outcome>>
-----------------------------------------------------------------------------
(* Mutation: the list is not filtered by status.                            *)
AnyRow == {s \in Samples : row[s] # "none"}

AwaitingCleanup == {s \in Samples : row[s] = "PendingCleanup"}

(* The retries that an upload and a seller's list begin with: the rows that *)
(* await their cleanup, then the locators.  The store is asked for each in  *)
(* turn; what it refuses waits for the next pass.                           *)
ListPending(c) ==
    /\ At(c, "idle")
    /\ SetBacklog(c, AwaitingCleanup)
    /\ Goto(c, "sweepRows")
    /\ UNCHANGED <<rows, stores, sample, sawActive, outcome>>

SweepNext(c, here, there) ==
    /\ At(c, here)
    /\ \E s \in backlog[c] :
          /\ SetBacklog(c, backlog[c] \ {s})
          /\ \/ StoreDeletes(s) /\ Hand(c, s) /\ Goto(c, there)
             \/ StoreRefuses(s) /\ UNCHANGED <<sample, pc>>
    /\ UNCHANGED <<rows, locators, sawActive, outcome>>

SweepRow(c) == SweepNext(c, "sweepRows", "finalizeRow")

(* A failure to delete the row, or the locator below, is swallowed.         *)
FinalizeRow(c) ==
    /\ At(c, "finalizeRow")
    /\ SetRow(sample[c], "none") \/ UNCHANGED row
    /\ Hand(c, NoSample)
    /\ Goto(c, "sweepRows")
    /\ UNCHANGED <<offering, pausedFor, stores, backlog, sawActive, outcome>>

ListLocators(c) ==
    /\ At(c, "sweepRows") /\ backlog[c] = {}
    /\ SetBacklog(c, locators)
    /\ Goto(c, "sweepLocators")
    /\ UNCHANGED <<rows, stores, sample, sawActive, outcome>>

SweepLocator(c) == SweepNext(c, "sweepLocators", "forget")

Forget(c) ==
    /\ At(c, "forget")
    /\ locators' \in {locators, locators \ {sample[c]}}
    /\ Hand(c, NoSample)
    /\ Goto(c, "sweepLocators")
    /\ UNCHANGED <<rows, objects, backlog, sawActive, outcome>>

Sweep(c) ==
    \/ ListPending(c) \/ SweepRow(c) \/ FinalizeRow(c)
    \/ ListLocators(c) \/ SweepLocator(c) \/ Forget(c)

(* What a list answers is read once, after the sweep.                       *)
AnswerList(l) ==
    /\ At(l, "sweepLocators") /\ backlog[l] = {}
    /\ End(l, "LISTED")
    /\ UNCHANGED <<rows, stores, locals>>
-----------------------------------------------------------------------------
(* Mutation: a legacy sample takes no place.                                *)
HasRoomForConfirmed == Cardinality(Qualifying) < MaxSamples

HasRoom == Cardinality(Live) < MaxSamples

Precheck(u) ==
    /\ At(u, "sweepLocators") /\ backlog[u] = {}
    /\ IF HasRoom THEN Goto(u, "put") /\ UNCHANGED outcome ELSE End(u, "LIMIT_EXCEEDED")
    /\ UNCHANGED <<rows, stores, locals>>

Put(u) ==
    /\ At(u, "put")
    /\ \/ objects' = objects \cup {u} /\ Goto(u, "create") /\ UNCHANGED outcome
       \/ objects' \in {objects, objects \cup {u}} /\ End(u, "STORAGE_FAILED")
    /\ UNCHANGED <<rows, locators, locals>>

(* createSampleWithCap counts again under the lock.  A full offering is     *)
(* discarded for and then, since the error is thrown inside the try block,  *)
(* a second time by its catch; any other failure is discarded for once,     *)
(* also one whose transaction had committed.                                *)
CreateSample(u) ==
    /\ At(u, "create")
    /\ \/ HasRoom /\ SetRow(u, "Live") /\ End(u, "CREATED")
       \/ ~HasRoom /\ UNCHANGED row /\ Pending(u, "discard", "LIMIT_EXCEEDED")
       \/ HasRoom /\ SetRow(u, "Live") /\ Pending(u, "discardAgain", "FAILED")
       \/ UNCHANGED row /\ Pending(u, "discardAgain", "FAILED")
    /\ UNCHANGED <<offering, pausedFor, stores, locals>>

(* cleanupOrphanedStorage, the first and the second time.                   *)
Discard(u) ==
    /\ \/ At(u, "discard") /\ StoreDeletes(u) /\ Goto(u, "discardAgain")
       \/ At(u, "discard") /\ StoreRefuses(u) /\ Goto(u, "record")
       \/ At(u, "discardAgain") /\ StoreDeletes(u) /\ Goto(u, "done")
       \/ At(u, "discardAgain") /\ StoreRefuses(u) /\ Goto(u, "recordAgain")
    /\ UNCHANGED <<rows, locators, locals, outcome>>

(* Mutation: the failure to delete is swallowed, as it once was.            *)
DropLocator(u) == UNCHANGED locators

KeepLocator(u) == locators' = locators \cup {u}

(* The upsert of the locator; a failure is swallowed.  "UNRECORDED" is the  *)
(* model's name for it: the caller sees the error of the upload.            *)
RecordOrphan(u) ==
    /\ \/ At(u, "record") /\ Goto(u, "discardAgain") /\ UNCHANGED outcome
             /\ (KeepLocator(u) \/ UNCHANGED locators)
       \/ At(u, "recordAgain") /\ Goto(u, "done") /\ UNCHANGED outcome
             /\ KeepLocator(u)
       \/ At(u, "recordAgain") /\ End(u, "UNRECORDED") /\ UNCHANGED locators
    /\ UNCHANGED <<rows, objects, locals>>

Upload(u) ==
    Sweep(u) \/ Precheck(u) \/ Put(u) \/ CreateSample(u) \/ Discard(u) \/ RecordOrphan(u)
-----------------------------------------------------------------------------
(* The request names any sample; the context is read once, here.            *)
BeginRemoval(r) ==
    /\ At(r, "idle")
    /\ \E s \in Samples : Hand(r, s)
    /\ sawActive' = IF offering = "Active" THEN sawActive \cup {r} ELSE sawActive
    /\ Goto(r, "evidence")
    /\ UNCHANGED <<rows, stores, backlog, outcome>>

FindEvidence(r) ==
    /\ At(r, "evidence")
    /\ Goto(r, IF sample[r] \in pausedFor THEN "resume" ELSE "find")
    /\ UNCHANGED <<rows, stores, locals, outcome>>

(* Mutation: the evidence alone is an answer.                               *)
ConvergeOnEvidence(r) ==
    /\ At(r, "resume")
    /\ End(r, "REMOVED")
    /\ UNCHANGED <<rows, stores, locals>>

(* A retry of a committed final removal: only a row that still awaits its   *)
(* cleanup has anything left to do.                                         *)
ResumeFinalRemoval(r) ==
    /\ At(r, "resume")
    /\ IF row[sample[r]] = "PendingCleanup"
       THEN Goto(r, "delete") /\ UNCHANGED outcome ELSE End(r, "REMOVED")
    /\ UNCHANGED <<rows, stores, locals>>

FindSample(r) ==
    /\ At(r, "find")
    /\ \/ row[sample[r]] = "none" /\ End(r, "NOT_FOUND")
       \/ row[sample[r]] = "PendingCleanup" /\ End(r, "STORAGE_FAILED")
       \/ /\ row[sample[r]] = "Live" /\ UNCHANGED outcome
          /\ Goto(r, IF r \in sawActive /\ sample[r] \notin Unconfirmed
                     THEN "count" ELSE "mark")
    /\ sawActive' = sawActive \ {r}      \* not used again
    /\ UNCHANGED <<rows, stores, sample, backlog>>

(* The request carries confirmEligibilityLoss, or it is answered that it    *)
(* must.                                                                    *)
CountQualifying(r) ==
    /\ At(r, "count")
    /\ IF Qualifying = {sample[r]}
       THEN \/ Goto(r, "final") /\ UNCHANGED outcome
            \/ End(r, "CONFIRMATION_REQUIRED")
       ELSE Goto(r, "mark") /\ UNCHANGED outcome
    /\ UNCHANGED <<rows, stores, locals>>

(* Mutation: the transaction trusts the count of the service.               *)
StillLive(s) == offering = "Active" /\ row[s] = "Live"

LastQualifying(s) == offering = "Active" /\ Qualifying = {s}

(* removeFinalSamplePendingCleanup converges on its evidence row, pauses    *)
(* the offering, or finds that it does not apply; the last sends the call   *)
(* to the ordinary removal.                                                 *)
RemoveFinalSample(r) ==
    /\ At(r, "final")
    /\ \/ /\ sample[r] \in pausedFor
          /\ Goto(r, "delete") /\ UNCHANGED <<rows, outcome>>
       \/ /\ sample[r] \notin pausedFor /\ LastQualifying(sample[r])
          /\ offering' = "Paused"
          /\ pausedFor' = pausedFor \cup {sample[r]}
          /\ SetRow(sample[r], "PendingCleanup")
          /\ Goto(r, "delete") /\ UNCHANGED outcome
       \/ /\ sample[r] \notin pausedFor /\ ~LastQualifying(sample[r])
          /\ Goto(r, "mark") /\ UNCHANGED <<rows, outcome>>
       \/ End(r, "FAILED") /\ UNCHANGED rows
    /\ UNCHANGED <<stores, locals>>

(* Only a Live row is marked: another removal may have been first.          *)
MarkPendingCleanup(r) ==
    /\ At(r, "mark")
    /\ \/ /\ row[sample[r]] = "Live" /\ SetRow(sample[r], "PendingCleanup")
          /\ Goto(r, "delete") /\ UNCHANGED outcome
       \/ row[sample[r]] # "Live" /\ Goto(r, "delete") /\ UNCHANGED <<row, outcome>>
       \/ End(r, "FAILED") /\ UNCHANGED row
    /\ UNCHANGED <<offering, pausedFor, stores, locals>>

DeleteObject(r) ==
    /\ At(r, "delete")
    /\ \/ StoreDeletes(sample[r]) /\ Goto(r, "finalize") /\ UNCHANGED outcome
       \/ StoreRefuses(sample[r]) /\ End(r, "STORAGE_FAILED")
    /\ UNCHANGED <<rows, locators, locals>>

FinalizeRemoval(r) ==
    /\ At(r, "finalize")
    /\ \/ SetRow(sample[r], "none") /\ End(r, "REMOVED")
       \/ UNCHANGED row /\ End(r, "FAILED")
    /\ UNCHANGED <<offering, pausedFor, stores, locals>>

Remove(r) ==
    \/ BeginRemoval(r) \/ FindEvidence(r) \/ ResumeFinalRemoval(r) \/ FindSample(r)
    \/ CountQualifying(r) \/ RemoveFinalSample(r) \/ MarkPendingCleanup(r)
    \/ DeleteObject(r) \/ FinalizeRemoval(r)
-----------------------------------------------------------------------------
(* The API process ends: no step undoes the ones before it.                 *)
Lose(c) ==
    /\ pc[c] \notin {"idle", "done", "lost"}
    /\ Goto(c, "lost")
    /\ UNCHANGED <<rows, stores, locals, outcome>>

SamplesNext ==
    \/ Activate \/ Pause
    \/ \E u \in Uploads : Upload(u)
    \/ \E l \in Listings : Sweep(l) \/ AnswerList(l)
    \/ \E r \in Removals : Remove(r)
    \/ \E c \in Calls : Lose(c)

SamplesSpec == SamplesInit /\ [][SamplesNext]_vars
-----------------------------------------------------------------------------
(* At most MaxSamples samples are Live, whatever uploads passed the         *)
(* preflight check together.                                                *)
CapHolds == Cardinality(Live) <= MaxSamples

(* A Live sample whose upload was answered with success is playable: no     *)
(* sweep, removal or discard of another call deletes its object.  Only the  *)
(* row of an upload that failed after its transaction had committed may     *)
(* outlive its object.                                                      *)
LiveSamplesHaveObjects ==
    \A s \in Live :
        s \in objects \/ (s \in Uploads /\ outcome[s] \in {"FAILED", "UNRECORDED"})

(* A row is the only way to find an object again, so it is deleted only     *)
(* when the object is gone, by whichever of the removal and the sweeps.     *)
RowsOutliveObjects ==
    [][\A s \in Samples : row[s] # "none" /\ row'[s] = "none" => s \notin objects]_vars

(* After an upload has been answered, its object is gone, or a row or a     *)
(* locator leads to it; the exceptions are a locator that could not be      *)
(* written and an object stored by a put that reported a failure.           *)
ObjectsAreTracked ==
    \A u \in Uploads : At(u, "done") /\ u \in objects =>
        row[u] # "none" \/ u \in locators
            \/ outcome[u] = "UNRECORDED" \/ outcome[u] = "STORAGE_FAILED"

(* Whoever is told that a sample was removed is told the truth: row and     *)
(* object are gone, on the direct path, when two removals of the sample     *)
(* race, and when a retry converges on the evidence of a final removal.     *)
RemovedMeansGone ==
    \A r \in Removals : At(r, "done") /\ outcome[r] = "REMOVED" =>
        row[sample[r]] = "none" /\ sample[r] \notin objects

(* A removal pauses an Active offering only when it takes the last          *)
(* qualifying sample at that moment, not when it was when it looked.        *)
PausesOnlyForTheLast ==
    [][pausedFor' # pausedFor =>
          offering = "Active" /\ offering' = "Paused" /\ Qualifying # {}
              /\ Qualifying' = {}]_vars

(* What the specification of the milestone promises: removing samples never *)
(* leaves an Active offering without a qualifying one.  Only a call that    *)
(* saw the last sample on an Active offering takes the path that pauses.    *)
ActiveHasQualifyingSample == offering = "Active" => Qualifying # {}

(* What the comments of the upload promise: after a failed upload the       *)
(* bounded retry of the next operation finds the object it left.            *)
RetryFindsOrphans ==
    \A u \in Uploads :
        At(u, "done") /\ u \in objects /\ outcome[u] # "STORAGE_FAILED" =>
            row[u] # "none" \/ u \in locators
-----------------------------------------------------------------------------
(* The rows and objects seen as the shelf they stand for.  Once its upload  *)
(* is past the insert, a sample without a row is gone; a Live row whose     *)
(* upload was answered with a failure, after the insert had committed, is a *)
(* stray.                                                                   *)
Discarding == {"discard", "record", "discardAgain", "recordAgain"}

Settled(s) == s \in Stored \/ pc[s] \in Discarding \cup {"done", "lost"}

PlaceOf(s) ==
    IF row[s] = "PendingCleanup" THEN "leaving"
    ELSE IF row[s] = "none" THEN IF Settled(s) THEN "gone" ELSE "coming"
    ELSE IF s \in Uploads /\ outcome[s] \in {"FAILED", "UNRECORDED"} THEN "stray"
    ELSE "shown"

Shelf == INSTANCE SampleShelf WITH
    Early    <- Stored,
    Legacy   <- Unconfirmed,
    Capacity <- MaxSamples,
    status   <- offering,
    place    <- [s \in Samples |-> PlaceOf(s)],
    bytes    <- objects

(* Uploads, removals, lists, sweeps and crashes, in whatever order, do to   *)
(* the samples only what the shelf allows: a sample that is gone stays      *)
(* gone, one that is shown keeps its bytes, a row is deleted only when its  *)
(* object is, and only taking the last qualifying sample suspends.          *)
ImplementsShelf == Shelf!ShelfSpec
=============================================================================
