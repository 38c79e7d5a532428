------------------------- MODULE AudioSamples_proofs -------------------------
(* Proofs about the discovery samples, for every number of samples, calls   *)
(* and crashes.                                                             *)
(*                                                                          *)
(* A step that deletes an object acts on what an earlier step of its call   *)
(* read, so the argument is about facts that no other call can undo: a      *)
(* sample is Settled once its upload can no longer insert a row, Doomed     *)
(* when moreover its row is not Live, Failed when its upload's failure is    *)
(* certain.  SamplesInv says of each step which of them its call knows.     *)
EXTENDS AudioSamples, FiniteSetTheorems, TLAPS

BeforePut == {"idle", "sweepRows", "finalizeRow", "sweepLocators", "forget", "put"}
Known     == {"evidence", "resume", "find", "count", "final", "mark", "delete", "finalize"}

(* The sample is not Live and will never be Live again.                     *)
Doomed(s) == Settled(s) /\ row[s] # "Live"

(* The upload was answered with a failure, or will be: nobody relies on the *)
(* object.                                                                  *)
Failed(s) ==
    /\ s \in Uploads /\ Settled(s)
    /\ outcome[s] \in {"FAILED", "UNRECORDED"}
          \/ (outcome[s] = "LIMIT_EXCEEDED" /\ row[s] = "none")

(* What an upload knows of its own row and object.                          *)
UploadKnows(u) ==
    /\ pc[u] \in BeforePut \cup {"create", "done", "lost"} \cup Discarding
    /\ pc[u] \in BeforePut \cup {"create"} => row[u] = "none"
    /\ pc[u] \in BeforePut => u \notin objects
    /\ pc[u] = "create" => u \in objects
    /\ pc[u] \in Discarding => Failed(u)

(* What a sweep knows of the samples on its list and in its hand.           *)
SweepKnows(c) ==
    /\ pc[c] \in {"sweepRows", "finalizeRow"} => \A s \in backlog[c] : Doomed(s)
    /\ pc[c] \in {"sweepLocators", "forget"} => \A s \in backlog[c] : Failed(s)
    /\ pc[c] = "finalizeRow" =>
          sample[c] \in Samples /\ Doomed(sample[c]) /\ sample[c] \notin objects
    /\ pc[c] = "forget" =>
          sample[c] \in Samples /\ Failed(sample[c]) /\ sample[c] \notin objects

(* What a removal knows of its sample.                                      *)
RemovalKnows(r) ==
    /\ pc[r] \in Known => sample[r] \in Samples
    /\ pc[r] = "resume" => sample[r] \in pausedFor
    /\ pc[r] \in {"count", "final", "mark"} => Settled(sample[r])
    /\ pc[r] \in {"delete", "finalize"} => Doomed(sample[r])
    /\ pc[r] = "finalize" => sample[r] \notin objects
    /\ pc[r] = "done" /\ outcome[r] = "REMOVED" =>
          sample[r] \in Samples /\ Settled(sample[r])

CallsKnow ==
    /\ \A u \in Uploads : UploadKnows(u)
    /\ \A c \in Sweepers : SweepKnows(c)
    /\ \A r \in Removals : RemovalKnows(r)

(* What the evidence rows and the locators say of their samples.            *)
EvidenceIsSound ==
    /\ \A s \in locators : Failed(s)
    /\ \A s \in pausedFor : Doomed(s) /\ (row[s] = "none" => s \notin objects)

SamplesInv ==
    /\ SamplesTypeOK
    /\ CallsKnow
    /\ EvidenceIsSound
    /\ LiveSamplesHaveObjects
    /\ ObjectsAreTracked
    /\ RemovedMeansGone

(* What the call's own answer is worth.                                     *)
AnswerHolds(c) ==
    /\ c \in Uploads /\ pc[c] = "done" /\ c \in objects =>
          row[c] # "none" \/ c \in locators \/ outcome[c] \in {"UNRECORDED", "STORAGE_FAILED"}
    /\ c \in Removals /\ pc[c] = "done" /\ outcome[c] = "REMOVED" =>
          row[sample[c]] = "none" /\ sample[c] \notin objects

OwnKnows(c) ==
    /\ c \in Uploads => UploadKnows(c)
    /\ c \in Sweepers => SweepKnows(c)
    /\ c \in Removals => RemovalKnows(c)
    /\ AnswerHolds(c)

(* The rely and guarantee of the calls: a step of call c leaves the locals  *)
(* of the others alone, and does to the rows, objects and locators only     *)
(* what no other call can be hurt by.                                       *)
Respects(c) ==
    /\ \A d \in Calls \ {c} :
          /\ pc'[d] = pc[d] /\ outcome'[d] = outcome[d]
          /\ sample'[d] = sample[d] /\ backlog'[d] = backlog[d]
    /\ c \in Uploads /\ Settled(c) => Settled(c)'
    /\ Failed(c) => Failed(c)'
    /\ \A s \in Samples : row'[s] = "Live" =>
          row[s] = "Live" \/ (s = c /\ c \in Uploads /\ pc[c] = "create")
    /\ \A s \in Samples : row[s] = "none" /\ row'[s] # "none" =>
          s = c /\ c \in Uploads /\ pc[c] = "create" /\ c \in objects'
    /\ \A s \in Samples : row[s] # "none" /\ row'[s] = "none" => s \notin objects
    /\ \A s \in objects' \ objects : s = c /\ c \in Uploads /\ pc[c] = "put"
    /\ \A s \in objects \ objects' : Doomed(s) \/ Failed(s)
    /\ \A s \in locators' \ locators : s = c /\ Failed(c)'
    /\ \A s \in locators \ locators' : s \notin objects
    /\ pausedFor \subseteq pausedFor'
    /\ \A s \in pausedFor' \ pausedFor : Doomed(s)' /\ row'[s] # "none"
-----------------------------------------------------------------------------
LEMMA SamplesInitInv == SamplesInit => SamplesInv
  <1> SUFFICES ASSUME SamplesInit PROVE SamplesInv
    OBVIOUS
  <1>1. SamplesTypeOK
    BY SamplesAssumption DEF SamplesInit, SamplesTypeOK, Samples, Steps, Outcomes
  <1>2. CallsKnow
    BY SamplesAssumption
       DEF SamplesInit, CallsKnow, UploadKnows, SweepKnows, RemovalKnows, BeforePut,
           Discarding, Known, Calls, Sweepers, Samples
  <1>3. EvidenceIsSound
    BY DEF SamplesInit, EvidenceIsSound
  <1>4. LiveSamplesHaveObjects /\ ObjectsAreTracked /\ RemovedMeansGone
    BY DEF SamplesInit, LiveSamplesHaveObjects, ObjectsAreTracked, RemovedMeansGone, Live,
           At, Calls, Sweepers
  <1> QED BY <1>1, <1>2, <1>3, <1>4 DEF SamplesInv

(* What other calls have come to know survives a step that respects them.   *)
LEMMA KnowledgeLasts ==
    ASSUME SamplesInv, NEW c \in Calls, Respects(c)
    PROVE  /\ \A s \in Samples : Settled(s) => Settled(s)'
           /\ \A s \in Samples : Doomed(s) => Doomed(s)'
           /\ \A s \in Samples : Failed(s) => Failed(s)'
           /\ \A s \in Samples : Settled(s) /\ s \notin objects => s \notin objects'
           /\ \A s \in Samples : Settled(s) /\ row[s] = "none" => row'[s] = "none"
  <1>1. ASSUME NEW s \in Samples, Settled(s)
        PROVE  Settled(s)' /\ ~(s = c /\ c \in Uploads /\ pc[c] \in {"create", "put"})
    BY <1>1, SamplesAssumption
       DEF Respects, Settled, Samples, Calls, Sweepers, Discarding
  <1>2. ASSUME NEW s \in Samples, Doomed(s)
        PROVE  Doomed(s)'
    BY <1>1, <1>2 DEF Doomed, Respects
  <1>3. ASSUME NEW s \in Samples, Settled(s)
        PROVE  /\ s \notin objects => s \notin objects'
               /\ row[s] = "none" => row'[s] = "none"
    BY <1>1, <1>3 DEF Respects
  <1>4. ASSUME NEW s \in Samples, Failed(s)
        PROVE  Failed(s)'
    <2>1. CASE s = c
      BY <1>4, <2>1 DEF Respects
    <2>2. CASE s # c
      <3>1. s \in Calls \ {c} /\ Settled(s)
        BY <1>4, <2>2 DEF Failed, Calls, Sweepers
      <3>2. outcome'[s] = outcome[s]
        BY <3>1 DEF Respects
      <3> QED BY <1>1, <1>3, <1>4, <3>1, <3>2 DEF Failed
    <2> QED BY <2>1, <2>2
  <1> QED BY <1>1, <1>2, <1>3, <1>4

(* The rely: everything the invariant says of other calls, and of the rows, *)
(* still holds after a step of c that respects them.                        *)
LEMMA RespectKeepsOthers ==
    ASSUME SamplesInv, NEW c \in Calls, Respects(c)
    PROVE  /\ \A u \in Uploads \ {c} : UploadKnows(u)'
           /\ \A d \in Sweepers \ {c} : SweepKnows(d)'
           /\ \A r \in Removals \ {c} : RemovalKnows(r)'
  <1> USE KnowledgeLasts
  <1>1. ASSUME NEW u \in Uploads \ {c}
        PROVE  UploadKnows(u)'
    <2>1. u \in Samples /\ u \in Calls \ {c} /\ UploadKnows(u)
      BY DEF SamplesInv, CallsKnow, Samples, Calls, Sweepers
    <2>2. pc'[u] = pc[u] /\ (row[u] = "none" => row'[u] = "none")
             /\ (u \notin objects => u \notin objects')
      BY <2>1 DEF Respects
    <2>3. ASSUME pc[u] = "create" PROVE u \in objects'
      <3>1. ~Settled(u) /\ u \in objects
        BY <2>1, <2>3, SamplesAssumption DEF UploadKnows, Settled, Discarding
      <3> QED BY <3>1 DEF Respects, Doomed, Failed
    <2> QED BY <2>1, <2>2, <2>3 DEF UploadKnows
  <1>2. ASSUME NEW d \in Sweepers \ {c}
        PROVE  SweepKnows(d)'
    <2>1. d \in Calls \ {c} /\ SweepKnows(d)
      BY DEF SamplesInv, CallsKnow, Calls
    <2>2. pc'[d] = pc[d] /\ sample'[d] = sample[d] /\ backlog'[d] = backlog[d]
      BY <2>1 DEF Respects
    <2>3. backlog[d] \subseteq Samples
      BY <2>1 DEF SamplesInv, SamplesTypeOK
    <2>4. \A s \in Samples : Failed(s) \/ Doomed(s) => Settled(s)
      BY DEF Failed, Doomed
    <2> QED BY <2>1, <2>2, <2>3, <2>4 DEF SweepKnows
  <1>3. ASSUME NEW r \in Removals \ {c}
        PROVE  RemovalKnows(r)'
    <2>1. r \in Calls \ {c} /\ RemovalKnows(r)
      BY DEF SamplesInv, CallsKnow, Calls
    <2>2. pc'[r] = pc[r] /\ sample'[r] = sample[r] /\ outcome'[r] = outcome[r]
      BY <2>1 DEF Respects
    <2>3. pausedFor \subseteq pausedFor'
      BY DEF Respects
    <2> QED BY <2>1, <2>2, <2>3 DEF RemovalKnows, Known, Doomed
  <1> QED BY <1>1, <1>2, <1>3

LEMMA RespectKeepsShared ==
    ASSUME SamplesInv, NEW c \in Calls, Respects(c)
    PROVE  /\ EvidenceIsSound' /\ LiveSamplesHaveObjects'
           /\ \A d \in Calls \ {c} : AnswerHolds(d)'
  <1> USE KnowledgeLasts
  <1>0. locators \subseteq Samples /\ objects \subseteq Samples /\ pausedFor \subseteq Samples
    BY DEF SamplesInv, SamplesTypeOK
  <1>1. ASSUME NEW s \in locators'
        PROVE  Failed(s)'
    BY <1>0, <1>1 DEF Respects, SamplesInv, EvidenceIsSound
  <1>2. ASSUME NEW s \in pausedFor'
        PROVE  Doomed(s)' /\ (row'[s] = "none" => s \notin objects')
    <2>1. CASE s \in pausedFor
      <3>1. Doomed(s) /\ s \in Samples /\ (row[s] = "none" => s \notin objects)
        BY <1>0, <2>1 DEF SamplesInv, EvidenceIsSound
      <3> QED BY <3>1 DEF Respects, Doomed
    <2>2. CASE s \notin pausedFor
      BY <1>2, <2>2 DEF Respects
    <2> QED BY <2>1, <2>2
  <1>3. ASSUME NEW s \in Samples, row'[s] = "Live"
        PROVE  s \in objects' \/ (s \in Uploads /\ outcome'[s] \in {"FAILED", "UNRECORDED"})
    <2>1. CASE row[s] = "Live" /\ (s \in objects \/ s \notin objects')
      <3>1. s \in objects \/ (s \in Uploads /\ outcome[s] \in {"FAILED", "UNRECORDED"})
        BY <2>1 DEF SamplesInv, LiveSamplesHaveObjects, Live
      <3>2. s \in Uploads => Settled(s)
        BY <2>1, SamplesAssumption
           DEF SamplesInv, CallsKnow, UploadKnows, Settled, BeforePut, Discarding
      <3>3. CASE s \in objects'
        BY <3>3
      <3>4. CASE s \notin objects'
        <4>1. Failed(s)
          BY <2>1, <3>1, <3>2, <3>4 DEF Respects, Doomed, Failed
        <4> QED BY <1>3, <4>1 DEF Failed
      <3> QED BY <3>3, <3>4
    <2>2. CASE row[s] # "Live"
      <3>1. s = c /\ c \in Uploads /\ pc[c] = "create"
        BY <1>3, <2>2 DEF Respects
      <3>2. row[s] = "none"
        BY <3>1 DEF SamplesInv, CallsKnow, UploadKnows
      <3> QED BY <1>3, <3>2 DEF Respects
    <2> QED BY <2>1, <2>2
  <1>4. ASSUME NEW d \in Calls \ {c}
        PROVE  AnswerHolds(d)'
    <2>1. pc'[d] = pc[d] /\ sample'[d] = sample[d] /\ outcome'[d] = outcome[d]
      BY DEF Respects
    <2>2. ASSUME d \in Uploads, pc[d] = "done", d \in objects'
          PROVE  row'[d] # "none" \/ d \in locators'
                    \/ outcome[d] \in {"UNRECORDED", "STORAGE_FAILED"}
      <3>1. d \in Samples /\ d \in objects
        BY <2>2 DEF Respects, Samples
      <3>2. row[d] # "none" \/ d \in locators
               \/ outcome[d] \in {"UNRECORDED", "STORAGE_FAILED"}
        BY <2>2, <3>1 DEF SamplesInv, ObjectsAreTracked, At
      <3> QED BY <3>1, <3>2 DEF Respects
    <2>3. ASSUME d \in Removals, pc[d] = "done", outcome[d] = "REMOVED"
          PROVE  row'[sample[d]] = "none" /\ sample[d] \notin objects'
      <3>1. sample[d] \in Samples /\ Settled(sample[d])
        BY <2>3 DEF SamplesInv, CallsKnow, RemovalKnows
      <3>2. row[sample[d]] = "none" /\ sample[d] \notin objects
        BY <2>3 DEF SamplesInv, RemovedMeansGone, At
      <3> QED BY <3>1, <3>2
    <2> QED BY <2>1, <2>2, <2>3 DEF AnswerHolds
  <1> QED
    BY <1>1, <1>2, <1>3, <1>4 DEF EvidenceIsSound, LiveSamplesHaveObjects, Live

(* What has to be shown of each action.                                     *)
LEMMA MoverKeepsInv ==
    ASSUME SamplesInv, NEW c \in Calls, SamplesTypeOK', Respects(c), OwnKnows(c)'
    PROVE  SamplesInv'
  <1>1. CallsKnow'
    BY RespectKeepsOthers DEF CallsKnow, OwnKnows
  <1>2. \A d \in Calls : AnswerHolds(d)'
    BY RespectKeepsShared DEF OwnKnows
  <1>3. ObjectsAreTracked' /\ RemovedMeansGone'
    BY <1>2 DEF AnswerHolds, ObjectsAreTracked, RemovedMeansGone, At, Calls, Sweepers
  <1> QED BY <1>1, <1>3, RespectKeepsShared DEF SamplesInv

(* Only a settled sample has a row.                                         *)
LEMMA RowsAreSettled ==
    ASSUME SamplesInv, NEW s \in Samples, row[s] # "none"
    PROVE  Settled(s)
  BY DEF SamplesInv, CallsKnow, UploadKnows, Settled, BeforePut, Discarding, Samples
-----------------------------------------------------------------------------
(* The sweeps.                                                              *)
LEMMA ListPendingSafe ==
    ASSUME SamplesInv, NEW c \in Sweepers, ListPending(c)
    PROVE  SamplesTypeOK' /\ Respects(c) /\ OwnKnows(c)'
  <1> USE DEF ListPending, At, Goto, SetBacklog, rows, stores, AwaitingCleanup
  <1>1. SamplesTypeOK'
    BY DEF SamplesInv, SamplesTypeOK, Calls, Steps
  <1>2. Respects(c)
    BY SamplesAssumption
       DEF SamplesInv, SamplesTypeOK, Respects, Settled, Failed, Discarding, Calls
  <1>3. pc'[c] = "sweepRows" /\ \A s \in backlog'[c] : s \in Samples /\ row[s] = "PendingCleanup"
    BY DEF SamplesInv, SamplesTypeOK, Calls
  <1>4. c \in Calls /\ c \notin Removals
    BY SamplesAssumption DEF Calls, Sweepers
  <1>5. \A s \in backlog'[c] : Doomed(s)'
    BY <1>2, <1>3, <1>4, RowsAreSettled, KnowledgeLasts DEF Doomed
  <1>6. c \in Uploads => UploadKnows(c)'
    BY <1>3 DEF SamplesInv, CallsKnow, UploadKnows, BeforePut, Discarding
  <1>7. OwnKnows(c)'
    BY <1>3, <1>4, <1>5, <1>6 DEF OwnKnows, SweepKnows, AnswerHolds
  <1> QED BY <1>1, <1>2, <1>7

(* The store is asked to delete only what the sweep's list vouches for.     *)
LEMMA SweepNextSafe ==
    ASSUME SamplesInv, NEW c \in Sweepers, SweepRow(c) \/ SweepLocator(c)
    PROVE  SamplesTypeOK' /\ Respects(c) /\ OwnKnows(c)'
  <1>1. PICK here \in {"sweepRows", "sweepLocators"}, s \in backlog[c] :
          /\ pc[c] = here
          /\ backlog' = [backlog EXCEPT ![c] = backlog[c] \ {s}]
          /\ \/ /\ objects' = objects \ {s} /\ sample' = [sample EXCEPT ![c] = s]
                /\ pc' = [pc EXCEPT ![c] =
                             IF here = "sweepRows" THEN "finalizeRow" ELSE "forget"]
             \/ objects' \in {objects, objects \ {s}} /\ UNCHANGED <<sample, pc>>
          /\ UNCHANGED <<rows, locators, sawActive, outcome>>
    BY DEF SweepRow, SweepLocator, SweepNext, At, Goto, Hand, SetBacklog, StoreDeletes,
           StoreRefuses
  <1>2. c \in Calls /\ c \notin Removals /\ SweepKnows(c)
    BY SamplesAssumption DEF Calls, Sweepers, SamplesInv, CallsKnow
  <1>3. s \in Samples /\ backlog[c] \subseteq Samples
    BY <1>1, <1>2 DEF SamplesInv, SamplesTypeOK
  <1>4. SamplesTypeOK'
    BY <1>1, <1>2, <1>3 DEF SamplesInv, SamplesTypeOK, rows, Steps
  <1>5. here = "sweepRows" => \A t \in backlog[c] : Doomed(t)
    BY <1>1, <1>2 DEF SweepKnows
  <1>6. here = "sweepLocators" => \A t \in backlog[c] : Failed(t)
    BY <1>1, <1>2 DEF SweepKnows
  <1>7. /\ pc'[c] \in {here, IF here = "sweepRows" THEN "finalizeRow" ELSE "forget"}
        /\ pc'[c] # here => sample'[c] = s /\ s \notin objects'
        /\ backlog'[c] \subseteq backlog[c]
    BY <1>1, <1>2 DEF SamplesInv, SamplesTypeOK
  <1>8. Respects(c)
    BY <1>1, <1>2, <1>5, <1>6, SamplesAssumption
       DEF SamplesInv, SamplesTypeOK, Respects, Settled, Failed, Discarding, rows
  <1>9. c \in Uploads => UploadKnows(c)'
    <2>1. c \in Uploads => UploadKnows(c) /\ c \notin objects'
      BY <1>1 DEF SamplesInv, CallsKnow, UploadKnows, BeforePut
    <2> QED BY <1>1, <1>7, <2>1 DEF UploadKnows, BeforePut, Discarding, rows
  <1>10. SweepKnows(c)'
    BY <1>1, <1>3, <1>5, <1>6, <1>7, <1>8, KnowledgeLasts, <1>2 DEF SweepKnows
  <1>11. OwnKnows(c)'
    BY <1>1, <1>2, <1>7, <1>9, <1>10 DEF OwnKnows, AnswerHolds
  <1> QED BY <1>4, <1>8, <1>11

LEMMA FinalizeRowSafe ==
    ASSUME SamplesInv, NEW c \in Sweepers, FinalizeRow(c)
    PROVE  SamplesTypeOK' /\ Respects(c) /\ OwnKnows(c)'
  <1> USE DEF FinalizeRow, At, Goto, Hand, SetRow, stores
  <1>1. c \in Calls /\ c \notin Removals /\ SweepKnows(c)
    BY SamplesAssumption DEF Calls, Sweepers, SamplesInv, CallsKnow
  <1>2. sample[c] \in Samples /\ Doomed(sample[c]) /\ sample[c] \notin objects
           /\ \A s \in backlog[c] : Doomed(s) /\ s \in Samples
    BY <1>1 DEF SweepKnows, SamplesInv, SamplesTypeOK
  <1>3. SamplesTypeOK'
    BY <1>1, <1>2 DEF SamplesInv, SamplesTypeOK, Steps
  <1>4. Respects(c)
    BY <1>1, <1>2, SamplesAssumption
       DEF SamplesInv, SamplesTypeOK, Respects, Settled, Failed, Discarding
  <1>5. pc'[c] = "sweepRows" /\ backlog'[c] = backlog[c]
    BY <1>1 DEF SamplesInv, SamplesTypeOK
  <1>6. c \in Uploads => UploadKnows(c)'
    <2>1. c \in Uploads => UploadKnows(c) /\ c \in Samples
      BY DEF SamplesInv, CallsKnow, Samples
    <2>2. c \in Uploads => row'[c] = "none"
      BY <2>1, <1>2 DEF SamplesInv, SamplesTypeOK, UploadKnows, BeforePut
    <2> QED BY <1>5, <2>1, <2>2 DEF UploadKnows, BeforePut, Discarding
  <1>7. OwnKnows(c)'
    BY <1>1, <1>2, <1>4, <1>5, <1>6, KnowledgeLasts DEF OwnKnows, SweepKnows, AnswerHolds
  <1> QED BY <1>3, <1>4, <1>7

LEMMA ListLocatorsSafe ==
    ASSUME SamplesInv, NEW c \in Sweepers, ListLocators(c)
    PROVE  SamplesTypeOK' /\ Respects(c) /\ OwnKnows(c)'
  <1> USE DEF ListLocators, At, Goto, SetBacklog, rows, stores
  <1>1. c \in Calls /\ c \notin Removals
    BY SamplesAssumption DEF Calls, Sweepers
  <1>2. SamplesTypeOK'
    BY <1>1 DEF SamplesInv, SamplesTypeOK, Steps
  <1>3. Respects(c)
    BY <1>1, SamplesAssumption
       DEF SamplesInv, SamplesTypeOK, Respects, Settled, Failed, Discarding
  <1>4. pc'[c] = "sweepLocators" /\ backlog'[c] = locators /\ locators \subseteq Samples
    BY <1>1 DEF SamplesInv, SamplesTypeOK
  <1>5. \A s \in backlog'[c] : Failed(s)'
    BY <1>1, <1>3, <1>4, KnowledgeLasts DEF SamplesInv, EvidenceIsSound
  <1>6. c \in Uploads => UploadKnows(c)'
    BY <1>4 DEF SamplesInv, CallsKnow, UploadKnows, BeforePut, Discarding
  <1>7. OwnKnows(c)'
    BY <1>1, <1>4, <1>5, <1>6 DEF OwnKnows, SweepKnows, AnswerHolds
  <1> QED BY <1>2, <1>3, <1>7

LEMMA ForgetSafe ==
    ASSUME SamplesInv, NEW c \in Sweepers, Forget(c)
    PROVE  SamplesTypeOK' /\ Respects(c) /\ OwnKnows(c)'
  <1> USE DEF Forget, At, Goto, Hand, rows
  <1>1. c \in Calls /\ c \notin Removals /\ SweepKnows(c)
    BY SamplesAssumption DEF Calls, Sweepers, SamplesInv, CallsKnow
  <1>2. sample[c] \notin objects /\ \A s \in backlog[c] : Failed(s) /\ s \in Samples
    BY <1>1 DEF SweepKnows, SamplesInv, SamplesTypeOK
  <1>3. SamplesTypeOK'
    BY <1>1 DEF SamplesInv, SamplesTypeOK, Steps
  <1>4. Respects(c)
    BY <1>1, <1>2, SamplesAssumption
       DEF SamplesInv, SamplesTypeOK, Respects, Settled, Failed, Discarding
  <1>5. pc'[c] = "sweepLocators" /\ backlog'[c] = backlog[c]
    BY <1>1 DEF SamplesInv, SamplesTypeOK
  <1>6. c \in Uploads => UploadKnows(c)'
    BY <1>5 DEF SamplesInv, CallsKnow, UploadKnows, BeforePut, Discarding
  <1>7. OwnKnows(c)'
    BY <1>1, <1>2, <1>4, <1>5, <1>6, KnowledgeLasts DEF OwnKnows, SweepKnows, AnswerHolds
  <1> QED BY <1>3, <1>4, <1>7

LEMMA AnswerListSafe ==
    ASSUME SamplesInv, NEW c \in Listings, AnswerList(c)
    PROVE  SamplesTypeOK' /\ Respects(c) /\ OwnKnows(c)'
  <1> USE DEF AnswerList, At, Goto, End, rows, stores, locals
  <1>1. c \in Calls /\ c \notin Removals /\ c \notin Uploads
    BY SamplesAssumption DEF Calls, Sweepers
  <1>2. SamplesTypeOK'
    BY <1>1 DEF SamplesInv, SamplesTypeOK, Steps, Outcomes
  <1>3. Respects(c)
    BY <1>1 DEF SamplesInv, SamplesTypeOK, Respects, Settled, Failed
  <1>4. pc'[c] = "done"
    BY <1>1 DEF SamplesInv, SamplesTypeOK
  <1> QED BY <1>1, <1>2, <1>3, <1>4 DEF OwnKnows, SweepKnows, AnswerHolds
-----------------------------------------------------------------------------
(* The uploads.                                                             *)
LEMMA PrecheckSafe ==
    ASSUME SamplesInv, NEW u \in Uploads, Precheck(u)
    PROVE  SamplesTypeOK' /\ Respects(u) /\ OwnKnows(u)'
  <1> USE DEF Precheck, At, Goto, End, rows, stores, locals
  <1>1. u \in Calls /\ u \notin Removals /\ UploadKnows(u)
    BY SamplesAssumption DEF Calls, Sweepers, SamplesInv, CallsKnow
  <1>2. SamplesTypeOK'
    BY <1>1 DEF SamplesInv, SamplesTypeOK, Steps, Outcomes
  <1>3. Respects(u)
    BY <1>1, SamplesAssumption
       DEF SamplesInv, SamplesTypeOK, Respects, Settled, Failed, Discarding
  <1>4. pc'[u] \in {"put", "done"}
    BY <1>1 DEF SamplesInv, SamplesTypeOK
  <1>5. UploadKnows(u)' /\ u \notin objects'
    BY <1>1, <1>4 DEF UploadKnows, BeforePut, Discarding
  <1> QED BY <1>1, <1>2, <1>3, <1>4, <1>5 DEF OwnKnows, SweepKnows, AnswerHolds

LEMMA PutSafe ==
    ASSUME SamplesInv, NEW u \in Uploads, Put(u)
    PROVE  SamplesTypeOK' /\ Respects(u) /\ OwnKnows(u)'
  <1> USE DEF Put, At, Goto, End, rows, stores, locals
  <1>1. u \in Calls /\ u \in Samples /\ u \notin Removals /\ UploadKnows(u)
    BY SamplesAssumption DEF Calls, Sweepers, Samples, SamplesInv, CallsKnow
  <1>2. SamplesTypeOK'
    BY <1>1 DEF SamplesInv, SamplesTypeOK, Steps, Outcomes
  <1>3. Respects(u)
    BY <1>1, SamplesAssumption
       DEF SamplesInv, SamplesTypeOK, Respects, Settled, Failed, Discarding
  <1>4. \/ pc'[u] = "create" /\ u \in objects'
        \/ pc'[u] = "done" /\ outcome'[u] = "STORAGE_FAILED"
    BY <1>1 DEF SamplesInv, SamplesTypeOK
  <1>5. UploadKnows(u)'
    BY <1>1, <1>4 DEF UploadKnows, BeforePut, Discarding
  <1> QED BY <1>1, <1>2, <1>3, <1>4, <1>5 DEF OwnKnows, SweepKnows, AnswerHolds

LEMMA CreateSampleSafe ==
    ASSUME SamplesInv, NEW u \in Uploads, CreateSample(u)
    PROVE  SamplesTypeOK' /\ Respects(u) /\ OwnKnows(u)'
  <1> USE DEF CreateSample, At, Goto, End, Pending, SetRow, stores, locals
  <1>1. u \in Calls /\ u \in Samples /\ u \notin Removals /\ UploadKnows(u)
    BY SamplesAssumption DEF Calls, Sweepers, Samples, SamplesInv, CallsKnow
  <1>2. row[u] = "none" /\ u \in objects
    BY <1>1 DEF UploadKnows
  <1>3. SamplesTypeOK'
    BY <1>1 DEF SamplesInv, SamplesTypeOK, Steps, Outcomes
  <1>4. Respects(u)
    BY <1>1, <1>2, SamplesAssumption
       DEF SamplesInv, SamplesTypeOK, Respects, Settled, Failed, Discarding
  <1>5. \/ pc'[u] = "done" /\ row'[u] = "Live"
        \/ pc'[u] = "discard" /\ row'[u] = "none" /\ outcome'[u] = "LIMIT_EXCEEDED"
        \/ pc'[u] = "discardAgain" /\ outcome'[u] = "FAILED"
    BY <1>1, <1>2 DEF SamplesInv, SamplesTypeOK
  <1>6. UploadKnows(u)'
    BY <1>5 DEF UploadKnows, BeforePut, Discarding, Failed, Settled
  <1> QED BY <1>1, <1>3, <1>4, <1>5, <1>6 DEF OwnKnows, SweepKnows, AnswerHolds

LEMMA DiscardSafe ==
    ASSUME SamplesInv, NEW u \in Uploads, Discard(u)
    PROVE  SamplesTypeOK' /\ Respects(u) /\ OwnKnows(u)'
  <1> USE DEF Discard, At, Goto, StoreDeletes, StoreRefuses, rows, locals
  <1>1. u \in Calls /\ u \in Samples /\ u \notin Removals /\ UploadKnows(u)
    BY SamplesAssumption DEF Calls, Sweepers, Samples, SamplesInv, CallsKnow
  <1>2. Failed(u)
    BY <1>1 DEF UploadKnows, Discarding
  <1>3. SamplesTypeOK'
    BY <1>1 DEF SamplesInv, SamplesTypeOK, Steps
  <1>4. \/ pc'[u] \in Discarding
        \/ pc'[u] = "done" /\ u \notin objects'
    BY <1>1 DEF SamplesInv, SamplesTypeOK, Discarding
  <1>5. Failed(u)'
    BY <1>2, <1>4 DEF Failed, Settled
  <1>6. Respects(u)
    BY <1>1, <1>2, <1>5, SamplesAssumption
       DEF SamplesInv, SamplesTypeOK, Respects, Failed
  <1>7. UploadKnows(u)'
    BY <1>4, <1>5 DEF UploadKnows, BeforePut, Discarding
  <1> QED BY <1>1, <1>3, <1>4, <1>6, <1>7 DEF OwnKnows, SweepKnows, AnswerHolds, Discarding

LEMMA RecordOrphanSafe ==
    ASSUME SamplesInv, NEW u \in Uploads, RecordOrphan(u)
    PROVE  SamplesTypeOK' /\ Respects(u) /\ OwnKnows(u)'
  <1> USE DEF RecordOrphan, At, Goto, End, KeepLocator, rows, locals
  <1>1. u \in Calls /\ u \in Samples /\ u \notin Removals /\ UploadKnows(u)
    BY SamplesAssumption DEF Calls, Sweepers, Samples, SamplesInv, CallsKnow
  <1>2. Failed(u)
    BY <1>1 DEF UploadKnows, Discarding
  <1>3. SamplesTypeOK'
    BY <1>1 DEF SamplesInv, SamplesTypeOK, Steps, Outcomes
  <1>4. /\ \/ pc'[u] = "discardAgain"
           \/ pc'[u] = "done" /\ (u \in locators' \/ outcome'[u] = "UNRECORDED")
        /\ outcome'[u] \in {outcome[u], "UNRECORDED"}
    BY <1>1 DEF SamplesInv, SamplesTypeOK
  <1>5. Failed(u)'
    BY <1>2, <1>4 DEF Failed, Settled, Discarding
  <1>6. Respects(u)
    BY <1>1, <1>5, SamplesAssumption DEF SamplesInv, SamplesTypeOK, Respects, Failed
  <1>7. UploadKnows(u)'
    BY <1>4, <1>5 DEF UploadKnows, BeforePut, Discarding
  <1> QED BY <1>1, <1>3, <1>4, <1>6, <1>7 DEF OwnKnows, SweepKnows, AnswerHolds
-----------------------------------------------------------------------------
(* The removals.                                                            *)
LEMMA RemovalReads ==
    ASSUME SamplesInv, NEW r \in Removals,
           BeginRemoval(r) \/ FindEvidence(r) \/ FindSample(r) \/ CountQualifying(r)
    PROVE  SamplesTypeOK' /\ Respects(r) /\ OwnKnows(r)'
  <1> USE DEF BeginRemoval, FindEvidence, FindSample, CountQualifying, At, Goto, End, Hand,
              rows, stores, locals
  <1>1. r \in Calls /\ r \notin Sweepers /\ r \notin Uploads /\ RemovalKnows(r)
    BY SamplesAssumption DEF Calls, Sweepers, SamplesInv, CallsKnow
  <1>2. SamplesTypeOK'
    BY <1>1 DEF SamplesInv, SamplesTypeOK, Steps, Outcomes
  <1>3. Respects(r)
    BY <1>1 DEF SamplesInv, SamplesTypeOK, Respects, Settled, Failed
  <1>4. sample'[r] \in Samples
    BY <1>1 DEF SamplesInv, SamplesTypeOK, RemovalKnows, Known
  <1>5. /\ pc'[r] \in {"evidence", "resume", "find", "count", "final", "mark", "done"}
        /\ pc'[r] = "resume" => sample'[r] \in pausedFor'
        /\ pc'[r] = "done" => outcome'[r] # "REMOVED"
    BY <1>1 DEF SamplesInv, SamplesTypeOK
  <1>6. pc'[r] \in {"count", "final", "mark"} => Settled(sample'[r])
    <2>1. CASE FindSample(r)
      BY <2>1, <1>1, <1>4, RowsAreSettled DEF SamplesInv, SamplesTypeOK
    <2>2. CASE CountQualifying(r)
      BY <2>2, <1>1 DEF RemovalKnows
    <2> QED BY <1>1, <2>1, <2>2 DEF SamplesInv, SamplesTypeOK
  <1>7. pc'[r] \in {"count", "final", "mark"} => Settled(sample[r])'
    BY <1>1, <1>3, <1>4, <1>6, KnowledgeLasts DEF Settled
  <1> QED
    BY <1>1, <1>2, <1>3, <1>4, <1>5, <1>7 DEF OwnKnows, RemovalKnows, AnswerHolds, Known

LEMMA ResumeFinalRemovalSafe ==
    ASSUME SamplesInv, NEW r \in Removals, ResumeFinalRemoval(r)
    PROVE  SamplesTypeOK' /\ Respects(r) /\ OwnKnows(r)'
  <1> USE DEF ResumeFinalRemoval, At, Goto, End, rows, stores, locals
  <1>1. r \in Calls /\ r \notin Sweepers /\ r \notin Uploads /\ RemovalKnows(r)
    BY SamplesAssumption DEF Calls, Sweepers, SamplesInv, CallsKnow
  <1>2. /\ sample[r] \in Samples /\ Doomed(sample[r])
        /\ row[sample[r]] = "none" => sample[r] \notin objects
    BY <1>1 DEF RemovalKnows, Known, SamplesInv, EvidenceIsSound
  <1>3. SamplesTypeOK'
    BY <1>1 DEF SamplesInv, SamplesTypeOK, Steps, Outcomes
  <1>4. Respects(r)
    BY <1>1 DEF SamplesInv, SamplesTypeOK, Respects, Settled, Failed
  <1>5. row[sample[r]] \in {"none", "PendingCleanup"}
    BY <1>2 DEF SamplesInv, SamplesTypeOK, Doomed
  <1>6. pc'[r] = "delete" \/ (pc'[r] = "done" /\ row[sample[r]] = "none")
    BY <1>1, <1>5 DEF SamplesInv, SamplesTypeOK
  <1>7. Doomed(sample[r])'
    BY <1>1, <1>2, <1>4, KnowledgeLasts DEF Doomed, Settled
  <1> QED
    BY <1>1, <1>2, <1>3, <1>4, <1>6, <1>7
       DEF OwnKnows, RemovalKnows, AnswerHolds, Known, Doomed

LEMMA RemoveFinalSampleSafe ==
    ASSUME SamplesInv, NEW r \in Removals, RemoveFinalSample(r)
    PROVE  SamplesTypeOK' /\ Respects(r) /\ OwnKnows(r)'
  <1> USE DEF RemoveFinalSample, At, Goto, End, SetRow, rows, stores, locals
  <1>1. r \in Calls /\ r \notin Sweepers /\ r \notin Uploads /\ RemovalKnows(r)
    BY SamplesAssumption DEF Calls, Sweepers, SamplesInv, CallsKnow
  <1>2. sample[r] \in Samples /\ Settled(sample[r])
    BY <1>1 DEF RemovalKnows, Known
  <1>3. LastQualifying(sample[r]) => row[sample[r]] = "Live"
    BY <1>2 DEF LastQualifying, Qualifying, Live
  <1>4. SamplesTypeOK'
    BY <1>1, <1>2 DEF SamplesInv, SamplesTypeOK, Steps, Outcomes
  <1>5. Settled(sample[r])'
    <2>1. CASE sample[r] \in Stored
      BY <2>1 DEF Settled
    <2>2. CASE sample[r] \in Uploads
      BY <1>1, <1>2, <2>2 DEF SamplesInv, SamplesTypeOK, Settled, Calls, Sweepers
    <2> QED BY <1>2, <2>1, <2>2 DEF Samples
  <1>6. Respects(r)
    BY <1>1, <1>2, <1>3, <1>5
       DEF SamplesInv, SamplesTypeOK, Respects, Settled, Failed, Doomed
  <1>7. \/ pc'[r] = "delete" /\ row'[sample[r]] # "Live"
        \/ pc'[r] = "mark"
        \/ pc'[r] = "done" /\ outcome'[r] = "FAILED"
    BY <1>1, <1>2 DEF SamplesInv, SamplesTypeOK, EvidenceIsSound, Doomed
  <1> QED
    BY <1>1, <1>2, <1>4, <1>5, <1>6, <1>7
       DEF OwnKnows, RemovalKnows, AnswerHolds, Known, Doomed

LEMMA MarkPendingCleanupSafe ==
    ASSUME SamplesInv, NEW r \in Removals, MarkPendingCleanup(r)
    PROVE  SamplesTypeOK' /\ Respects(r) /\ OwnKnows(r)'
  <1> USE DEF MarkPendingCleanup, At, Goto, End, SetRow, rows, stores, locals
  <1>1. r \in Calls /\ r \notin Sweepers /\ r \notin Uploads /\ RemovalKnows(r)
    BY SamplesAssumption DEF Calls, Sweepers, SamplesInv, CallsKnow
  <1>2. sample[r] \in Samples /\ Settled(sample[r])
    BY <1>1 DEF RemovalKnows, Known
  <1>3. SamplesTypeOK'
    BY <1>1, <1>2 DEF SamplesInv, SamplesTypeOK, Steps, Outcomes
  <1>4. Respects(r)
    BY <1>1, <1>2 DEF SamplesInv, SamplesTypeOK, Respects, Settled, Failed
  <1>5. \/ pc'[r] = "delete" /\ row'[sample[r]] # "Live"
        \/ pc'[r] = "done" /\ outcome'[r] = "FAILED"
    BY <1>1, <1>2 DEF SamplesInv, SamplesTypeOK
  <1>6. Settled(sample[r])'
    BY <1>1, <1>2, <1>4, KnowledgeLasts DEF Settled
  <1> QED
    BY <1>1, <1>2, <1>3, <1>4, <1>5, <1>6
       DEF OwnKnows, RemovalKnows, AnswerHolds, Known, Doomed

LEMMA DeleteObjectSafe ==
    ASSUME SamplesInv, NEW r \in Removals, DeleteObject(r)
    PROVE  SamplesTypeOK' /\ Respects(r) /\ OwnKnows(r)'
  <1> USE DEF DeleteObject, At, Goto, End, StoreDeletes, StoreRefuses, rows, stores, locals
  <1>1. r \in Calls /\ r \notin Sweepers /\ r \notin Uploads /\ RemovalKnows(r)
    BY SamplesAssumption DEF Calls, Sweepers, SamplesInv, CallsKnow
  <1>2. sample[r] \in Samples /\ Doomed(sample[r])
    BY <1>1 DEF RemovalKnows, Known
  <1>3. SamplesTypeOK'
    BY <1>1 DEF SamplesInv, SamplesTypeOK, Steps, Outcomes
  <1>4. Respects(r)
    BY <1>1, <1>2 DEF SamplesInv, SamplesTypeOK, Respects, Settled, Failed
  <1>5. \/ pc'[r] = "finalize" /\ sample[r] \notin objects'
        \/ pc'[r] = "done" /\ outcome'[r] = "STORAGE_FAILED"
    BY <1>1 DEF SamplesInv, SamplesTypeOK
  <1>6. Doomed(sample[r])'
    BY <1>1, <1>2, <1>4, KnowledgeLasts DEF Doomed, Settled
  <1> QED
    BY <1>1, <1>2, <1>3, <1>4, <1>5, <1>6
       DEF OwnKnows, RemovalKnows, AnswerHolds, Known, Doomed

LEMMA FinalizeRemovalSafe ==
    ASSUME SamplesInv, NEW r \in Removals, FinalizeRemoval(r)
    PROVE  SamplesTypeOK' /\ Respects(r) /\ OwnKnows(r)'
  <1> USE DEF FinalizeRemoval, At, Goto, End, SetRow, rows, stores, locals
  <1>1. r \in Calls /\ r \notin Sweepers /\ r \notin Uploads /\ RemovalKnows(r)
    BY SamplesAssumption DEF Calls, Sweepers, SamplesInv, CallsKnow
  <1>2. sample[r] \in Samples /\ Doomed(sample[r]) /\ sample[r] \notin objects
    BY <1>1 DEF RemovalKnows, Known
  <1>3. SamplesTypeOK'
    BY <1>1, <1>2 DEF SamplesInv, SamplesTypeOK, Steps, Outcomes
  <1>4. Respects(r)
    BY <1>1, <1>2 DEF SamplesInv, SamplesTypeOK, Respects, Settled, Failed
  <1>5. \/ pc'[r] = "done" /\ row'[sample[r]] = "none"
        \/ pc'[r] = "done" /\ outcome'[r] = "FAILED"
    BY <1>1, <1>2 DEF SamplesInv, SamplesTypeOK
  <1>6. Settled(sample[r])'
    BY <1>1, <1>2, <1>4, KnowledgeLasts DEF Settled, Doomed
  <1> QED
    BY <1>1, <1>2, <1>3, <1>4, <1>5, <1>6
       DEF OwnKnows, RemovalKnows, AnswerHolds, Known

(* A lost process takes what its call knew with it.                         *)
LEMMA LoseSafe ==
    ASSUME SamplesInv, NEW c \in Calls, Lose(c)
    PROVE  SamplesTypeOK' /\ Respects(c) /\ OwnKnows(c)'
  <1> USE DEF Lose, Goto, rows, stores, locals
  <1>1. SamplesTypeOK'
    BY DEF SamplesInv, SamplesTypeOK, Steps
  <1>2. Respects(c)
    BY SamplesAssumption
       DEF SamplesInv, SamplesTypeOK, Respects, Settled, Failed, Discarding
  <1>3. pc'[c] = "lost"
    BY DEF SamplesInv, SamplesTypeOK
  <1>4. c \in Uploads => UploadKnows(c)'
    BY <1>3 DEF UploadKnows, BeforePut, Discarding
  <1> QED
    BY <1>1, <1>2, <1>3, <1>4 DEF OwnKnows, SweepKnows, RemovalKnows, AnswerHolds, Known
-----------------------------------------------------------------------------
(* Every step of the calls is one of the steps above.                       *)
LEMMA CallStepsSafe ==
    ASSUME SamplesInv, SamplesNext, ~Activate, ~Pause
    PROVE  \E c \in Calls : SamplesTypeOK' /\ Respects(c) /\ OwnKnows(c)'
  <1>1. ASSUME NEW c \in Sweepers, Sweep(c)
        PROVE  SamplesTypeOK' /\ Respects(c) /\ OwnKnows(c)'
    BY <1>1, ListPendingSafe, SweepNextSafe, FinalizeRowSafe, ListLocatorsSafe, ForgetSafe
       DEF Sweep
  <1>2. CASE \E u \in Uploads : Upload(u)
    <2>1. PICK u \in Uploads : Upload(u)
      BY <1>2
    <2>2. u \in Sweepers /\ u \in Calls
      BY DEF Sweepers, Calls
    <2> QED
      BY <1>1, <2>1, <2>2, PrecheckSafe, PutSafe, CreateSampleSafe, DiscardSafe,
         RecordOrphanSafe DEF Upload
  <1>3. CASE \E l \in Listings : Sweep(l) \/ AnswerList(l)
    BY <1>1, <1>3, AnswerListSafe DEF Sweepers, Calls
  <1>4. CASE \E r \in Removals : Remove(r)
    <2>1. PICK r \in Removals : Remove(r)
      BY <1>4
    <2>2. r \in Calls
      BY DEF Calls
    <2> QED
      BY <2>1, <2>2, RemovalReads, ResumeFinalRemovalSafe, RemoveFinalSampleSafe,
         MarkPendingCleanupSafe, DeleteObjectSafe, FinalizeRemovalSafe DEF Remove
  <1>5. CASE \E c \in Calls : Lose(c)
    BY <1>5, LoseSafe
  <1> QED BY <1>2, <1>3, <1>4, <1>5 DEF SamplesNext

LEMMA SamplesNextInv == SamplesInv /\ [SamplesNext]_vars => SamplesInv'
  <1> SUFFICES ASSUME SamplesInv, [SamplesNext]_vars PROVE SamplesInv'
    OBVIOUS
  <1>1. CASE UNCHANGED <<row, pausedFor, stores, pc, locals, outcome>>
             /\ offering' \in {offering, "Active", "Paused"}
    <2> USE <1>1 DEF stores, locals
    <2>1. SamplesTypeOK'
      BY DEF SamplesInv, SamplesTypeOK
    <2>2. CallsKnow'
      BY DEF SamplesInv, CallsKnow, UploadKnows, SweepKnows, RemovalKnows, Failed, Doomed,
             Settled
    <2>3. EvidenceIsSound'
      BY DEF SamplesInv, EvidenceIsSound, Failed, Doomed, Settled
    <2>4. LiveSamplesHaveObjects' /\ ObjectsAreTracked' /\ RemovedMeansGone'
      BY DEF SamplesInv, LiveSamplesHaveObjects, ObjectsAreTracked, RemovedMeansGone, Live, At
    <2> QED BY <2>1, <2>2, <2>3, <2>4 DEF SamplesInv
  <1>2. CASE Activate \/ Pause \/ UNCHANGED vars
    BY <1>1, <1>2 DEF Activate, Pause, vars, rows
  <1>3. CASE SamplesNext /\ ~Activate /\ ~Pause
    BY <1>3, CallStepsSafe, MoverKeepsInv
  <1> QED BY <1>2, <1>3

(* The invariant holds in every reachable state.                            *)
THEOREM SamplesInvariant == SamplesSpec => []SamplesInv
  BY SamplesInitInv, SamplesNextInv, PTL DEF SamplesSpec

(* Type correctness of the offering's samples, the store and the calls.     *)
THEOREM SamplesTypeCorrect == SamplesSpec => []SamplesTypeOK
  <1>1. SamplesInv => SamplesTypeOK
    BY DEF SamplesInv
  <1> QED BY <1>1, SamplesInvariant, PTL

(* No removal, sweep or discard deletes the object of a sample whose upload *)
(* was answered with success, and none is inserted without one.             *)
THEOREM LiveSamplesArePlayable == SamplesSpec => []LiveSamplesHaveObjects
  <1>1. SamplesInv => LiveSamplesHaveObjects
    BY DEF SamplesInv
  <1> QED BY <1>1, SamplesInvariant, PTL

(* cleanupOrphanedStorage, run once or twice, leaves no object behind that  *)
(* nothing leads to, except where its own locator write failed.             *)
THEOREM ObjectsStayTracked == SamplesSpec => []ObjectsAreTracked
  <1>1. SamplesInv => ObjectsAreTracked
    BY DEF SamplesInv
  <1> QED BY <1>1, SamplesInvariant, PTL

(* A removal that was answered with success leaves neither row nor object,  *)
(* then and ever after.                                                     *)
THEOREM RemovalsAreTrue == SamplesSpec => []RemovedMeansGone
  <1>1. SamplesInv => RemovedMeansGone
    BY DEF SamplesInv
  <1> QED BY <1>1, SamplesInvariant, PTL

(* No step of any call deletes the row of an object that still exists.      *)
THEOREM RowsLastAsLongAsObjects == SamplesSpec => RowsOutliveObjects
  <1> DEFINE Kept == \A s \in Samples : row[s] # "none" /\ row'[s] = "none" => s \notin objects
  <1>1. SamplesInv /\ [SamplesNext]_vars => [Kept]_vars
    <2> SUFFICES ASSUME SamplesInv, SamplesNext PROVE Kept
      OBVIOUS
    <2>1. CASE Activate \/ Pause
      BY <2>1 DEF Activate, Pause
    <2>2. CASE ~Activate /\ ~Pause
      BY <2>2, CallStepsSafe DEF Respects
    <2> QED BY <2>1, <2>2
  <1> QED BY <1>1, SamplesInvariant, PTL DEF SamplesSpec, RowsOutliveObjects

(* Only the insert makes a row Live, and only into a free place.            *)
LEMMA OnlyRoomIsFilled ==
    ASSUME SamplesInv, SamplesNext, ~HasRoom
    PROVE  Live' \subseteq Live
  <1> DEFINE Shrinks == \/ UNCHANGED row
                        \/ \E s : SetRow(s, "none") \/ SetRow(s, "PendingCleanup")
  <1>1. ASSUME Activate \/ Pause \/ \E c \in Calls : Lose(c) PROVE Shrinks
    BY <1>1 DEF Activate, Pause, Lose, rows
  <1>2. ASSUME NEW c, Sweep(c) PROVE Shrinks
    BY <1>2 DEF Sweep, ListPending, SweepRow, SweepLocator, SweepNext, FinalizeRow,
                ListLocators, Forget, rows
  <1>3. ASSUME NEW u, Upload(u) PROVE Shrinks
    BY <1>2, <1>3 DEF Upload, Precheck, Put, CreateSample, Discard, RecordOrphan, rows
  <1>4. ASSUME NEW l, AnswerList(l) PROVE Shrinks
    BY <1>4 DEF AnswerList, rows
  <1>5. ASSUME NEW r, Remove(r) PROVE Shrinks
    BY <1>5 DEF Remove, BeginRemoval, FindEvidence, ResumeFinalRemoval, FindSample,
                CountQualifying, RemoveFinalSample, MarkPendingCleanup, DeleteObject,
                FinalizeRemoval, rows
  <1>6. Shrinks
    BY <1>1, <1>2, <1>3, <1>4, <1>5 DEF SamplesNext
  <1>7. CASE UNCHANGED row
    BY <1>7 DEF Live
  <1>8. ASSUME NEW s, SetRow(s, "none") \/ SetRow(s, "PendingCleanup")
        PROVE  Live' \subseteq Live
    BY <1>8 DEF SetRow, Live, SamplesInv, SamplesTypeOK
  <1> QED BY <1>6, <1>7, <1>8

(* Only the final removal writes an evidence row.                           *)
LEMMA OnlyFinalRemovalsPause ==
    ASSUME SamplesNext, pausedFor' # pausedFor
    PROVE  \E r \in Removals : RemoveFinalSample(r)
  <1>1. ~Activate /\ ~Pause /\ ~\E c \in Calls : Lose(c)
    BY DEF Activate, Pause, Lose, rows
  <1>2. ASSUME NEW c, Sweep(c) PROVE UNCHANGED pausedFor
    BY <1>2 DEF Sweep, ListPending, SweepRow, SweepLocator, SweepNext, FinalizeRow,
                ListLocators, Forget, rows
  <1>3. ASSUME NEW u, Upload(u) PROVE UNCHANGED pausedFor
    BY <1>2, <1>3 DEF Upload, Precheck, Put, CreateSample, Discard, RecordOrphan, rows
  <1>4. ASSUME NEW l, AnswerList(l) PROVE UNCHANGED pausedFor
    BY <1>4 DEF AnswerList, rows
  <1>5. PICK r \in Removals : Remove(r)
    BY <1>1, <1>2, <1>3, <1>4 DEF SamplesNext
  <1> QED
    BY <1>5 DEF Remove, BeginRemoval, FindEvidence, ResumeFinalRemoval, FindSample,
                CountQualifying, MarkPendingCleanup, DeleteObject, FinalizeRemoval, rows

(* Uploads that passed the preflight check together do not exceed the cap,  *)
(* because the insert counts again under the lock.                          *)
THEOREM CapIsNeverExceeded == SamplesSpec => []CapHolds
  <1> DEFINE Capped == IsFiniteSet(Live) /\ CapHolds
  <1>1. SamplesInit => Capped
    <2> SUFFICES ASSUME SamplesInit PROVE Capped
      OBVIOUS
    <2>1. Live = Stored
      BY DEF SamplesInit, Live, Samples
    <2> QED BY <2>1, SamplesAssumption DEF CapHolds
  <1>2. SamplesInv /\ Capped /\ [SamplesNext]_vars => Capped'
    <2> SUFFICES ASSUME SamplesInv, Capped, [SamplesNext]_vars PROVE Capped'
      OBVIOUS
    <2>1. Cardinality(Live) \in Nat /\ MaxSamples \in Nat
      BY FS_CardinalityType, SamplesAssumption
    <2>2. CASE Live' \subseteq Live
      <3>1. IsFiniteSet(Live') /\ Cardinality(Live') <= Cardinality(Live)
        BY <2>2, FS_Subset
      <3>2. Cardinality(Live') \in Nat
        BY <3>1, FS_CardinalityType
      <3> QED BY <2>1, <3>1, <3>2 DEF CapHolds
    <2>3. CASE ~(Live' \subseteq Live)
      <3>1. row' # row
        BY <2>3 DEF Live
      <3>2. SamplesNext /\ ~Activate /\ ~Pause
        BY <3>1 DEF Activate, Pause, vars, rows
      <3>3. PICK c \in Calls : Respects(c)
        BY <3>2, CallStepsSafe
      <3>4. Live' \subseteq Live \cup {c}
        BY <3>3 DEF Respects, Live
      <3>5. HasRoom
        BY <2>3, <3>2, OnlyRoomIsFilled
      <3>6. IsFiniteSet(Live \cup {c})
               /\ Cardinality(Live \cup {c}) <= Cardinality(Live) + 1
        <4>1. IsFiniteSet(Live)
          OBVIOUS
        <4>2. /\ IsFiniteSet(Live \cup {c})
              /\ Cardinality(Live \cup {c}) =
                    IF c \in Live THEN Cardinality(Live) ELSE Cardinality(Live) + 1
          BY <4>1, FS_AddElement, Zenon
        <4> QED BY <2>1, <4>2
      <3>7. IsFiniteSet(Live') /\ Cardinality(Live') <= Cardinality(Live \cup {c})
        BY <3>4, <3>6, FS_Subset
      <3>8. Cardinality(Live') \in Nat /\ Cardinality(Live \cup {c}) \in Nat
        BY <3>6, <3>7, FS_CardinalityType
      <3> QED BY <2>1, <3>5, <3>6, <3>7, <3>8 DEF CapHolds, HasRoom
    <2> QED BY <2>2, <2>3
  <1> QED BY <1>1, <1>2, SamplesInvariant, PTL DEF SamplesSpec

(* removeFinalSamplePendingCleanup pauses the offering only when, at that   *)
(* moment, it takes the last qualifying sample of an Active one.            *)
THEOREM PausesAreJustified == SamplesSpec => PausesOnlyForTheLast
  <1> DEFINE Justified ==
          pausedFor' # pausedFor =>
              offering = "Active" /\ offering' = "Paused" /\ Qualifying # {}
                  /\ Qualifying' = {}
  <1>1. SamplesInv /\ [SamplesNext]_vars => [Justified]_vars
    <2> SUFFICES ASSUME SamplesInv, SamplesNext, pausedFor' # pausedFor
                 PROVE  offering = "Active" /\ offering' = "Paused" /\ Qualifying # {}
                            /\ Qualifying' = {}
      OBVIOUS
    <2>1. PICK r \in Removals : RemoveFinalSample(r)
      BY OnlyFinalRemovalsPause
    <2>2. /\ LastQualifying(sample[r]) /\ offering' = "Paused"
          /\ SetRow(sample[r], "PendingCleanup")
      BY <2>1 DEF RemoveFinalSample, rows
    <2>3. row' = [row EXCEPT ![sample[r]] = "PendingCleanup"] /\ DOMAIN row = Samples
      BY <2>2 DEF SetRow, SamplesInv, SamplesTypeOK
    <2>4. Qualifying' = {}
      BY <2>2, <2>3 DEF LastQualifying, Qualifying, Live, SamplesInv, SamplesTypeOK
    <2> QED BY <2>2, <2>4 DEF LastQualifying
  <1> QED BY <1>1, SamplesInvariant, PTL DEF SamplesSpec, PausesOnlyForTheLast
-----------------------------------------------------------------------------
(* The shelf.  A step of a call moves at most one sample, the one it has in *)
(* hand or the one its upload makes; what the invariant says the call knows *)
(* of that sample is what the shelf asks for.                               *)
ShelfStep == [Shelf!ShelfNext]_(Shelf!shelfVars)

LEMMA ShelfContents ==
    ASSUME SamplesInv
    PROVE  Shelf!OnShelf = Live /\ Shelf!Eligible = Qualifying
  <1>1. \A s \in Samples : PlaceOf(s) \in {"shown", "stray"} <=> row[s] = "Live"
    BY DEF PlaceOf, SamplesInv, SamplesTypeOK
  <1>2. Shelf!OnShelf = Live
    BY <1>1 DEF Shelf!OnShelf, Live
  <1> QED BY <1>2 DEF Shelf!Eligible, Qualifying

(* The shelf counts as the services do.                                     *)
LEMMA SameCardinality ==
    ASSUME NEW S
    PROVE  Shelf!Cardinality(S) = Cardinality(S)
  BY DEF Shelf!Cardinality, Cardinality

LEMMA PlaceKept ==
    ASSUME NEW c \in Calls, Respects(c), NEW s \in Samples, row'[s] = row[s],
           s = c /\ c \in Uploads => Settled(c)' = Settled(c) /\ outcome'[c] = outcome[c]
    PROVE  PlaceOf(s)' = PlaceOf(s)
  <1>1. CASE s = c /\ c \in Uploads
    BY <1>1 DEF PlaceOf
  <1>2. CASE s # c /\ s \in Uploads
    <2>1. s \in Calls \ {c}
      BY <1>2 DEF Calls, Sweepers
    <2>2. pc'[s] = pc[s] /\ outcome'[s] = outcome[s]
      BY <2>1 DEF Respects
    <2> QED BY <2>2 DEF PlaceOf, Settled
  <1>3. CASE s \notin Uploads
    BY <1>3 DEF PlaceOf, Settled, Samples
  <1> QED BY <1>1, <1>2, <1>3

LEMMA MoveOf ==
    ASSUME NEW s \in Samples, NEW there, PlaceOf(s)' = there,
           \A t \in Samples \ {s} : PlaceOf(t)' = PlaceOf(t)
    PROVE  Shelf!Move(s, there)
  BY DEF Shelf!Move

LEMMA AllKept ==
    ASSUME \A s \in Samples : PlaceOf(s)' = PlaceOf(s)
    PROVE  UNCHANGED [s \in Samples |-> PlaceOf(s)]
  OBVIOUS

(* Bytes are dropped behind the shelf only.                                 *)
LEMMA DropMaps ==
    ASSUME SamplesInv, NEW s \in Samples, Doomed(s) \/ Failed(s), UNCHANGED offering,
           \A t \in Samples : PlaceOf(t)' = PlaceOf(t),
           objects' \in {objects, objects \ {s}}
    PROVE  ShelfStep
  <1>1. PlaceOf(s) \in {"stray", "leaving", "gone"}
    BY DEF PlaceOf, Doomed, Failed, SamplesInv, SamplesTypeOK
  <1>2. UNCHANGED [t \in Samples |-> PlaceOf(t)]
    BY AllKept
  <1>3. CASE objects' = objects
    BY <1>2, <1>3 DEF ShelfStep, Shelf!shelfVars
  <1>4. CASE objects' = objects \ {s}
    <2>1. Shelf!Drop(s)
      BY <1>1, <1>2, <1>4 DEF Shelf!Drop
    <2> QED BY <2>1 DEF ShelfStep, Shelf!ShelfNext
  <1> QED BY <1>3, <1>4

(* A row is deleted behind the shelf, and its object before it.             *)
LEMMA VanishMaps ==
    ASSUME SamplesInv, NEW c \in Calls, Respects(c), NEW s \in Samples, Doomed(s),
           s \notin objects, UNCHANGED <<offering, objects>>,
           SetRow(s, "none") \/ UNCHANGED row,
           c \in Uploads => Settled(c)' = Settled(c) /\ outcome'[c] = outcome[c]
    PROVE  ShelfStep
  <1>1. row \in [Samples -> {"none", "Live", "PendingCleanup"}] /\ row[s] # "Live"
    BY DEF SamplesInv, SamplesTypeOK, Doomed
  <1>3. \A t \in Samples \ {s} : PlaceOf(t)' = PlaceOf(t)
    <2>1. \A t \in Samples \ {s} : row'[t] = row[t]
      BY <1>1 DEF SetRow
    <2> QED BY <2>1, PlaceKept
  <1>4. CASE row'[s] = row[s]
    <2>1. \A t \in Samples : PlaceOf(t)' = PlaceOf(t)
      BY <1>3, <1>4, PlaceKept
    <2> QED BY <2>1, AllKept DEF ShelfStep, Shelf!shelfVars
  <1>5. CASE row'[s] # row[s]
    <2>1. row[s] = "PendingCleanup" /\ row'[s] = "none"
      BY <1>1, <1>5 DEF SetRow
    <2>2. PlaceOf(s) = "leaving" /\ PlaceOf(s)' = "gone"
      BY <2>1, KnowledgeLasts DEF PlaceOf, Doomed
    <2>3. Shelf!Move(s, "gone")
      BY <1>3, <2>2, MoveOf
    <2>4. Shelf!Vanish(s)
      BY <2>2, <2>3 DEF Shelf!Vanish
    <2> QED BY <2>4 DEF ShelfStep, Shelf!ShelfNext
  <1> QED BY <1>4, <1>5

(* A step that writes no row and no object, and does not settle an upload.  *)
LEMMA QuietMaps ==
    ASSUME NEW c \in Calls, Respects(c), UNCHANGED <<offering, row, objects>>,
           c \in Uploads => PlaceOf(c)' = PlaceOf(c)
    PROVE  ShelfStep
  <1>1. \A s \in Samples : s # c \/ c \notin Uploads => PlaceOf(s)' = PlaceOf(s)
    BY PlaceKept
  <1> QED BY <1>1, AllKept DEF ShelfStep, Shelf!shelfVars
-----------------------------------------------------------------------------
LEMMA SweepMaps ==
    ASSUME SamplesInv, NEW c \in Sweepers, Sweep(c)
    PROVE  ShelfStep
  <1>1. c \in Calls /\ SweepKnows(c)
           /\ pc \in [Calls -> Steps] /\ (c \in Uploads => c \notin Stored)
    BY SamplesAssumption
       DEF Calls, Sweepers, Samples, SamplesInv, CallsKnow, SamplesTypeOK
  <1>2. Respects(c)
    BY ListPendingSafe, SweepNextSafe, FinalizeRowSafe, ListLocatorsSafe, ForgetSafe DEF Sweep
  <1>3. /\ Settled(c)' = Settled(c)
        /\ outcome' = outcome
    BY <1>1 DEF Sweep, ListPending, SweepRow, SweepLocator, SweepNext, FinalizeRow,
                ListLocators, Forget, At, Goto, Settled, Discarding
  <1>4. CASE ListPending(c) \/ ListLocators(c) \/ Forget(c)
    <2>1. UNCHANGED <<offering, row, objects>>
      BY <1>4 DEF ListPending, ListLocators, Forget, rows, stores
    <2>2. c \in Uploads => PlaceOf(c)' = PlaceOf(c)
      BY <1>3, <2>1 DEF PlaceOf
    <2> QED BY <1>1, <1>2, <2>1, <2>2, QuietMaps
  <1>5. CASE SweepRow(c) \/ SweepLocator(c)
    <2>1. PICK s \in backlog[c] : objects' \in {objects, objects \ {s}}
      BY <1>5 DEF SweepRow, SweepLocator, SweepNext, StoreDeletes, StoreRefuses
    <2>2. s \in Samples /\ (Doomed(s) \/ Failed(s))
      BY <1>1, <1>5, <2>1
         DEF SweepRow, SweepLocator, SweepNext, At, SweepKnows, SamplesInv, SamplesTypeOK
    <2>3. UNCHANGED <<offering, row>>
      BY <1>5 DEF SweepRow, SweepLocator, SweepNext, rows
    <2>4. \A t \in Samples : PlaceOf(t)' = PlaceOf(t)
      BY <1>1, <1>2, <1>3, <2>3, PlaceKept
    <2> QED BY <2>1, <2>2, <2>3, <2>4, DropMaps
  <1>6. CASE FinalizeRow(c)
    <2>1. sample[c] \in Samples /\ Doomed(sample[c]) /\ sample[c] \notin objects
      BY <1>1, <1>6 DEF FinalizeRow, At, SweepKnows
    <2>2. UNCHANGED <<offering, objects>> /\ (SetRow(sample[c], "none") \/ UNCHANGED row)
      BY <1>6 DEF FinalizeRow, stores
    <2> QED BY <1>1, <1>2, <1>3, <2>1, <2>2, VanishMaps
  <1> QED BY <1>4, <1>5, <1>6 DEF Sweep

(* An upload that ends before its insert gives its sample up, whatever the  *)
(* put left behind.                                                         *)
LEMMA GiveUpMaps ==
    ASSUME SamplesInv, NEW u \in Uploads, Respects(u), row[u] = "none", ~Settled(u),
           Settled(u)', UNCHANGED <<offering, row>>, objects' \in {objects, objects \cup {u}}
    PROVE  ShelfStep
  <1>1. u \in Samples /\ u \in Calls
    BY DEF Samples, Calls, Sweepers
  <1>2. PlaceOf(u) = "coming" /\ PlaceOf(u)' = "gone"
    BY DEF PlaceOf
  <1>3. \A s \in Samples \ {u} : PlaceOf(s)' = PlaceOf(s)
    BY <1>1, PlaceKept
  <1>4. Shelf!Move(u, "gone")
    BY <1>1, <1>2, <1>3, MoveOf
  <1>5. Shelf!GiveUp(u)
    BY <1>1, <1>2, <1>4 DEF Shelf!GiveUp
  <1> QED BY <1>1, <1>5 DEF ShelfStep, Shelf!ShelfNext

LEMMA UploadMaps ==
    ASSUME SamplesInv, NEW u \in Uploads, Upload(u)
    PROVE  ShelfStep
  <1>1. /\ u \in Calls /\ u \in Samples /\ u \in Sweepers /\ u \notin Stored
        /\ UploadKnows(u)
    BY SamplesAssumption DEF Calls, Sweepers, Samples, SamplesInv, CallsKnow
  <1>2. pc \in [Calls -> Steps] /\ outcome \in [Calls -> Outcomes]
    BY DEF SamplesInv, SamplesTypeOK
  <1>3. CASE Precheck(u)
    <2>1. Respects(u) /\ UNCHANGED <<offering, row, objects>>
      BY <1>3, PrecheckSafe DEF Precheck, rows, stores
    <2>2. row[u] = "none" /\ ~Settled(u)
      BY <1>1, <1>3 DEF Precheck, At, UploadKnows, BeforePut, Settled, Discarding
    <2>3. CASE pc'[u] = "put"
      <3>1. PlaceOf(u)' = PlaceOf(u)
        BY <1>1, <2>1, <2>2, <2>3 DEF PlaceOf, Settled, Discarding
      <3> QED BY <1>1, <2>1, <3>1, QuietMaps
    <2>4. CASE pc'[u] = "done"
      <3>1. Settled(u)'
        BY <2>4 DEF Settled
      <3> QED BY <2>1, <2>2, <3>1, GiveUpMaps
    <2> QED BY <1>1, <1>2, <1>3, <2>3, <2>4 DEF Precheck, Goto, End
  <1>4. CASE Put(u)
    <2>1. Respects(u) /\ UNCHANGED <<offering, row>>
      BY <1>4, PutSafe DEF Put, rows
    <2>2. row[u] = "none" /\ ~Settled(u)
      BY <1>1, <1>4 DEF Put, At, UploadKnows, BeforePut, Settled, Discarding
    <2>3. CASE pc'[u] = "create" /\ objects' = objects \cup {u}
      <3>1. PlaceOf(u) = "coming" /\ PlaceOf(u)' = "coming"
        BY <1>1, <2>1, <2>2, <2>3 DEF PlaceOf, Settled, Discarding
      <3>2. \A s \in Samples \ {u} : PlaceOf(s)' = PlaceOf(s)
        BY <1>1, <2>1, PlaceKept
      <3>3. UNCHANGED [s \in Samples |-> PlaceOf(s)]
        BY <3>1, <3>2, AllKept
      <3>4. Shelf!Deliver(u)
        BY <1>1, <2>1, <2>3, <3>1, <3>3 DEF Shelf!Deliver
      <3> QED BY <1>1, <3>4 DEF ShelfStep, Shelf!ShelfNext
    <2>4. CASE pc'[u] = "done" /\ objects' \in {objects, objects \cup {u}}
      <3>1. Settled(u)'
        BY <2>4 DEF Settled
      <3> QED BY <2>1, <2>2, <2>4, <3>1, GiveUpMaps
    <2> QED BY <1>1, <1>2, <1>4, <2>3, <2>4 DEF Put, Goto, End
  <1>5. CASE CreateSample(u)
    <2>1. Respects(u) /\ UNCHANGED <<offering, objects>>
      BY <1>5, CreateSampleSafe DEF CreateSample, stores
    <2>2. row[u] = "none" /\ u \in objects /\ ~Settled(u)
      BY <1>1, <1>5 DEF CreateSample, At, UploadKnows, Settled, Discarding
    <2>3. Settled(u)'
      BY <1>1, <1>2, <1>5 DEF CreateSample, End, Pending, Goto, Settled, Discarding
    <2>4. CASE UNCHANGED row
      BY <2>1, <2>2, <2>3, <2>4, GiveUpMaps
    <2>5. CASE HasRoom /\ SetRow(u, "Live")
      <3>1. row'[u] = "Live" /\ \A s \in Samples \ {u} : row'[s] = row[s]
        BY <1>1, <2>5 DEF SetRow, SamplesInv, SamplesTypeOK
      <3>2. PlaceOf(u) = "coming" /\ PlaceOf(u)' \in {"shown", "stray"}
        BY <2>2, <3>1 DEF PlaceOf
      <3>3. \A s \in Samples \ {u} : PlaceOf(s)' = PlaceOf(s)
        BY <1>1, <2>1, <3>1, PlaceKept
      <3>4. Shelf!Move(u, "shown") \/ Shelf!Move(u, "stray")
        BY <1>1, <3>2, <3>3, MoveOf
      <3>5. Shelf!Cardinality(Shelf!OnShelf) < MaxSamples
        BY <2>5, ShelfContents, SameCardinality DEF HasRoom
      <3>6. Shelf!Show(u)
        BY <1>1, <2>1, <2>2, <3>2, <3>4, <3>5 DEF Shelf!Show
      <3> QED BY <1>1, <3>6 DEF ShelfStep, Shelf!ShelfNext
    <2> QED BY <1>5, <2>4, <2>5 DEF CreateSample
  <1>6. CASE Discard(u)
    <2>1. Respects(u) /\ UNCHANGED <<offering, row, outcome>>
             /\ objects' \in {objects, objects \ {u}}
      BY <1>6, DiscardSafe DEF Discard, StoreDeletes, StoreRefuses, rows
    <2>2. Failed(u)
      BY <1>1, <1>6 DEF Discard, At, UploadKnows, Discarding
    <2>3. Settled(u) /\ Settled(u)'
      BY <1>1, <1>2, <1>6 DEF Discard, At, Goto, Settled, Discarding
    <2>4. \A s \in Samples : PlaceOf(s)' = PlaceOf(s)
      BY <1>1, <2>1, <2>3, PlaceKept
    <2> QED BY <1>1, <2>1, <2>2, <2>4, DropMaps
  <1>7. CASE RecordOrphan(u)
    <2>1. Respects(u) /\ UNCHANGED <<offering, row, objects>>
      BY <1>7, RecordOrphanSafe DEF RecordOrphan, rows
    <2>2. Failed(u)
      BY <1>1, <1>7 DEF RecordOrphan, At, UploadKnows, Discarding
    <2>3. Settled(u) /\ Settled(u)' /\ outcome'[u] \in {outcome[u], "UNRECORDED"}
      BY <1>1, <1>2, <1>7 DEF RecordOrphan, At, Goto, End, Settled, Discarding
    <2>4. PlaceOf(u)' = PlaceOf(u)
      BY <2>1, <2>2, <2>3 DEF PlaceOf, Failed
    <2> QED BY <1>1, <2>1, <2>4, QuietMaps
  <1> QED
    BY <1>1, <1>3, <1>4, <1>5, <1>6, <1>7, SweepMaps DEF Upload

LEMMA RemovalMaps ==
    ASSUME SamplesInv, NEW r \in Removals, Remove(r)
    PROVE  ShelfStep
  <1>1. r \in Calls /\ r \notin Uploads /\ RemovalKnows(r)
    BY SamplesAssumption DEF Calls, Sweepers, Samples, SamplesInv, CallsKnow
  <1>2. Respects(r)
    BY RemovalReads, ResumeFinalRemovalSafe, RemoveFinalSampleSafe, MarkPendingCleanupSafe,
       DeleteObjectSafe, FinalizeRemovalSafe DEF Remove
  <1>3. row \in [Samples -> {"none", "Live", "PendingCleanup"}]
    BY DEF SamplesInv, SamplesTypeOK
  <1>4. CASE UNCHANGED <<offering, row, objects>>
    BY <1>1, <1>2, <1>4, QuietMaps
  <1>5. ASSUME NEW s \in Samples, row[s] = "Live", SetRow(s, "PendingCleanup")
        PROVE  s \in Shelf!OnShelf /\ Shelf!Move(s, "leaving")
    <2>1. row'[s] = "PendingCleanup" /\ \A t \in Samples \ {s} : row'[t] = row[t]
      BY <1>3, <1>5 DEF SetRow
    <2>2. PlaceOf(s)' = "leaving" /\ \A t \in Samples \ {s} : PlaceOf(t)' = PlaceOf(t)
      <3>1. PlaceOf(s)' = "leaving"
        BY <2>1 DEF PlaceOf
      <3> QED BY <1>1, <1>2, <2>1, <3>1, PlaceKept
    <2>3. s \in Live
      BY <1>5 DEF Live
    <2> QED BY <2>2, <2>3, MoveOf, ShelfContents
  <1>6. CASE MarkPendingCleanup(r) /\ ~UNCHANGED <<offering, row, objects>>
    <2>1. /\ row[sample[r]] = "Live" /\ SetRow(sample[r], "PendingCleanup")
          /\ UNCHANGED <<offering, objects>>
      BY <1>6 DEF MarkPendingCleanup, stores
    <2>2. sample[r] \in Samples
      BY <1>1, <1>6 DEF MarkPendingCleanup, At, RemovalKnows, Known
    <2>3. Shelf!Withdraw(sample[r])
      BY <1>5, <2>1, <2>2 DEF Shelf!Withdraw
    <2> QED BY <2>2, <2>3 DEF ShelfStep, Shelf!ShelfNext
  <1>7. CASE RemoveFinalSample(r) /\ ~UNCHANGED <<offering, row, objects>>
    <2>1. /\ LastQualifying(sample[r]) /\ offering' = "Paused"
          /\ SetRow(sample[r], "PendingCleanup") /\ UNCHANGED objects
      BY <1>7 DEF RemoveFinalSample, rows, stores
    <2>2. sample[r] \in Samples /\ row[sample[r]] = "Live"
      BY <2>1 DEF LastQualifying, Qualifying, Live
    <2>3. Shelf!Eligible = {sample[r]} /\ offering = "Active"
      BY <2>1, ShelfContents DEF LastQualifying
    <2>4. Shelf!WithdrawLast(sample[r])
      BY <1>5, <2>1, <2>2, <2>3 DEF Shelf!WithdrawLast
    <2> QED BY <2>2, <2>4 DEF ShelfStep, Shelf!ShelfNext
  <1>8. CASE DeleteObject(r)
    <2>1. /\ UNCHANGED <<offering, row>>
          /\ objects' \in {objects, objects \ {sample[r]}}
      BY <1>8 DEF DeleteObject, StoreDeletes, StoreRefuses, rows
    <2>2. sample[r] \in Samples /\ Doomed(sample[r])
      BY <1>1, <1>8 DEF DeleteObject, At, RemovalKnows, Known
    <2>3. \A s \in Samples : PlaceOf(s)' = PlaceOf(s)
      BY <1>1, <1>2, <2>1, PlaceKept
    <2> QED BY <2>1, <2>2, <2>3, DropMaps
  <1>9. CASE FinalizeRemoval(r)
    <2>1. UNCHANGED <<offering, objects>> /\ (SetRow(sample[r], "none") \/ UNCHANGED row)
      BY <1>9 DEF FinalizeRemoval, stores
    <2>2. sample[r] \in Samples /\ Doomed(sample[r]) /\ sample[r] \notin objects
      BY <1>1, <1>9 DEF FinalizeRemoval, At, RemovalKnows, Known
    <2> QED BY <1>1, <1>2, <2>1, <2>2, VanishMaps
  <1> QED
    BY <1>4, <1>6, <1>7, <1>8, <1>9
       DEF Remove, BeginRemoval, FindEvidence, ResumeFinalRemoval, FindSample,
           CountQualifying, rows, stores

LEMMA LoseMaps ==
    ASSUME SamplesInv, NEW c \in Calls, Lose(c)
    PROVE  ShelfStep
  <1>1. Respects(c) /\ UNCHANGED <<offering, row, objects, outcome>> /\ pc'[c] = "lost"
    BY LoseSafe DEF Lose, Goto, rows, stores, SamplesInv, SamplesTypeOK
  <1>2. CASE c \in Uploads /\ ~Settled(c)
    <2>1. UploadKnows(c) /\ c \notin Stored
      BY <1>2, SamplesAssumption DEF SamplesInv, CallsKnow
    <2>2. row[c] = "none" /\ Settled(c)'
      BY <1>1, <1>2, <2>1 DEF UploadKnows, Settled
    <2> QED BY <1>1, <1>2, <2>2, GiveUpMaps
  <1>3. CASE c \in Uploads => Settled(c)
    <2>1. Settled(c)'
      BY <1>1 DEF Settled
    <2>2. c \in Uploads => PlaceOf(c)' = PlaceOf(c)
      BY <1>1, <1>3, <2>1 DEF PlaceOf
    <2> QED BY <1>1, <2>2, QuietMaps
  <1> QED BY <1>2, <1>3

(* The seller's own steps look at the shelf as a listener sees it.          *)
LEMMA SellerMaps ==
    ASSUME SamplesInv, Activate \/ Pause \/ UNCHANGED vars
    PROVE  ShelfStep
  <1>1. UNCHANGED <<row, pc, outcome, objects>>
    BY DEF Activate, Pause, vars, rows, stores
  <1>2. UNCHANGED [s \in Samples |-> PlaceOf(s)]
    <2>1. \A s \in Samples : PlaceOf(s)' = PlaceOf(s)
      BY <1>1 DEF PlaceOf, Settled
    <2> QED BY <2>1, AllKept
  <1>3. CASE Activate
    <2>1. Shelf!Cardinality(Shelf!Eligible) \in 1..MaxSamples /\ offering # "Active"
      BY <1>3, ShelfContents, SameCardinality DEF Activate
    <2>2. Shelf!Publish
      BY <1>1, <1>2, <1>3, <2>1 DEF Activate, Shelf!Publish
    <2> QED BY <2>2 DEF ShelfStep, Shelf!ShelfNext
  <1>4. CASE Pause
    <2>1. Shelf!Suspend
      BY <1>1, <1>2, <1>4 DEF Pause, Shelf!Suspend
    <2> QED BY <2>1 DEF ShelfStep, Shelf!ShelfNext
  <1>5. CASE UNCHANGED vars
    BY <1>1, <1>2, <1>5 DEF vars, rows, ShelfStep, Shelf!shelfVars
  <1> QED BY <1>3, <1>4, <1>5

LEMMA AnswerListMaps ==
    ASSUME SamplesInv, NEW l \in Listings, AnswerList(l)
    PROVE  ShelfStep
  <1>1. l \in Calls /\ l \notin Uploads
    BY SamplesAssumption DEF Calls, Sweepers
  <1> QED BY <1>1, AnswerListSafe, QuietMaps DEF AnswerList, rows, stores

LEMMA ShelfInitMaps == SamplesInit => Shelf!ShelfInit
  BY DEF SamplesInit, Shelf!ShelfInit, PlaceOf, Settled, Discarding, Samples, Calls, Sweepers

(* Every call, sweep and crash does to the samples only what the shelf      *)
(* allows (ImplementsShelf): in particular what is gone stays gone, what is *)
(* shown keeps its bytes, no row is deleted before its object, and only a   *)
(* removal that takes the last qualifying sample suspends the offering.     *)
THEOREM CallsImplementShelf == SamplesSpec => ImplementsShelf
  <1>1. SamplesInv /\ [SamplesNext]_vars => [Shelf!ShelfNext]_(Shelf!shelfVars)
    <2> SUFFICES ASSUME SamplesInv, [SamplesNext]_vars PROVE ShelfStep
      BY DEF ShelfStep
    <2>1. CASE \E l \in Listings : Sweep(l) \/ AnswerList(l)
      BY <2>1, SweepMaps, AnswerListMaps DEF Sweepers
    <2>2. CASE \/ \E u \in Uploads : Upload(u)
               \/ \E r \in Removals : Remove(r)
               \/ \E c \in Calls : Lose(c)
      BY <2>2, UploadMaps, RemovalMaps, LoseMaps
    <2>3. CASE Activate \/ Pause \/ UNCHANGED vars
      BY <2>3, SellerMaps
    <2> QED BY <2>1, <2>2, <2>3 DEF SamplesNext
  <1> QED
    BY <1>1, ShelfInitMaps, SamplesInvariant, PTL
       DEF SamplesSpec, ImplementsShelf, Shelf!ShelfSpec
=============================================================================
