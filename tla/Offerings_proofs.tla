-------------------------- MODULE Offerings_proofs --------------------------
(* Proofs about the offerings and the page that edits them, for every       *)
(* number of offerings, keys and contents, every loss of an answer and      *)
(* every order in which the commands of a page, of pages that are gone and  *)
(* of other tabs commit.                                                    *)
(*                                                                          *)
(* EditorInv is the inductive invariant.  What it adds to the properties of *)
(* the runs: an offering that any table or page mentions exists (Anchored,  *)
(* PageAnchored), and a command names what its kind needs, an activation    *)
(* that passed the service's check a profile that was published (GoodCall), *)
(* whatever its status is when the transaction runs.                        *)
EXTENDS OfferingEditor, TLAPS

Stored(o)   == status[o] # "None"
StaysStored == \A o \in OfferingIds : Stored(o) => Stored(o)'

Anchored ==
    /\ \A o \in OfferingIds : Stored(o) => content[o] \in Contents
    /\ \A row \in evidence : Stored(row.offering)
    /\ \A k \in Keys : creations[k] # None => Stored(creations[k])

PageAnchored ==
    /\ url # None => Stored(url)
    /\ view # None \/ mode # "closed" => url # None
    /\ \A k \in Kinds \ {"Create"} : call[k] # Idle => url # None

PageTypeOK ==
    /\ url \in OfferingIds \cup {None}
    /\ form \in Contents
    /\ view \in View \cup {None}
    /\ mode \in {"closed", "active-update", "paused-repair"}
    /\ entered \in Contents \cup {None}
    /\ keyRef \in [KeyedKinds -> Keys \cup {None}]

(* The stored part of the server's invariant, which calls do not touch.     *)
StoredInv ==
    /\ profile \in {"None", "Draft", "Published", "Suspended"}
    /\ publications \subseteq PublicationKeys
    /\ status \in [OfferingIds -> {"None", "Draft", "Active", "Paused"}]
    /\ content \in [OfferingIds -> Contents \cup {None}]
    /\ eligible \in [OfferingIds -> BOOLEAN]
    /\ creations \in [Keys -> OfferingIds \cup {None}]
    /\ evidence \subseteq Row
    /\ Anchored
    /\ PublishedIsComplete
    /\ OneOfferingPerAttempt
    /\ PublicAfterPublication

(* A call that may stand in the table: a command carries the offering and  *)
(* the key that its kind needs, and only an activation waits between two    *)
(* statements, once a profile was published.                                *)
GoodCall(v) ==
    /\ v \in Call
    /\ v.phase \in {"sent", "checked"} =>
        /\ v.command.kind # "Create" => v.command.offering \in OfferingIds
        /\ v.command.kind # "Save" => v.command.key \in Keys
        /\ v.phase = "checked" => v.command.kind = "Activate" /\ publications # {}

(* An answer is about an offering that exists.                              *)
AnswersStored ==
    \A c \in Callers : call[c].phase = "done" => Stored(call[c].view.offering)

ServerInv ==
    /\ StoredInv
    /\ call \in [Callers -> Call]
    /\ \A c \in Callers : GoodCall(call[c])
    /\ AnswersStored
    /\ profile \in {"Published", "Suspended"} => publications # {}

EditorInv == ServerInv /\ PageTypeOK /\ PageAnchored
-----------------------------------------------------------------------------
LEMMA InitInv == EditorInit => EditorInv
  <1> SUFFICES ASSUME EditorInit PROVE EditorInv
    OBVIOUS
  <1>1. StoredInv
    BY DEF EditorInit, OfferingsInit, StoredInv, Anchored, Stored, PublishedIsComplete,
           OneOfferingPerAttempt, PublicAfterPublication
  <1>2. call \in [Callers -> Call] /\ \A c \in Callers : GoodCall(call[c])
    BY DEF EditorInit, OfferingsInit, GoodCall, Call, Idle
  <1>3. ServerInv
    BY <1>1, <1>2 DEF ServerInv, EditorInit, OfferingsInit, AnswersStored, Idle
  <1>4. PageTypeOK /\ PageAnchored
    BY EditorAssumption DEF EditorInit, OfferingsInit, PageTypeOK, PageAnchored
  <1> QED BY <1>3, <1>4 DEF EditorInv

(* A call can be replaced by any good one.                                  *)
LEMMA CallReplaced ==
    ASSUME ServerInv, NEW c \in Callers, NEW v, SetCall(c, v), GoodCall(v),
           v.phase = "done" => status'[v.view.offering] # "None",
           StoredInv', StaysStored, UNCHANGED <<profile, publications>>
    PROVE  ServerInv'
  <1>1. call' \in [Callers -> Call] /\ \A d \in Callers : call'[d] = IF d = c THEN v ELSE call[d]
    BY DEF ServerInv, SetCall, GoodCall
  <1>2. \A d \in Callers : GoodCall(call[d])'
    BY <1>1 DEF ServerInv, GoodCall
  <1>3. \A d \in Callers : call[d].phase = "done" => call[d].view.offering \in OfferingIds
    BY DEF ServerInv, Call, Idle, View
  <1>4. AnswersStored'
    BY <1>1, <1>3 DEF ServerInv, AnswersStored, StaysStored, Stored
  <1> QED BY <1>1, <1>2, <1>4 DEF ServerInv

LEMMA CallsRest ==
    ASSUME ServerInv, UNCHANGED call, StoredInv', StaysStored,
           publications # {} => publications' # {},
           profile' \in {"Published", "Suspended"} => publications' # {}
    PROVE  ServerInv'
  <1>1. \A c \in Callers : GoodCall(call[c])'
    BY DEF ServerInv, GoodCall
  <1>2. \A c \in Callers : call[c].phase = "done" => call[c].view.offering \in OfferingIds
    BY DEF ServerInv, Call, Idle, View
  <1>3. AnswersStored'
    BY <1>2 DEF ServerInv, AnswersStored, StaysStored, Stored
  <1> QED BY <1>1, <1>3 DEF ServerInv

LEMMA StoredRests ==
    ASSUME ServerInv, UNCHANGED <<profile, publications, stored, eligible>>
    PROVE  StoredInv'
  BY DEF ServerInv, StoredInv, stored, Anchored, Stored, PublishedIsComplete,
     OneOfferingPerAttempt, PublicAfterPublication
-----------------------------------------------------------------------------
LEMMA CommandOf ==
    ASSUME ServerInv, NEW c \in Callers, call[c].phase \in {"sent", "checked"}
    PROVE  /\ call[c] # Idle
           /\ call[c].command \in Command
           /\ call[c].command.kind # "Create" => call[c].command.offering \in OfferingIds
           /\ call[c].command.kind # "Save" => call[c].command.key \in Keys
           /\ call[c].phase = "checked" =>
                 call[c].command.kind = "Activate" /\ publications # {}
  <1>1. call[c] # Idle
    BY DEF Idle
  <1>2. call[c] \in Call /\ GoodCall(call[c])
    BY DEF ServerInv
  <1>3. call[c].command \in Command
    BY <1>1, <1>2 DEF Call
  <1> QED BY <1>1, <1>2, <1>3 DEF GoodCall

LEMMA AnswerKeeps ==
    ASSUME ServerInv, NEW c \in Callers, call[c].phase \in {"sent", "checked"}, NEW o \in OfferingIds,
           StoredInv', StaysStored, Answer(c, o), status'[o] # "None", UNCHANGED <<profile, publications>>
    PROVE  ServerInv'
  <1> DEFINE v == [phase |-> "done",
                   view |-> [offering |-> o, status |-> status'[o], content |-> content'[o]]]
  <1>1. status'[o] \in {"Draft", "Active", "Paused"} /\ content'[o] \in Contents
    BY DEF StoredInv, Anchored, Stored
  <1>2. v \in Call
    BY <1>1, CommandOf DEF Call, View
  <1>3. GoodCall(v)
    BY <1>2, CommandOf DEF GoodCall
  <1>4. SetCall(c, v) /\ v.view.offering = o
    BY DEF Answer
  <1> HIDE DEF v
  <1> QED BY <1>3, <1>4, CallReplaced

(* A write of one stored offering, to a state its contents allow.           *)
LEMMA ChangeKeeps ==
    ASSUME ServerInv, NEW o \in OfferingIds, NEW s \in {"Draft", "Active", "Paused"},
           NEW x \in Contents, Stored(o), Change(o, s, x),
           s # "Draft" => x \in Complete /\ publications # {},
           evidence' \subseteq Row,
           \A row \in evidence' : row \in evidence \/ row.offering = o,
           UNCHANGED <<profile, publications, eligible, creations>>
    PROVE  /\ StoredInv' /\ StaysStored
           /\ status'[o] = s /\ content'[o] = x
  <1>1. \A j \in OfferingIds : /\ status'[j] = IF j = o THEN s ELSE status[j]
                               /\ content'[j] = IF j = o THEN x ELSE content[j]
    BY DEF ServerInv, StoredInv, Change
  <1>2. /\ status' \in [OfferingIds -> {"None", "Draft", "Active", "Paused"}]
        /\ content' \in [OfferingIds -> Contents \cup {None}]
    BY DEF ServerInv, StoredInv, Change
  <1>3. StaysStored
    BY <1>1 DEF StaysStored, Stored
  <1>4. Anchored'
    <2>1. \A j \in OfferingIds : Stored(j)' => content'[j] \in Contents
      BY <1>1 DEF ServerInv, StoredInv, Anchored, Stored
    <2>2. \A row \in evidence' : Stored(row.offering)'
      BY <1>1, <1>3 DEF ServerInv, StoredInv, Anchored, StaysStored, Stored, Row
    <2>3. \A k \in Keys : creations'[k] # None => status'[creations'[k]] # "None"
      BY <1>3 DEF ServerInv, StoredInv, Anchored, StaysStored, Stored
    <2> QED BY <2>1, <2>2, <2>3 DEF Anchored, Stored
  <1>5. PublishedIsComplete'
    BY <1>1 DEF ServerInv, StoredInv, PublishedIsComplete
  <1>6. OneOfferingPerAttempt'
    BY <1>1 DEF ServerInv, StoredInv, OneOfferingPerAttempt, Stored
  <1>7. PublicAfterPublication'
    BY <1>1 DEF ServerInv, StoredInv, PublicAfterPublication
  <1> QED BY <1>1, <1>2, <1>3, <1>4, <1>5, <1>6, <1>7 DEF ServerInv, StoredInv

LEMMA ConvergeKeeps ==
    ASSUME ServerInv, NEW c \in Callers, call[c].phase \in {"sent", "checked"},
           call[c].command.kind # "Create", Converge(c),
           UNCHANGED <<profile, publications, eligible>>
    PROVE  ServerInv' /\ StaysStored
  <1> DEFINE o == call[c].command.offering
  <1>1. o \in OfferingIds
    BY CommandOf
  <1>2. Stored(o)
    BY DEF Converge, Committed, ServerInv, StoredInv, Anchored
  <1>3. StoredInv' /\ status'[o] # "None" /\ StaysStored
    BY <1>2, StoredRests DEF Converge, stored, StaysStored, Stored
  <1> QED BY <1>1, <1>3, AnswerKeeps DEF Converge

LEMMA CreateDraftKeeps ==
    ASSUME ServerInv, NEW c \in Callers, CreateDraft(c)
    PROVE  ServerInv' /\ StaysStored
  <1> DEFINE key == call[c].command.key
             x == call[c].command.content
  <1>1. call[c].phase \in {"sent", "checked"} /\ key \in Keys /\ x \in Contents
    BY CommandOf DEF CreateDraft, Underway, Phase, Command
  <1>2. CASE creations[key] # None /\ UNCHANGED stored /\ Answer(c, creations[key])
    <2>1. creations[key] \in OfferingIds /\ Stored(creations[key])
      BY <1>1, <1>2 DEF ServerInv, StoredInv, Anchored
    <2>2. StoredInv' /\ StaysStored /\ status'[creations[key]] # "None"
      BY <1>2, <2>1, StoredRests DEF CreateDraft, stored, StaysStored, Stored
    <2> QED BY <1>1, <1>2, <2>1, <2>2, AnswerKeeps DEF CreateDraft
  <1>3. ASSUME creations[key] = None, NEW o \in OfferingIds, InsertDraft(o, key, x), Answer(c, o)
        PROVE  ServerInv' /\ StaysStored
    <2>1. \A j \in OfferingIds : /\ status'[j] = IF j = o THEN "Draft" ELSE status[j]
                                 /\ content'[j] = IF j = o THEN x ELSE content[j]
      BY <1>3 DEF ServerInv, StoredInv, Change, InsertDraft
    <2>2. /\ status' \in [OfferingIds -> {"None", "Draft", "Active", "Paused"}]
          /\ content' \in [OfferingIds -> Contents \cup {None}]
      BY <1>1, <1>3 DEF ServerInv, StoredInv, Change, InsertDraft
    <2>3. /\ creations' \in [Keys -> OfferingIds \cup {None}]
          /\ \A k \in Keys : creations'[k] = IF k = key THEN o ELSE creations[k]
      BY <1>1, <1>3 DEF ServerInv, StoredInv, InsertDraft
    <2>4. status[o] = "None" /\ \A k \in Keys : creations[k] # o
      BY <1>3, OfferingsAssumption DEF InsertDraft, ServerInv, StoredInv, Anchored, Stored
    <2>5. StaysStored /\ status'[o] # "None"
      BY <2>1 DEF StaysStored, Stored
    <2>6. Anchored'
      <3>1. \A j \in OfferingIds : Stored(j)' => content'[j] \in Contents
        BY <1>1, <2>1 DEF ServerInv, StoredInv, Anchored, Stored
      <3>2. \A row \in evidence' : Stored(row.offering)'
        BY <1>3, <2>5 DEF InsertDraft, ServerInv, StoredInv, Anchored, StaysStored, Stored, Row
      <3>3. \A k \in Keys : creations'[k] # None => status'[creations'[k]] # "None"
        BY <2>3, <2>5 DEF ServerInv, StoredInv, Anchored, StaysStored, Stored
      <3> QED BY <3>1, <3>2, <3>3 DEF Anchored, Stored
    <2>7. PublishedIsComplete' /\ PublicAfterPublication'
      BY <2>1 DEF CreateDraft, ServerInv, StoredInv, PublishedIsComplete, PublicAfterPublication
    <2>8. OneOfferingPerAttempt'
      <3> SUFFICES ASSUME NEW j \in OfferingIds, status'[j] # "None"
                   PROVE  \E k \in Keys : {i \in Keys : creations'[i] = j} = {k}
        BY DEF OneOfferingPerAttempt
      <3>1. CASE j = o
        BY <1>1, <2>3, <2>4, <3>1
      <3>2. CASE j # o
        <4>1. \A i \in Keys : creations'[i] = j <=> creations[i] = j
          BY <1>3, <2>3, <3>2, OfferingsAssumption
        <4>2. \E k \in Keys : {i \in Keys : creations[i] = j} = {k}
          BY <2>1, <3>2 DEF ServerInv, StoredInv, OneOfferingPerAttempt
        <4> QED BY <4>1, <4>2
      <3> QED BY <3>1, <3>2
    <2>9. StoredInv'
      BY <1>3, <2>2, <2>3, <2>6, <2>7, <2>8
         DEF CreateDraft, InsertDraft, ServerInv, StoredInv
    <2> QED BY <1>1, <1>3, <2>5, <2>9, AnswerKeeps DEF CreateDraft
  <1> QED BY <1>2, <1>3 DEF CreateDraft

LEMMA SaveDraftKeeps ==
    ASSUME ServerInv, NEW c \in Callers, SaveDraft(c)
    PROVE  ServerInv' /\ StaysStored
  <1> DEFINE o == call[c].command.offering
             x == call[c].command.content
  <1>1. call[c].phase \in {"sent", "checked"} /\ o \in OfferingIds /\ x \in Contents
    BY CommandOf DEF SaveDraft, Underway, Phase, Command
  <1>2. Stored(o) /\ Change(o, "Draft", x) /\ Answer(c, o)
    BY DEF SaveDraft, Stored
  <1>3. /\ evidence' \subseteq Row
        /\ \A row \in evidence' : row \in evidence
    BY DEF SaveDraft, ServerInv, StoredInv
  <1>4. UNCHANGED <<profile, publications, eligible, creations>>
    BY DEF SaveDraft
  <1> HIDE DEF o, x
  <1>5. StoredInv' /\ StaysStored /\ status'[o] = "Draft"
    BY <1>1, <1>2, <1>3, <1>4, ChangeKeeps
  <1> QED BY <1>1, <1>2, <1>4, <1>5, AnswerKeeps DEF Stored

(* A row recorded for an offering.                                          *)
LEMMA RecordKeeps ==
    ASSUME ServerInv, NEW o \in OfferingIds, NEW key \in Keys,
           NEW kind \in {"Activate", "Pause", "Update"}, Record(kind, o, key)
    PROVE  /\ evidence' \subseteq Row
           /\ \A row \in evidence' : row \in evidence \/ row.offering = o
  BY DEF ServerInv, StoredInv, Record, Row

(* A transition that is answered: its writes are those of ChangeKeeps.      *)
LEMMA TransitionKeeps ==
    ASSUME ServerInv, NEW c \in Callers, call[c].phase \in {"sent", "checked"},
           NEW o \in OfferingIds, NEW key \in Keys, NEW x \in Contents,
           NEW s \in {"Active", "Paused"}, NEW kind \in {"Activate", "Pause", "Update"},
           Stored(o), x \in Complete, publications # {},
           Change(o, s, x), Record(kind, o, key), Answer(c, o),
           UNCHANGED <<profile, publications, eligible, creations>>
    PROVE  ServerInv' /\ StaysStored
  <1>1. StoredInv' /\ StaysStored /\ status'[o] = s
    BY RecordKeeps, ChangeKeeps
  <1> QED BY <1>1, AnswerKeeps

LEMMA ActivateKeeps ==
    ASSUME ServerInv, NEW c \in Callers, Activate(c)
    PROVE  ServerInv' /\ StaysStored
  <1> DEFINE o == call[c].command.offering
             key == call[c].command.key
             x == call[c].command.content
  <1>1. /\ call[c].phase \in {"sent", "checked"} /\ call[c].command.kind = "Activate"
        /\ o \in OfferingIds /\ key \in Keys /\ x \in Contents /\ publications # {}
    BY CommandOf DEF Activate, Phase, Command
  <1>2. CASE Converge(c)
    BY <1>1, <1>2, ConvergeKeeps DEF Activate
  <1>3. CASE /\ status[o] = "Draft" /\ SatisfiesContract(o, x)
             /\ Change(o, "Active", x) /\ Record("Activate", o, key)
             /\ UNCHANGED creations /\ Answer(c, o)
    <2>1. Stored(o) /\ x \in Complete /\ UNCHANGED <<profile, publications, eligible, creations>>
      BY <1>3 DEF Stored, SatisfiesContract, Activate
    <2>2. Change(o, "Active", x) /\ Record("Activate", o, key) /\ Answer(c, o)
      BY <1>3
    <2> HIDE DEF o, key, x
    <2> QED BY <1>1, <2>1, <2>2, TransitionKeeps
  <1> QED BY <1>2, <1>3 DEF Activate

LEMMA PauseKeeps ==
    ASSUME ServerInv, NEW c \in Callers, Pause(c)
    PROVE  ServerInv' /\ StaysStored
  <1> DEFINE o == call[c].command.offering
             key == call[c].command.key
  <1>1. /\ call[c].phase \in {"sent", "checked"} /\ call[c].command.kind = "Pause"
        /\ o \in OfferingIds /\ key \in Keys
    BY CommandOf DEF Pause, Underway, Phase
  <1>2. CASE Converge(c)
    BY <1>1, <1>2, ConvergeKeeps DEF Pause
  <1>3. CASE /\ status[o] = "Active"
             /\ Change(o, "Paused", content[o]) /\ Record("Pause", o, key)
             /\ UNCHANGED creations /\ Answer(c, o)
    <2>1. /\ Stored(o) /\ content[o] \in Complete /\ publications # {}
          /\ content[o] \in Contents
          /\ UNCHANGED <<profile, publications, eligible, creations>>
      BY <1>1, <1>3, OfferingsAssumption
         DEF Stored, Pause, ServerInv, StoredInv, PublishedIsComplete, PublicAfterPublication
    <2>2. /\ Change(o, "Paused", content[o]) /\ Record("Pause", o, key)
          /\ Answer(c, o)
      BY <1>3
    <2> HIDE DEF o, key
    <2> QED BY <1>1, <2>1, <2>2, TransitionKeeps
  <1> QED BY <1>2, <1>3 DEF Pause

LEMMA RewriteKeeps ==
    ASSUME ServerInv, NEW c \in Callers, NEW kind \in {"Reactivate", "Update"},
           NEW from \in {"Paused", "Active"}, NEW table \in {"Activate", "Update"},
           Rewrite(c, kind, from, table)
    PROVE  ServerInv' /\ StaysStored
  <1> DEFINE o == call[c].command.offering
             key == call[c].command.key
             x == call[c].command.content
  <1>1. /\ call[c].phase \in {"sent", "checked"} /\ call[c].command.kind = kind
        /\ o \in OfferingIds /\ key \in Keys /\ x \in Contents
    BY CommandOf DEF Rewrite, Underway, Phase, Command
  <1>2. CASE Converge(c)
    BY <1>1, <1>2, ConvergeKeeps DEF Rewrite
  <1>3. CASE /\ status[o] = from /\ profile = "Published" /\ SatisfiesContract(o, x)
             /\ Change(o, "Active", x) /\ Record(table, o, key)
             /\ UNCHANGED creations /\ Answer(c, o)
    <2>1. /\ Stored(o) /\ x \in Complete /\ publications # {}
          /\ UNCHANGED <<profile, publications, eligible, creations>>
      BY <1>3 DEF Stored, SatisfiesContract, Rewrite, ServerInv
    <2>2. Change(o, "Active", x) /\ Record(table, o, key) /\ Answer(c, o)
      BY <1>3
    <2> HIDE DEF o, key, x
    <2> QED BY <1>1, <2>1, <2>2, TransitionKeeps
  <1> QED BY <1>2, <1>3 DEF Rewrite

LEMMA ServeKeeps ==
    ASSUME ServerInv, NEW c \in Callers, Serve(c)
    PROVE  ServerInv' /\ StaysStored
  <1>1. CASE CheckProfile(c)
    <2> DEFINE v == [call[c] EXCEPT !.phase = "checked"]
    <2>1. call[c].phase = "sent" /\ call[c].command.kind = "Activate" /\ publications # {}
      BY <1>1 DEF CheckProfile, Underway, Phase, ServerInv
    <2>2. call[c] \in [phase : {"sent", "checked"}, command : Command]
      BY <2>1 DEF ServerInv, Call, Idle
    <2>3. v.phase = "checked" /\ v.command = call[c].command /\ v \in Call
      BY <2>2 DEF Call
    <2>4. GoodCall(v)
      BY <2>1, <2>3, CommandOf DEF GoodCall
    <2>5. SetCall(c, v) /\ UNCHANGED <<profile, publications, stored, eligible>>
      BY <1>1 DEF CheckProfile
    <2>6. v.phase # "done"
      BY <2>3
    <2> HIDE DEF v
    <2> QED BY <2>4, <2>5, <2>6, StoredRests, CallReplaced DEF StaysStored, Stored, stored
  <1>2. CASE Fail(c)
    <2>1. GoodCall(Idle) /\ Idle.phase # "done"
      BY DEF GoodCall, Call, Idle
    <2> QED BY <1>2, <2>1, StoredRests, CallReplaced DEF Fail, StaysStored, Stored, stored
  <1>3. CASE Reactivate(c)
    BY <1>3, RewriteKeeps DEF Reactivate
  <1>4. CASE UpdateActive(c)
    BY <1>4, RewriteKeeps DEF UpdateActive
  <1> QED BY <1>1, <1>2, <1>3, <1>4, CreateDraftKeeps, SaveDraftKeeps, ActivateKeeps,
             PauseKeeps DEF Serve

LEMMA SurroundingsKeep ==
    ASSUME ServerInv, Surroundings
    PROVE  ServerInv' /\ StaysStored
  <1>1. CASE \/ SaveProfileDraft \/ Suspend \/ Reinstate
             \/ \E key \in PublicationKeys : PublishProfile(key) \/ UpdatePublishedProfile(key)
    <2>1. /\ profile' \in {"None", "Draft", "Published", "Suspended"}
          /\ publications' \subseteq PublicationKeys
          /\ publications # {} => publications' # {}
          /\ profile' \in {"Published", "Suspended"} => publications' # {}
          /\ UNCHANGED <<stored, eligible, call>>
      BY <1>1 DEF SaveProfileDraft, Suspend, Reinstate, PublishProfile, UpdatePublishedProfile,
                  WritePublication, ServerInv, StoredInv
    <2>2. StoredInv'
      BY <2>1 DEF ServerInv, StoredInv, stored, Anchored, Stored, PublishedIsComplete,
                  OneOfferingPerAttempt, PublicAfterPublication
    <2> QED BY <2>1, <2>2, CallsRest DEF StaysStored, Stored, stored
  <1>2. ASSUME NEW o \in OfferingIds, SamplesChange(o) \/ PausedByRemoval(o)
        PROVE  ServerInv' /\ StaysStored
    <2>1. /\ eligible' \in [OfferingIds -> BOOLEAN]
          /\ status' \in [OfferingIds -> {"None", "Draft", "Active", "Paused"}]
          /\ UNCHANGED <<profile, publications, content, creations, evidence, call>>
      BY <1>2 DEF SamplesChange, PausedByRemoval, ServerInv, StoredInv, stored
    <2>2. \A j \in OfferingIds :
             status'[j] = status[j] \/ (status[j] = "Active" /\ status'[j] = "Paused")
      BY <1>2 DEF SamplesChange, PausedByRemoval, ServerInv, StoredInv, stored
    <2>3. StaysStored /\ \A j \in OfferingIds : Stored(j)' => Stored(j)
      BY <2>2 DEF StaysStored, Stored
    <2>4. Anchored'
      BY <2>1, <2>3 DEF ServerInv, StoredInv, Anchored, Stored, StaysStored, Row
    <2>5. PublishedIsComplete' /\ OneOfferingPerAttempt' /\ PublicAfterPublication'
      BY <2>1, <2>2
         DEF ServerInv, StoredInv, PublishedIsComplete, OneOfferingPerAttempt,
             PublicAfterPublication
    <2>6. StoredInv'
      BY <2>1, <2>4, <2>5 DEF ServerInv, StoredInv
    <2> QED BY <2>1, <2>3, <2>6, CallsRest DEF ServerInv
  <1> QED BY <1>1, <1>2 DEF Surroundings

(* The server ends calls and never begins one.                              *)
LEMMA ServerEndsCalls ==
    ASSUME OfferingsNext, ServerInv
    PROVE  \A c \in Callers : call'[c] # Idle => call[c] # Idle
  <1>1. CASE Surroundings
    BY <1>1 DEF Surroundings, SaveProfileDraft, Suspend, Reinstate, PublishProfile,
                UpdatePublishedProfile, WritePublication, SamplesChange, PausedByRemoval
  <1>2. ASSUME NEW c \in Callers, Serve(c)
        PROVE  call[c] # Idle /\ \E v : SetCall(c, v)
    <2>1. CASE CreateDraft(c)
      <3>1. \E o : Answer(c, o)
        BY <2>1 DEF CreateDraft
      <3>2. call[c] # Idle
        BY <2>1 DEF CreateDraft, Underway, Phase, Idle
      <3> QED BY <3>1, <3>2 DEF Answer
    <2>5. CASE SaveDraft(c)
      <3>1. Answer(c, call[c].command.offering) /\ call[c] # Idle
        BY <2>5 DEF SaveDraft, Underway, Phase, Idle
      <3> QED BY <3>1 DEF Answer
    <2>2. CASE CheckProfile(c) \/ Fail(c)
      BY <2>2 DEF CheckProfile, Fail, Underway, Phase, Idle
    <2>3. CASE Activate(c) \/ Pause(c)
      BY <2>3 DEF Activate, Pause, Converge, Answer, Underway, Phase, Idle
    <2>4. ASSUME NEW kind, NEW from, NEW table, Rewrite(c, kind, from, table)
          PROVE  call[c] # Idle /\ \E v : SetCall(c, v)
      BY <2>4 DEF Rewrite, Converge, Answer, Underway, Phase, Idle
    <2> QED BY <1>2, <2>1, <2>2, <2>3, <2>4, <2>5 DEF Serve, Reactivate, UpdateActive
  <1>3. ASSUME NEW c \in Callers, call[c] # Idle, NEW v, SetCall(c, v)
        PROVE  \A d \in Callers : call'[d] # Idle => call[d] # Idle
    BY <1>3 DEF SetCall, ServerInv
  <1> QED BY <1>1, <1>2, <1>3 DEF OfferingsNext

LEMMA OfferingsNextKeeps ==
    ASSUME EditorInv, OfferingsNext, UNCHANGED page
    PROVE  EditorInv'
  <1>1. ServerInv' /\ StaysStored
    BY ServeKeeps, SurroundingsKeep DEF EditorInv, OfferingsNext
  <1>2. PageTypeOK'
    BY DEF EditorInv, PageTypeOK, page
  <1>3. PageAnchored'
    BY <1>1, ServerEndsCalls, EditorAssumption
       DEF EditorInv, PageTypeOK, PageAnchored, page, StaysStored, Stored
  <1> QED BY <1>1, <1>2, <1>3 DEF EditorInv
-----------------------------------------------------------------------------
LEMMA SendKeeps ==
    ASSUME ServerInv, NEW c \in Callers, NEW kind \in Kinds,
           NEW o \in OfferingIds \cup {None}, NEW key \in Keys \cup {None},
           NEW x \in Contents, Send(c, kind, o, key, x),
           kind # "Create" => o \in OfferingIds, kind # "Save" => key \in Keys,
           UNCHANGED <<profile, publications, stored, eligible>>
    PROVE  ServerInv' /\ StaysStored
  <1> DEFINE v == [phase |-> "sent",
                   command |-> [kind |-> kind, offering |-> o, key |-> key, content |-> x]]
  <1>1. GoodCall(v) /\ v.phase # "done"
    BY DEF GoodCall, Call, Command
  <1>2. SetCall(c, v)
    BY DEF Send
  <1> HIDE DEF v
  <1> QED BY <1>1, <1>2, StoredRests, CallReplaced DEF StaysStored, Stored, stored

LEMMA ReceiveKeeps ==
    ASSUME ServerInv, NEW kind \in Kinds, Receive(kind)
    PROVE  ServerInv' /\ StaysStored
  <1>1. GoodCall(Idle) /\ Idle.phase # "done"
    BY DEF GoodCall, Call, Idle
  <1> QED BY <1>1, StoredRests, CallReplaced, EditorAssumption
          DEF Receive, StaysStored, Stored, stored

(* The key of an attempt is a key, and stays with the page.                 *)
LEMMA KeyForType ==
    ASSUME PageTypeOK, NEW kind \in KeyedKinds, NEW key \in Keys, KeyFor(kind, key)
    PROVE  keyRef' \in [KeyedKinds -> Keys \cup {None}]
  BY DEF PageTypeOK, KeyFor

(* The page's own commands.                                                 *)
LEMMA PageSends ==
    ASSUME EditorInv, NEW kind \in Kinds, NEW key \in Keys \cup {None},
           Send(kind, kind, url, key, form),
           kind # "Create" => url # None, kind # "Save" => key \in Keys,
           keyRef' \in [KeyedKinds -> Keys \cup {None}],
           UNCHANGED <<profile, publications, stored, eligible, url, form, view, mode, entered>>
    PROVE  EditorInv'
  <1>1. kind \in Callers /\ form \in Contents /\ url \in OfferingIds \cup {None}
    BY EditorAssumption DEF EditorInv, PageTypeOK
  <1>2. ServerInv' /\ StaysStored
    BY <1>1, SendKeeps DEF EditorInv
  <1>3. PageTypeOK'
    BY DEF EditorInv, PageTypeOK
  <1>4. \A k \in Kinds : k # kind => call'[k] = call[k]
    BY EditorAssumption DEF Send, SetCall, EditorInv, ServerInv
  <1>5. PageAnchored'
    BY <1>1, <1>2, <1>4 DEF EditorInv, PageAnchored, StaysStored, Stored
  <1> QED BY <1>2, <1>3, <1>5 DEF EditorInv

LEMMA SaveKeeps ==
    ASSUME EditorInv, Save
    PROVE  EditorInv'
  <1>1. CASE url = None
    <2>1. PICK key \in Keys : KeyFor("Create", key) /\ Send("Create", "Create", None, key, form)
      BY <1>1 DEF Save
    <2>2. keyRef' \in [KeyedKinds -> Keys \cup {None}]
      BY <2>1, KeyForType DEF EditorInv, KeyedKinds, Kinds
    <2> QED BY <1>1, <2>1, <2>2, PageSends DEF Save, Kinds
  <1>2. CASE url # None
    <2>1. Send("Save", "Save", url, None, form) /\ UNCHANGED keyRef
      BY <1>2 DEF Save
    <2>2. keyRef' \in [KeyedKinds -> Keys \cup {None}]
      BY <2>1 DEF EditorInv, PageTypeOK
    <2> QED BY <1>2, <2>1, <2>2, PageSends DEF Save, Kinds
  <1> QED BY <1>1, <1>2

LEMMA SubmitKeeps ==
    ASSUME EditorInv, NEW kind \in {"Activate", "Pause", "Reactivate", "Update"},
           url # None, Submit(kind)
    PROVE  EditorInv'
  <1>1. PICK key \in Keys : KeyFor(kind, key) /\ Send(kind, kind, url, key, form)
    BY DEF Submit
  <1>2. keyRef' \in [KeyedKinds -> Keys \cup {None}]
    BY <1>1, KeyForType DEF EditorInv, KeyedKinds, Kinds
  <1> QED BY <1>1, <1>2, PageSends DEF Submit, Kinds

(* A page that shows a stored offering.                                     *)
LEMMA HydrateGood ==
    ASSUME EditorInv, NEW o \in OfferingIds, Stored(o), Hydrate(o)
    PROVE  PageTypeOK' /\ url' = o /\ url' # None
  <1>1. /\ status[o] \in {"Draft", "Active", "Paused"} /\ content[o] \in Contents
        /\ o # None
    BY OfferingsAssumption DEF EditorInv, ServerInv, StoredInv, Anchored, Stored
  <1> QED BY <1>1 DEF Hydrate, PageTypeOK, View

LEMMA AnswerOf ==
    ASSUME EditorInv, NEW kind \in Kinds, Delivered(kind)
    PROVE  call[kind].view \in View
  BY EditorAssumption DEF Delivered, Phase, EditorInv, ServerInv, Call, Idle

(* An answer that leaves the page at its address.                           *)
LEMMA ReceivedHere ==
    ASSUME EditorInv, NEW kind \in Kinds \ {"Create"}, Delivered(kind), Receive(kind),
           view' = call[kind].view, UNCHANGED <<url, form>>,
           UNCHANGED mode \/ mode' = "closed", UNCHANGED entered \/ entered' = None,
           UNCHANGED keyRef \/ (kind \in KeyedKinds /\ Drop(kind))
    PROVE  EditorInv'
  <1>1. ServerInv' /\ StaysStored
    BY ReceiveKeeps DEF EditorInv
  <1>2. keyRef' \in [KeyedKinds -> Keys \cup {None}]
    BY DEF EditorInv, PageTypeOK, Drop
  <1>3. PageTypeOK'
    BY <1>2, AnswerOf DEF EditorInv, PageTypeOK
  <1>4. url # None
    BY DEF EditorInv, PageAnchored, Delivered
  <1>5. PageAnchored'
    BY <1>1, <1>4 DEF EditorInv, PageTypeOK, PageAnchored, StaysStored, Stored
  <1> QED BY <1>1, <1>3, <1>5 DEF EditorInv

LEMMA CreatedKeeps ==
    ASSUME EditorInv, Created
    PROVE  EditorInv'
  <1>1. "Create" \in Kinds /\ "Create" \in Callers
    BY EditorAssumption DEF Kinds
  <1>2. ServerInv' /\ StaysStored
    BY <1>1, ReceiveKeeps DEF Created, EditorInv
  <1>3. PICK o \in OfferingIds : o = call["Create"].view.offering
    BY <1>1, AnswerOf DEF Created, View
  <1>4. Stored(o) /\ Hydrate(o)
    BY <1>1, <1>3 DEF Created, Delivered, Phase, EditorInv, ServerInv, AnswersStored
  <1>5. PageTypeOK' /\ url' # None /\ status'[url'] # "None"
    BY <1>2, <1>4, HydrateGood DEF StaysStored, Stored
  <1> QED BY <1>2, <1>5 DEF EditorInv, PageAnchored, Stored

(* Commands that find a new caller stay the commands they are.              *)
LEMMA AbandonKeeps ==
    ASSUME ServerInv, NEW kinds \in SUBSET Kinds, Abandon(kinds),
           UNCHANGED <<profile, publications, stored, eligible>>
    PROVE  /\ ServerInv' /\ StaysStored
           /\ \A k \in Kinds : call'[k] = IF k \in kinds THEN Idle ELSE call[k]
  <1> DEFINE moved == {k \in kinds : Phase(k) # "done"}
             free  == {c \in Others : call[c] = Idle}
  <1>1. PICK heir \in [moved -> free] :
           call' = [c \in Callers |->
                     IF c \in kinds THEN Idle
                     ELSE IF \E k \in DOMAIN heir : heir[k] = c
                          THEN call[CHOOSE k \in DOMAIN heir : heir[k] = c]
                     ELSE call[c]]
    BY DEF Abandon
  <1>2. ASSUME NEW c \in Callers
        PROVE  call'[c] = Idle \/ \E d \in Callers : call'[c] = call[d]
    <2>1. CASE \E k \in DOMAIN heir : heir[k] = c
      <3>1. (CHOOSE k \in DOMAIN heir : heir[k] = c) \in Callers
        BY <2>1, EditorAssumption
      <3> QED BY <1>1, <3>1
    <2> QED BY <1>1, <2>1
  <1>3. GoodCall(Idle) /\ Idle.phase # "done" /\ Idle \in Call
    BY DEF GoodCall, Call, Idle
  <1>4. StoredInv' /\ StaysStored
    BY StoredRests DEF StaysStored, Stored, stored
  <1>5. \A c \in Callers : call'[c] \in Call /\ GoodCall(call[c])'
    BY <1>2, <1>3 DEF ServerInv, GoodCall
  <1>6. call' \in [Callers -> Call]
    BY <1>1, <1>5
  <1>7. AnswersStored'
    BY <1>2, <1>3 DEF ServerInv, AnswersStored, Stored, stored
  <1>8. \A k \in Kinds : call'[k] = IF k \in kinds THEN Idle ELSE call[k]
    BY <1>1, EditorAssumption
  <1> QED BY <1>4, <1>5, <1>6, <1>7, <1>8 DEF ServerInv

LEMMA ReloadKeeps ==
    ASSUME EditorInv, Reload
    PROVE  EditorInv'
  <1>1. /\ ServerInv' /\ StaysStored
        /\ \A k \in Kinds : call'[k] = Idle
    BY AbandonKeeps DEF EditorInv, Reload
  <1>2. CASE NewPage
    BY <1>1, <1>2, EditorAssumption DEF NewPage, EditorInv, PageTypeOK, PageAnchored
  <1>3. ASSUME NEW o \in OfferingIds, Stored(o), Hydrate(o)
        PROVE  EditorInv'
    BY <1>1, <1>3, HydrateGood DEF EditorInv, PageAnchored, StaysStored, Stored
  <1>4. CASE url # None /\ Hydrate(url)
    BY <1>3, <1>4 DEF EditorInv, PageTypeOK, PageAnchored
  <1> QED BY <1>2, <1>3, <1>4 DEF Reload, Stored

LEMMA GiveUpKeeps ==
    ASSUME EditorInv, NEW kind \in Kinds, GiveUp(kind)
    PROVE  EditorInv'
  <1>1. /\ ServerInv' /\ StaysStored
        /\ \A k \in Kinds : call'[k] # Idle => call[k] # Idle
    BY AbandonKeeps DEF EditorInv, GiveUp
  <1>2. PageTypeOK' /\ PageAnchored'
    BY <1>1 DEF GiveUp, page, EditorInv, PageTypeOK, PageAnchored, StaysStored, Stored
  <1> QED BY <1>1, <1>2 DEF EditorInv

LEMMA RefetchKeeps ==
    ASSUME EditorInv, Refetch
    PROVE  EditorInv'
  <1>1. url \in OfferingIds /\ Stored(url) /\ UNCHANGED vars
    BY DEF Refetch, EditorInv, PageTypeOK, PageAnchored
  <1>2. /\ status[url] \in {"Draft", "Active", "Paused"} /\ content[url] \in Contents
    BY <1>1 DEF EditorInv, ServerInv, StoredInv, Anchored, Stored
  <1>3. StoredInv' /\ StaysStored
    BY <1>1, StoredRests DEF EditorInv, vars, StaysStored, Stored, stored
  <1>4. ServerInv'
    BY <1>1, <1>3, CallsRest DEF EditorInv, vars, ServerInv
  <1>5. PageTypeOK'
    BY <1>1, <1>2 DEF Refetch, EditorInv, PageTypeOK, View
  <1>6. PageAnchored'
    BY <1>1 DEF Refetch, EditorInv, PageAnchored, Stored, vars, stored
  <1> QED BY <1>4, <1>5, <1>6 DEF EditorInv

LEMMA PageStepKeeps ==
    ASSUME EditorInv, PageStep
    PROVE  EditorInv'
  <1>1. CASE (\E x \in Contents : Edit(x)) \/ EnterUpdate \/ EnterRepair \/ CancelEdits
    <2>1. StoredInv' /\ StaysStored /\ UNCHANGED vars
      BY <1>1, StoredRests
         DEF EditorInv, Edit, EnterUpdate, EnterRepair, EnterMode, CancelEdits,
             vars, StaysStored, Stored, stored
    <2>2. ServerInv'
      BY <2>1, CallsRest DEF EditorInv, vars, ServerInv
    <2>3. PageTypeOK'
      BY <1>1 DEF EditorInv, PageTypeOK, Edit, EnterUpdate, EnterRepair, EnterMode, CancelEdits,
                  Showing, View
    <2>4. PageAnchored'
      BY <1>1, <2>1 DEF EditorInv, PageTypeOK, PageAnchored, Edit, EnterUpdate, EnterRepair,
                  EnterMode, CancelEdits, Showing, vars, stored, Stored
    <2> QED BY <2>2, <2>3, <2>4 DEF EditorInv
  <1>2. CASE ClickActivate \/ ClickPause \/ SubmitEdits
    <2>1. url # None
      BY <1>2 DEF ClickActivate, ClickPause, SubmitEdits, EditorInv, PageAnchored
    <2> QED BY <1>2, <2>1, SubmitKeeps DEF ClickActivate, ClickPause, SubmitEdits
  <1>3. CASE Saved \/ Activated \/ PauseDone \/ Reactivated \/ Updated
    BY <1>3, ReceivedHere
       DEF Saved, Activated, PauseDone, Reactivated, Updated, KeyedKinds, Kinds
  <1> QED BY <1>1, <1>2, <1>3, SaveKeeps, CreatedKeeps, ReloadKeeps, GiveUpKeeps,
             RefetchKeeps DEF PageStep

(* A command of another caller: the page does not change.                   *)
LEMMA OtherSent ==
    ASSUME EditorInv, NEW tab \in Others, NEW kind \in Kinds,
           NEW o \in OfferingIds \cup {None}, NEW key \in Keys \cup {None},
           NEW x \in Contents, Send(tab, kind, o, key, x),
           kind # "Create" => o \in OfferingIds, kind # "Save" => key \in Keys,
           UNCHANGED <<profile, publications, stored, eligible, page>>
    PROVE  EditorInv'
  <1>1. tab \in Callers
    BY EditorAssumption
  <1>2. ServerInv' /\ StaysStored
    BY <1>1, SendKeeps DEF EditorInv
  <1>3. \A k \in Kinds : call'[k] = call[k]
    BY EditorAssumption DEF Send, SetCall, EditorInv, ServerInv
  <1>4. PageTypeOK' /\ PageAnchored'
    BY <1>2, <1>3 DEF page, EditorInv, PageTypeOK, PageAnchored, StaysStored, Stored
  <1> QED BY <1>2, <1>4 DEF EditorInv

LEMMA OtherSendsKeeps ==
    ASSUME EditorInv, OtherSends
    PROVE  EditorInv'
  <1>1. UNCHANGED <<profile, publications, stored, eligible, page>>
    BY DEF OtherSends
  <1>2. PICK tab \in Others, key \in Keys :
           \/ \E x \in Contents : Send(tab, "Create", None, key, x)
           \/ \E o \in OfferingIds :
                 /\ Stored(o)
                 /\ \/ Send(tab, "Pause", o, key, content[o])
                    \/ \E x \in Contents : Send(tab, "Save", o, None, x)
                    \/ \E kind \in {"Activate", "Reactivate", "Update"}, x \in Complete :
                          Send(tab, kind, o, key, x)
    BY DEF OtherSends, Fresh, Stored
  <1>3. ASSUME NEW x \in Contents, Send(tab, "Create", None, key, x)
        PROVE  EditorInv'
    BY <1>1, <1>3, OtherSent DEF Kinds
  <1>4. ASSUME NEW o \in OfferingIds, Stored(o), Send(tab, "Pause", o, key, content[o])
        PROVE  EditorInv'
    <2>1. content[o] \in Contents
      BY <1>4 DEF EditorInv, ServerInv, StoredInv, Anchored
    <2> QED BY <1>1, <1>4, <2>1, OtherSent DEF Kinds
  <1>5. ASSUME NEW o \in OfferingIds, NEW x \in Contents, Send(tab, "Save", o, None, x)
        PROVE  EditorInv'
    BY <1>1, <1>5, OtherSent DEF Kinds
  <1>6. ASSUME NEW o \in OfferingIds, NEW kind \in {"Activate", "Reactivate", "Update"},
               NEW x \in Complete, Send(tab, kind, o, key, x)
        PROVE  EditorInv'
    <2>1. x \in Contents /\ kind \in Kinds
      BY OfferingsAssumption DEF Kinds
    <2> QED BY <1>1, <1>6, <2>1, OtherSent
  <1> QED BY <1>2, <1>3, <1>4, <1>5, <1>6

LEMMA EditorStep == EditorInv /\ [EditorNext]_editorVars => EditorInv'
  <1> SUFFICES ASSUME EditorInv, [EditorNext]_editorVars PROVE EditorInv'
    OBVIOUS
  <1>1. CASE UNCHANGED editorVars
    <2>1. ServerInv'
      BY <1>1 DEF EditorInv, editorVars, vars, stored, ServerInv, StoredInv, Anchored, Stored,
                  PublishedIsComplete, OneOfferingPerAttempt, PublicAfterPublication,
                  GoodCall, AnswersStored
    <2> QED BY <1>1, <2>1 DEF EditorInv, editorVars, vars, stored, page, PageTypeOK,
               PageAnchored, Stored
  <1> QED BY <1>1, OfferingsNextKeeps, PageStepKeeps, OtherSendsKeeps DEF EditorNext

THEOREM EditorInvariant == EditorSpec => []EditorInv
  BY InitInv, EditorStep, PTL DEF EditorSpec

(* The type of every variable of the server and of the page (EditorTypeOK). *)
THEOREM EditorTypeCorrect == EditorSpec => []EditorTypeOK
  <1>1. EditorInv => EditorTypeOK
    BY DEF EditorInv, ServerInv, StoredInv, PageTypeOK, EditorTypeOK, OfferingsTypeOK
  <1> QED BY <1>1, EditorInvariant, PTL

(* What is or was public has complete fields (PublishedIsComplete), however *)
(* saves, activations and updates of two tabs interleave.                   *)
THEOREM PublishedStaysComplete == EditorSpec => []PublishedIsComplete
  <1>1. EditorInv => PublishedIsComplete
    BY DEF EditorInv, ServerInv, StoredInv
  <1> QED BY <1>1, EditorInvariant, PTL

(* A first save makes one offering (OneOfferingPerAttempt), however often   *)
(* its answer is lost and it is sent again.                                 *)
THEOREM AttemptsMakeOneOffering == EditorSpec => []OneOfferingPerAttempt
  <1>1. EditorInv => OneOfferingPerAttempt
    BY DEF EditorInv, ServerInv, StoredInv
  <1> QED BY <1>1, EditorInvariant, PTL

(* Nothing is made public before the profile was published                  *)
(* (PublicAfterPublication), although an activation reads the profile       *)
(* before its transaction.                                                  *)
THEOREM NothingPublicUnpublished == EditorSpec => []PublicAfterPublication
  <1>1. EditorInv => PublicAfterPublication
    BY DEF EditorInv, ServerInv, StoredInv
  <1> QED BY <1>1, EditorInvariant, PTL
-----------------------------------------------------------------------------
(* How one offering differs after a step, which the two action properties   *)
(* read off.                                                                *)
Replaced(o) == status'[o] # status[o] \/ content'[o] # content[o]

LEMMA OneChanges ==
    ASSUME StoredInv, NEW o \in OfferingIds, NEW s, NEW x, Change(o, s, x),
           NEW j \in OfferingIds
    PROVE  IF j = o THEN status'[j] = s /\ content'[j] = x ELSE ~Replaced(j)
  BY DEF StoredInv, Change, Replaced

(* The steps that replace nothing stored.                                   *)
LEMMA PagesReplaceNothing ==
    ASSUME (OtherSends \/ PageStep)
    PROVE  UNCHANGED <<profile, publications, stored, eligible>>
  BY DEF OtherSends, PageStep, Edit, Save, ClickActivate, ClickPause, SubmitEdits, Submit,
         EnterUpdate, EnterRepair, EnterMode, CancelEdits, Created, Saved, Activated,
         PauseDone, Reactivated, Updated, Receive, Refetch, Reload, GiveUp, vars

(* A row recorded after a lookup that found none is a new one.              *)
LEMMA RecordedAnew ==
    ASSUME NEW o, NEW key, NEW kind,
           ~Committed(kind, o, key), Record(Table(kind), o, key)
    PROVE  NewRow(o)
  <1> DEFINE row == [kind |-> Table(kind), offering |-> o, key |-> key]
  <1>1. row \in evidence' /\ row.kind = Table(kind) /\ row.offering = o /\ row.key = key
    BY DEF Record
  <1>2. \A old \in evidence : ~(old.offering = o /\ old.kind = Table(kind) /\ old.key = key)
    BY DEF Committed
  <1> HIDE DEF row
  <1> QED BY <1>1, <1>2 DEF NewRow

(* What a command of the server may do to an offering.                      *)
Lawful(o) ==
    \/ status[o] = "None"
    \/ status[o] = "Draft" /\ status'[o] = "Draft"
    \/ status[o] = "Draft" /\ NewRow(o)
    \/ status'[o] = "Paused" /\ NewRow(o)
    \/ NewRow(o) /\ profile = "Published" /\ SatisfiesContract(o, content'[o])

LEMMA ServeIsLawful ==
    ASSUME ServerInv, NEW c \in Callers, Serve(c), NEW j \in OfferingIds, Replaced(j)
    PROVE  Lawful(j)
  <1> DEFINE o == call[c].command.offering
             key == call[c].command.key
             x == call[c].command.content
  <1>1. ~UNCHANGED stored
    BY DEF Replaced, stored
  <1>2. CASE CreateDraft(c)
    <2>1. PICK i \in OfferingIds : InsertDraft(i, key, x)
      BY <1>1, <1>2 DEF CreateDraft
    <2> HIDE DEF key, x
    <2> QED BY <2>1, OneChanges DEF InsertDraft, Lawful, ServerInv
  <1>3. CASE SaveDraft(c)
    <2>1. o \in OfferingIds
      BY <1>3, CommandOf DEF SaveDraft, Underway, Phase
    <2>2. status[o] = "Draft" /\ Change(o, "Draft", x)
      BY <1>3 DEF SaveDraft
    <2> HIDE DEF o, x
    <2> QED BY <2>1, <2>2, OneChanges DEF Lawful, ServerInv
  <1>4. CASE Activate(c)
    <2>1. o \in OfferingIds
      BY <1>4, CommandOf DEF Activate, Phase
    <2>2. /\ status[o] = "Draft" /\ Change(o, "Active", x)
          /\ ~Committed("Activate", o, key) /\ Record("Activate", o, key)
      BY <1>1, <1>4 DEF Activate, Converge
    <2>3. NewRow(o)
      BY <2>2, RecordedAnew DEF Table
    <2> HIDE DEF o, key, x
    <2> QED BY <2>1, <2>2, <2>3, OneChanges DEF Lawful, ServerInv
  <1>5. CASE Pause(c)
    <2>1. o \in OfferingIds
      BY <1>5, CommandOf DEF Pause, Underway, Phase
    <2>2. /\ Change(o, "Paused", content[o])
          /\ ~Committed("Pause", o, key) /\ Record("Pause", o, key)
      BY <1>1, <1>5 DEF Pause, Converge
    <2>3. NewRow(o)
      BY <2>2, RecordedAnew DEF Table
    <2> HIDE DEF o, key
    <2> QED BY <2>1, <2>2, <2>3, OneChanges DEF Lawful, ServerInv
  <1>6. ASSUME NEW kind \in {"Reactivate", "Update"}, NEW from, Rewrite(c, kind, from, Table(kind))
        PROVE  Lawful(j)
    <2>1. o \in OfferingIds
      BY <1>6, CommandOf DEF Rewrite, Underway, Phase
    <2>2. /\ profile = "Published" /\ SatisfiesContract(o, x) /\ Change(o, "Active", x)
          /\ ~Committed(kind, o, key) /\ Record(Table(kind), o, key)
      BY <1>1, <1>6 DEF Rewrite, Converge
    <2>3. NewRow(o)
      BY <2>2, RecordedAnew
    <2>4. content'[o] = x /\ (j # o => ~Replaced(j))
      <3> HIDE DEF o, x
      <3> QED BY <2>1, <2>2, OneChanges DEF ServerInv
    <2> HIDE DEF o, key, x
    <2> QED BY <2>2, <2>3, <2>4 DEF Lawful
  <1>7. CASE CheckProfile(c) \/ Fail(c)
    BY <1>1, <1>7 DEF CheckProfile, Fail
  <1>8. CASE Reactivate(c) \/ UpdateActive(c)
    BY <1>6, <1>8 DEF Reactivate, UpdateActive, Table
  <1> QED BY <1>2, <1>3, <1>4, <1>5, <1>7, <1>8 DEF Serve

LEMMA StepIsLawful ==
    ASSUME EditorInv, [EditorNext]_editorVars, NEW o \in OfferingIds, Replaced(o)
    PROVE  Lawful(o) \/ PausedByRemoval(o)
  <1>1. ~UNCHANGED stored
    BY DEF Replaced, stored
  <1>2. OfferingsNext
    BY <1>1, PagesReplaceNothing DEF EditorNext, editorVars, vars
  <1>3. CASE Surroundings
    <2>1. PICK j \in OfferingIds : SamplesChange(j) \/ PausedByRemoval(j)
      BY <1>1, <1>3 DEF Surroundings, SaveProfileDraft, Suspend, Reinstate, PublishProfile,
                        UpdatePublishedProfile, WritePublication
    <2>2. PausedByRemoval(j)
      BY <1>1, <2>1 DEF SamplesChange
    <2>3. \A i \in OfferingIds : i # j => ~Replaced(i)
      BY <2>2 DEF PausedByRemoval, Replaced, EditorInv, ServerInv, StoredInv
    <2> QED BY <2>2, <2>3
  <1> QED BY <1>2, <1>3, ServeIsLawful DEF OfferingsNext, EditorInv

(* What is public comes back or changes only under the contract             *)
(* (ChangesUnderContract), whatever is suspended or removed meanwhile.      *)
THEOREM PublicChangesUnderContract == EditorSpec => ChangesUnderContract
  <1> DEFINE Ok(o) == PublicChange(o) => profile = "Published"
                                         /\ SatisfiesContract(o, content'[o])
  <1>1. EditorInv /\ [EditorNext]_editorVars => [\A o \in OfferingIds : Ok(o)]_vars
    <2> SUFFICES ASSUME EditorInv, [EditorNext]_editorVars,
                        NEW o \in OfferingIds, PublicChange(o)
                 PROVE  profile = "Published" /\ SatisfiesContract(o, content'[o])
      OBVIOUS
    <2>1. Lawful(o) \/ PausedByRemoval(o)
      BY StepIsLawful DEF PublicChange, Replaced
    <2>2. ~PausedByRemoval(o)
      BY DEF PublicChange, PausedByRemoval, EditorInv, ServerInv, StoredInv
    <2> QED BY <2>1, <2>2 DEF Lawful, PublicChange
  <1> QED BY <1>1, EditorInvariant, PTL DEF EditorSpec, ChangesUnderContract

(* A key works once (OneTransitionPerKey): a command repeated after its     *)
(* answer was lost changes nothing.                                         *)
THEOREM KeysWorkOnce == EditorSpec => OneTransitionPerKey
  <1> DEFINE Ok(o) == /\ status[o] # "None"
                      /\ \/ status'[o] # status[o]
                         \/ status[o] # "Draft" /\ content'[o] # content[o]
                      => NewRow(o) \/ PausedByRemoval(o)
  <1>1. EditorInv /\ [EditorNext]_editorVars => [\A o \in OfferingIds : Ok(o)]_vars
    <2> SUFFICES ASSUME EditorInv, [EditorNext]_editorVars,
                        NEW o \in OfferingIds, status[o] # "None",
                        \/ status'[o] # status[o]
                        \/ status[o] # "Draft" /\ content'[o] # content[o]
                 PROVE  NewRow(o) \/ PausedByRemoval(o)
      OBVIOUS
    <2>1. Lawful(o) \/ PausedByRemoval(o)
      BY StepIsLawful DEF Replaced
    <2> QED BY <2>1 DEF Lawful
  <1> QED BY <1>1, EditorInvariant, PTL DEF EditorSpec, OneTransitionPerKey
=============================================================================
