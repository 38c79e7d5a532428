----------------------------- MODULE Offerings -----------------------------
(* The service offerings of one seller workspace and the SellerProfile they *)
(* depend on (prisma-service-offering.repository.ts,                        *)
(* prisma-seller-profile.repository.ts and the two services above them).    *)
(*                                                                          *)
(* A repository method is one transaction under advisory locks, so one      *)
(* action.  A command travels: it is Sent, the server commits it, and its   *)
(* answer is delivered or lost.  Activation alone does something between,   *)
(* as its service reads the profile before the transaction.                 *)
(* Commands carry the idempotency key of an attempt; a commit leaves a row  *)
(* with that key, and a command that finds such a row commits nothing and   *)
(* is answered with what is stored now.                                     *)
EXTENDS FiniteSets

CONSTANTS
    OfferingIds,    \* service_offerings.id
    Keys,           \* idempotency keys, each for one attempt
    PublicationKeys,
    Contents,       \* what a form can hold
    Complete,       \* the contents that satisfy the activation contract
    Callers,        \* who has at most one command under way each
    None            \* no offering, no key, no content

ASSUME OfferingsAssumption ==
    /\ Complete \subseteq Contents
    /\ None \notin OfferingIds \cup Keys \cup Contents

VARIABLES
    profile,        \* seller_profiles.status, "None" without a row
    publications,   \* keys of seller_profile_publications
    status,         \* service_offerings.status, "None" without a row
    content,        \* the fields of an offering
    eligible,       \* whether 1 to 3 confirmed samples are Live
    creations,      \* service_offering_creations: which offering a key made
    evidence,       \* activation, pause and update rows
    call            \* the command each caller has under way

stored == <<status, content, creations, evidence>>
vars   == <<profile, publications, stored, eligible, call>>

Kinds == {"Create", "Save", "Activate", "Pause", "Reactivate", "Update"}
Table(kind) == IF kind = "Reactivate" THEN "Activate" ELSE kind

Row == [kind : {"Activate", "Pause", "Update"}, offering : OfferingIds, key : Keys]
Command == [kind : Kinds, offering : OfferingIds \cup {None}, key : Keys \cup {None},
            content : Contents]
View == [offering : OfferingIds, status : {"Draft", "Active", "Paused"}, content : Contents]
Idle == [phase |-> "idle"]
Call == {Idle} \cup [phase : {"sent", "checked"}, command : Command]
               \cup [phase : {"done"}, view : View]

OfferingsTypeOK ==
    /\ profile \in {"None", "Draft", "Published", "Suspended"}
    /\ publications \subseteq PublicationKeys
    /\ status \in [OfferingIds -> {"None", "Draft", "Active", "Paused"}]
    /\ content \in [OfferingIds -> Contents \cup {None}]
    /\ eligible \in [OfferingIds -> BOOLEAN]
    /\ creations \in [Keys -> OfferingIds \cup {None}]
    /\ evidence \subseteq Row
    /\ call \in [Callers -> Call]

OfferingsInit ==
    /\ profile = "None" /\ publications = {}
    /\ status = [o \in OfferingIds |-> "None"]
    /\ content = [o \in OfferingIds |-> None]
    /\ eligible = [o \in OfferingIds |-> FALSE]
    /\ creations = [k \in Keys |-> None]
    /\ evidence = {}
    /\ call = [c \in Callers |-> Idle]
-----------------------------------------------------------------------------
(* The profile.  Publishing with the key of an earlier publication returns  *)
(* the profile as it is; the fields of a profile decide nothing here.       *)
SaveProfileDraft ==
    /\ profile \in {"None", "Draft"}
    /\ profile' = "Draft"
    /\ UNCHANGED <<publications, stored, eligible, call>>

WritePublication(from, key) ==
    /\ key \notin publications
    /\ profile = from
    /\ profile' = "Published"
    /\ publications' = publications \cup {key}
    /\ UNCHANGED <<stored, eligible, call>>

PublishProfile(key)         == WritePublication("Draft", key)
UpdatePublishedProfile(key) == WritePublication("Published", key)

(* Operators suspend a profile and lift the suspension in the database.     *)
Suspend ==
    /\ profile = "Published"
    /\ profile' = "Suspended"
    /\ UNCHANGED <<publications, stored, eligible, call>>

Reinstate ==
    /\ profile = "Suspended"
    /\ profile' = "Published"
    /\ UNCHANGED <<publications, stored, eligible, call>>
-----------------------------------------------------------------------------
(* The samples are modelled in AudioSamples.  Here they come and go, the    *)
(* last one of an Active offering also without a pause: the race that the   *)
(* run last_sample of AudioSamples shows.                                   *)
SamplesChange(o) ==
    /\ status[o] # "None"
    /\ eligible' = [eligible EXCEPT ![o] = ~@]
    /\ UNCHANGED <<profile, publications, stored, call>>

PausedByRemoval(o) ==
    /\ status[o] = "Active" /\ eligible[o]
    /\ eligible' = [eligible EXCEPT ![o] = FALSE]
    /\ status' = [status EXCEPT ![o] = "Paused"]
    /\ UNCHANGED <<profile, publications, content, creations, evidence, call>>
-----------------------------------------------------------------------------
SetCall(c, value) == call' = [call EXCEPT ![c] = value]
Phase(c)          == call[c].phase

Send(c, kind, o, key, x) ==
    /\ call[c] = Idle
    /\ SetCall(c, [phase |-> "sent",
                   command |-> [kind |-> kind, offering |-> o, key |-> key, content |-> x]])

Underway(c, kind) == Phase(c) = "sent" /\ call[c].command.kind = kind

(* The answer shows the offering as the transaction leaves it.              *)
Answer(c, o) ==
    SetCall(c, [phase |-> "done",
                view |-> [offering |-> o, status |-> status'[o], content |-> content'[o]]])

(* A refusal, a failure of the database, an answer lost on its way: the     *)
(* client sees an error in all cases, and what is stored stays as it is.    *)
Fail(c) ==
    /\ call[c] # Idle
    /\ SetCall(c, Idle)
    /\ UNCHANGED <<profile, publications, stored, eligible>>

Change(o, s, x) ==
    /\ status' = [status EXCEPT ![o] = s]
    /\ content' = [content EXCEPT ![o] = x]

Record(kind, o, key) ==
    evidence' = evidence \cup {[kind |-> kind, offering |-> o, key |-> key]}

(* Mutation: the lookup comes after the lifecycle check and is lost.        *)
NeverCommitted(kind, o, key) == FALSE

(* The lookup that precedes every lifecycle check.  Activation and          *)
(* reactivation share a table, so a key of one is known to the other.       *)
Committed(kind, o, key) ==
    \E row \in evidence : row.kind = Table(kind) /\ row.offering = o /\ row.key = key

Converge(c) ==
    /\ Committed(call[c].command.kind, call[c].command.offering, call[c].command.key)
    /\ UNCHANGED stored
    /\ Answer(c, call[c].command.offering)
-----------------------------------------------------------------------------
(* Mutation: the row is created first and the fields are left to a save.    *)
InsertEmptyDraft(o, key, x) ==
    /\ profile # "None"
    /\ status[o] = "None"
    /\ Change(o, "Draft", None)
    /\ creations' = [creations EXCEPT ![key] = o]
    /\ UNCHANGED evidence

(* The row, its fields and the evidence of the attempt, in one transaction. *)
InsertDraft(o, key, x) ==
    /\ profile # "None"
    /\ status[o] = "None"
    /\ Change(o, "Draft", x)
    /\ creations' = [creations EXCEPT ![key] = o]
    /\ UNCHANGED evidence

(* Mutation: create does not look for the offering of an earlier attempt.   *)
CreateDraftAnew(c) ==
    /\ Underway(c, "Create")
    /\ \E o \in OfferingIds :
          InsertDraft(o, call[c].command.key, call[c].command.content) /\ Answer(c, o)
    /\ UNCHANGED <<profile, publications, eligible>>

(* The first save.  The profile must exist, in whatever status.             *)
CreateDraft(c) ==
    /\ Underway(c, "Create")
    /\ LET key == call[c].command.key IN
       \/ creations[key] # None /\ UNCHANGED stored /\ Answer(c, creations[key])
       \/ /\ creations[key] = None
          /\ \E o \in OfferingIds :
                InsertDraft(o, key, call[c].command.content) /\ Answer(c, o)
    /\ UNCHANGED <<profile, publications, eligible>>

(* Mutation: a save is accepted for an offering that is no longer a Draft.  *)
SaveAnyStatus(c) ==
    /\ Underway(c, "Save")
    /\ LET o == call[c].command.offering IN
       /\ status[o] # "None"
       /\ Change(o, status[o], call[c].command.content)
       /\ Answer(c, o)
    /\ UNCHANGED <<profile, publications, creations, evidence, eligible>>

SaveDraft(c) ==
    /\ Underway(c, "Save")
    /\ LET o == call[c].command.offering IN
       /\ status[o] = "Draft"
       /\ Change(o, "Draft", call[c].command.content)
       /\ Answer(c, o)
    /\ UNCHANGED <<profile, publications, creations, evidence, eligible>>

(* The contract that activation, reactivation and update check again, under *)
(* the locks: the fields of the request and 1 to 3 confirmed Live samples.  *)
SatisfiesContract(o, x) == x \in Complete /\ eligible[o]

(* Mutation: activation trusts the editor that the profile is published.    *)
CheckAnyProfile(c) ==
    /\ Underway(c, "Activate")
    /\ SetCall(c, [call[c] EXCEPT !.phase = "checked"])
    /\ UNCHANGED <<profile, publications, stored, eligible>>

(* The service reads the profile in a statement of its own, before it opens *)
(* the transaction.                                                         *)
CheckProfile(c) ==
    /\ Underway(c, "Activate")
    /\ profile = "Published"
    /\ SetCall(c, [call[c] EXCEPT !.phase = "checked"])
    /\ UNCHANGED <<profile, publications, stored, eligible>>

Activate(c) ==
    /\ Phase(c) = "checked"
    /\ LET o == call[c].command.offering
           key == call[c].command.key
           x == call[c].command.content IN
       \/ Converge(c)
       \/ /\ ~Committed("Activate", o, key)
          /\ status[o] = "Draft"
          /\ SatisfiesContract(o, x)
          /\ Change(o, "Active", x)
          /\ Record("Activate", o, key)
          /\ UNCHANGED creations
          /\ Answer(c, o)
    /\ UNCHANGED <<profile, publications, eligible>>

Pause(c) ==
    /\ Underway(c, "Pause")
    /\ LET o == call[c].command.offering
           key == call[c].command.key IN
       \/ Converge(c)
       \/ /\ ~Committed("Pause", o, key)
          /\ status[o] = "Active"
          /\ Change(o, "Paused", content[o])
          /\ Record("Pause", o, key)
          /\ UNCHANGED creations
          /\ Answer(c, o)
    /\ UNCHANGED <<profile, publications, eligible>>

(* Mutation: the profile is not read again under the workspace lock.        *)
RewriteUnchecked(c, kind, from, table) ==
    /\ Underway(c, kind)
    /\ LET o == call[c].command.offering
           key == call[c].command.key
           x == call[c].command.content IN
       \/ Converge(c)
       \/ /\ ~Committed(kind, o, key)
          /\ status[o] = from
          /\ SatisfiesContract(o, x)
          /\ Change(o, "Active", x)
          /\ Record(table, o, key)
          /\ UNCHANGED creations
          /\ Answer(c, o)
    /\ UNCHANGED <<profile, publications, eligible>>

(* Reactivation and update read the profile in the transaction, under the   *)
(* lock that every write of a profile takes.                                *)
Rewrite(c, kind, from, table) ==
    /\ Underway(c, kind)
    /\ LET o == call[c].command.offering
           key == call[c].command.key
           x == call[c].command.content IN
       \/ Converge(c)
       \/ /\ ~Committed(kind, o, key)
          /\ status[o] = from
          /\ profile = "Published"
          /\ SatisfiesContract(o, x)
          /\ Change(o, "Active", x)
          /\ Record(table, o, key)
          /\ UNCHANGED creations
          /\ Answer(c, o)
    /\ UNCHANGED <<profile, publications, eligible>>

Reactivate(c)   == Rewrite(c, "Reactivate", "Paused", "Activate")
UpdateActive(c) == Rewrite(c, "Update", "Active", "Update")

Serve(c) ==
    \/ CreateDraft(c) \/ SaveDraft(c)
    \/ CheckProfile(c) \/ Activate(c)
    \/ Pause(c) \/ Reactivate(c) \/ UpdateActive(c)
    \/ Fail(c)

Surroundings ==
    \/ SaveProfileDraft \/ Suspend \/ Reinstate
    \/ \E key \in PublicationKeys : PublishProfile(key) \/ UpdatePublishedProfile(key)
    \/ \E o \in OfferingIds : SamplesChange(o) \/ PausedByRemoval(o)

OfferingsNext == Surroundings \/ \E c \in Callers : Serve(c)
-----------------------------------------------------------------------------
(* What buyers can see, or could until a pause, satisfies the activation    *)
(* contract's fields: no draft save slips in behind an activation, and no   *)
(* command replaces complete fields by incomplete ones.                     *)
PublishedIsComplete ==
    \A o \in OfferingIds : status[o] \in {"Active", "Paused"} => content[o] \in Complete

(* Every offering stems from exactly one first-save attempt, however often  *)
(* its answer was lost and the save repeated.                               *)
OneOfferingPerAttempt ==
    \A o \in OfferingIds :
        status[o] # "None" => \E k \in Keys : {j \in Keys : creations[j] = o} = {k}

(* An offering was never made public before the seller had published a      *)
(* profile.  That the profile is Published now is not promised: it may be   *)
(* suspended between the service's read and the transaction, or later.      *)
PublicAfterPublication ==
    (\E o \in OfferingIds : status[o] \in {"Active", "Paused"}) => publications # {}

(* What is public comes back or changes only while the profile is published *)
(* and the contract holds, although the profile is suspended and samples    *)
(* are removed by others at any time.                                       *)
PublicChange(o) == /\ status[o] \in {"Active", "Paused"} /\ status'[o] = "Active"
                   /\ status'[o] # status[o] \/ content'[o] # content[o]
ChangesUnderContract ==
    [][\A o \in OfferingIds :
          PublicChange(o) => profile = "Published" /\ SatisfiesContract(o, content'[o])]_vars

(* One transition, one row, one key: what is public changes by a command    *)
(* only with a key that had no row in its table and has one now, so that    *)
(* repeating a command whose answer was lost changes nothing.               *)
NewRow(o) == \E row \in evidence' \ evidence :
                 /\ row.offering = o
                 /\ \A old \in evidence :
                       ~(old.offering = o /\ old.kind = row.kind /\ old.key = row.key)
OneTransitionPerKey ==
    [][\A o \in OfferingIds :
          /\ status[o] # "None"
          /\ \/ status'[o] # status[o]
             \/ status[o] # "Draft" /\ content'[o] # content[o]
          => NewRow(o) \/ PausedByRemoval(o)]_vars
=============================================================================
