--------------------------- MODULE OfferingEditor ---------------------------
(* The page on which a seller edits an offering                             *)
(* (apps/web/src/app/seller/services/[offeringId]/edit/page.tsx), over the  *)
(* API of Offerings; other tabs send commands as well.                      *)
(*                                                                          *)
(* The page keeps one idempotency key for each kind of command.  It makes a *)
(* key when it has none, keeps it when a command fails, for the retry, and  *)
(* drops the keys of a pause, a reactivation and an update on success.  Each*)
(* kind has its own "saving" state, so commands of two kinds may be under   *)
(* way at once: the callers of the page are the kinds.  A command that fails*)
(* (Fail) leaves the page as it is, the key included.  The other callers    *)
(* are other tabs, and commands whose page no longer waits for them.        *)
EXTENDS Offerings

CONSTANTS
    Others,     \* more callers
    Blank       \* the content of an empty form

ASSUME EditorAssumption ==
    /\ Callers = Kinds \cup Others /\ Others \cap Kinds = {}
    /\ Blank \in Contents

VARIABLES
    url,        \* the offering the page is about, None for "new"
    form,       \* what the inputs hold
    view,       \* the offering as last answered, None before
    mode,       \* localEditMode
    entered,    \* content of the snapshot taken on entering that mode
    keyRef      \* the idempotency key the page holds for each kind

page == <<url, form, view, mode, entered, keyRef>>
editorVars == <<vars, page>>

KeyedKinds == Kinds \ {"Save"}

EditorTypeOK ==
    /\ OfferingsTypeOK
    /\ url \in OfferingIds \cup {None}
    /\ form \in Contents
    /\ view \in View \cup {None}
    /\ mode \in {"closed", "active-update", "paused-repair"}
    /\ entered \in Contents \cup {None}
    /\ keyRef \in [KeyedKinds -> Keys \cup {None}]

NewPage ==
    /\ url' = None /\ form' = Blank /\ view' = None
    /\ mode' = "closed" /\ entered' = None
    /\ keyRef' = [k \in KeyedKinds |-> None]

EditorInit ==
    /\ OfferingsInit
    /\ url = None /\ form = Blank /\ view = None
    /\ mode = "closed" /\ entered = None
    /\ keyRef = [k \in KeyedKinds |-> None]
-----------------------------------------------------------------------------
(* A random UUID has been used by nobody.                                   *)
Fresh == Keys \ ({keyRef[k] : k \in KeyedKinds} \cup {row.key : row \in evidence}
                 \cup {k \in Keys : creations[k] # None}
                 \cup {call[c].command.key : c \in {d \in Callers : Phase(d) \in {"sent", "checked"}}})

(* The key of the attempt: the one at hand, or a new one.                   *)
KeyFor(kind, key) ==
    /\ IF keyRef[kind] # None THEN key = keyRef[kind] ELSE key \in Fresh
    /\ keyRef' = [keyRef EXCEPT ![kind] = key]

Showing(s) == view # None /\ view.status = s
ReadOnly   == (Showing("Active") \/ Showing("Paused")) /\ mode = "closed"

Edit(x) ==
    /\ ~ReadOnly /\ x # form
    /\ form' = x
    /\ UNCHANGED <<vars, url, view, mode, entered, keyRef>>

(* performSave: the first save of a new page creates, later ones replace.   *)
(* The button is there unless the page shows an Active or Paused offering.  *)
Save ==
    /\ ~Showing("Active") /\ ~Showing("Paused")
    /\ IF url = None
       THEN \E key \in Keys : KeyFor("Create", key) /\ Send("Create", "Create", None, key, form)
       ELSE Send("Save", "Save", url, None, form) /\ UNCHANGED keyRef
    /\ UNCHANGED <<profile, publications, stored, eligible, url, form, view, mode, entered>>

Submit(kind) ==
    /\ \E key \in Keys : KeyFor(kind, key) /\ Send(kind, kind, url, key, form)
    /\ UNCHANGED <<profile, publications, stored, eligible, url, form, view, mode, entered>>

(* canActivate; the list of samples is taken to be up to date.              *)
ClickActivate ==
    /\ url # None /\ Showing("Draft") /\ form \in Complete /\ eligible[url]
    /\ call["Save"] = Idle /\ call["Create"] = Idle
    /\ Submit("Activate")

ClickPause ==
    /\ url # None /\ Showing("Active")
    /\ Submit("Pause")

EnterMode(m) ==
    /\ mode' = m /\ entered' = view.content
    /\ UNCHANGED <<vars, url, form, view, keyRef>>

EnterUpdate == Showing("Active") /\ call["Update"] = Idle /\ EnterMode("active-update")
EnterRepair == /\ Showing("Paused") /\ mode # "paused-repair" /\ call["Reactivate"] = Idle
               /\ form \in Complete /\ eligible[url]
               /\ EnterMode("paused-repair")

CancelEdits ==
    /\ mode # "closed"
    /\ form' = IF entered # None THEN entered ELSE form
    /\ mode' = "closed" /\ entered' = None
    /\ UNCHANGED <<vars, url, view, keyRef>>

(* The two modes share the submit button.                                   *)
SubmitEdits ==
    \/ mode = "paused-repair" /\ Submit("Reactivate")
    \/ mode = "active-update" /\ Submit("Update")
-----------------------------------------------------------------------------
(* The answers.  Creation moves the page to the offering's own address,     *)
(* where it is mounted anew and loads the offering.                         *)
Hydrate(o) ==
    /\ url' = o /\ form' = content[o]
    /\ view' = [offering |-> o, status |-> status[o], content |-> content[o]]
    /\ mode' = "closed" /\ entered' = None
    /\ keyRef' = [k \in KeyedKinds |-> None]

Delivered(kind) == call[kind] # Idle /\ Phase(kind) = "done"
Receive(kind)   == SetCall(kind, Idle) /\ UNCHANGED <<profile, publications, stored, eligible>>
Drop(kind)      == keyRef' = [keyRef EXCEPT ![kind] = None]

Created == Delivered("Create") /\ Hydrate(call["Create"].view.offering) /\ Receive("Create")

Saved ==
    /\ Delivered("Save") /\ Receive("Save")
    /\ view' = call["Save"].view
    /\ UNCHANGED <<url, form, mode, entered, keyRef>>

Activated ==
    /\ Delivered("Activate") /\ Receive("Activate")
    /\ view' = call["Activate"].view
    /\ UNCHANGED <<url, form, mode, entered, keyRef>>

PauseDone ==
    /\ Delivered("Pause") /\ Receive("Pause")
    /\ view' = call["Pause"].view
    /\ Drop("Pause")
    /\ UNCHANGED <<url, form, mode, entered>>

Reactivated ==
    /\ Delivered("Reactivate") /\ Receive("Reactivate")
    /\ view' = call["Reactivate"].view
    /\ mode' = "closed" /\ entered' = None
    /\ Drop("Reactivate")
    /\ UNCHANGED <<url, form>>

Updated ==
    /\ Delivered("Update") /\ Receive("Update")
    /\ view' = call["Update"].view
    /\ mode' = "closed"
    /\ Drop("Update")
    /\ UNCHANGED <<url, form, entered>>

(* After the removal of a final sample the page asks for the offering, if   *)
(* it showed it as Active when the removal was confirmed; by now it may     *)
(* show something else.  The inputs stay.                                   *)
Refetch ==
    /\ view # None
    /\ view' = [offering |-> url, status |-> status[url], content |-> content[url]]
    /\ UNCHANGED <<vars, url, form, mode, entered, keyRef>>

(* What the page sent goes on without it: the caller is somebody else now,  *)
(* or nobody when the answer is all that was left.                          *)
Abandon(kinds) ==
    \E heir \in [{k \in kinds : Phase(k) # "done"} -> {c \in Others : call[c] = Idle}] :
       /\ \A j, k \in DOMAIN heir : heir[j] = heir[k] => j = k
       /\ call' = [c \in Callers |->
                     IF c \in kinds THEN Idle
                     ELSE IF \E k \in DOMAIN heir : heir[k] = c
                          THEN call[CHOOSE k \in DOMAIN heir : heir[k] = c]
                     ELSE call[c]]

(* The seller reloads the page, or leaves it and opens a new one.           *)
Reload ==
    /\ Abandon({k \in Kinds : call[k] # Idle})
    /\ \/ url # None /\ Hydrate(url)
       \/ NewPage
       \/ \E o \in OfferingIds : status[o] # "None" /\ Hydrate(o)
    /\ UNCHANGED <<profile, publications, stored, eligible>>

(* The connection breaks: the page is told that the command failed and      *)
(* keeps the key, and the server may commit it later.                       *)
GiveUp(kind) ==
    /\ call[kind] # Idle
    /\ Abandon({kind})
    /\ UNCHANGED <<profile, publications, stored, eligible, page>>

(* Another tab of the seller sends a command with a key of its own; what    *)
(* that tab shows, and is answered, matters to nobody here.                 *)
OtherSends ==
    /\ \E tab \in {c \in Others : call[c] = Idle}, key \in Fresh :
          \/ \E x \in Contents : Send(tab, "Create", None, key, x)
          \/ \E o \in OfferingIds :
                /\ status[o] # "None"
                /\ \/ Send(tab, "Pause", o, key, content[o])
                   \/ \E x \in Contents : Send(tab, "Save", o, None, x)
                   \/ \E kind \in {"Activate", "Reactivate", "Update"}, x \in Complete :
                         Send(tab, kind, o, key, x)
    /\ UNCHANGED <<profile, publications, stored, eligible, page>>

PageStep ==
    \/ \E x \in Contents : Edit(x)
    \/ Save \/ ClickActivate \/ ClickPause
    \/ EnterUpdate \/ EnterRepair \/ CancelEdits \/ SubmitEdits
    \/ Created \/ Saved \/ Activated \/ PauseDone \/ Reactivated \/ Updated
    \/ Refetch \/ Reload \/ \E kind \in Kinds : GiveUp(kind)

EditorNext ==
    \/ OfferingsNext /\ UNCHANGED page
    \/ PageStep
    \/ OtherSends

EditorSpec == EditorInit /\ [][EditorNext]_editorVars
=============================================================================
