---------------------------- MODULE DealListing ----------------------------
(* The list of a workspace's deals (deal-list.service.ts over               *)
(* prisma-deal-list.repository.ts and deal-list-derivation.ts), read while  *)
(* the services of Funding change what it reads.                            *)
(*                                                                          *)
(* One READ COMMITTED transaction locks the rows that authorise the reader  *)
(* and then reads the deals; Prisma issues one statement for each relation  *)
(* it includes, so what they return are states of different moments.  The   *)
(* approvals follow the versions they belong to; nothing else fixes the     *)
(* order of versions and intents.                                           *)
EXTENDS Funding

CONSTANTS
    Reader,            \* the signed-in human
    ReaderWorkspace    \* the workspace whose deals are listed

ASSUME ListingAssumption == Reader \in Users /\ ReaderWorkspace \in Workspaces

VARIABLES
    read,    \* the statements that have returned
    rows     \* what they returned, by deal

listingVars == <<read, rows>>
allVars     == <<vars, listingVars>>

Statements == {"authority", "deals", "versions", "approvals", "intents"}
Rows == [status    : [Requests -> {"None", "Negotiating", "Active"}],  \* None: not listed
         version   : [Requests -> 0..MaxVersions],                     \* 0: no terms
         approving : [Requests -> SUBSET Workspaces],
         intents   : [Requests -> [Versions -> IntentStates]]]
NoRows == [status    |-> [r \in Requests |-> "None"],
           version   |-> [r \in Requests |-> 0],
           approving |-> [r \in Requests |-> {}],
           intents   |-> [r \in Requests |-> [v \in Versions |-> "None"]]]

ListingTypeOK == FundingTypeOK /\ read \subseteq Statements /\ rows \in Rows

ListingInit == FundingInit /\ read = {} /\ rows = NoRows
-----------------------------------------------------------------------------
Underway  == read # {} /\ read # Statements
Listed(r) == rows.status[r] # "None"

(* The rows that other transactions cannot change until this one ends.      *)
Locked == IF Underway
          THEN {WorkspaceActive(ReaderWorkspace), Membership(Reader, ReaderWorkspace)} ELSE {}

LocksHold == \A fact \in Locked : Holds(fact) => Holds(fact)'

Authorise ==
    /\ read = {}
    /\ ActsFor(Reader, ReaderWorkspace)
    /\ read' = {"authority"} /\ UNCHANGED rows

Read(statement, after) ==
    /\ after \in read /\ statement \notin read
    /\ read' = read \cup {statement}

(* The deals of which this workspace is a party.                            *)
ReadDeals ==
    /\ Read("deals", "authority")
    /\ rows' = [rows EXCEPT !.status =
                   [r \in Requests |-> IF ReaderWorkspace \in Parties(r)
                                       THEN dealStatus[r] ELSE "None"]]

ReadVersions ==
    /\ Read("versions", "deals")
    /\ rows' = [rows EXCEPT !.version =
                   [r \in Requests |-> IF Listed(r) THEN CurrentVersion(r) ELSE 0]]

ReadApprovals ==
    /\ Read("approvals", "versions")
    /\ rows' = [rows EXCEPT !.approving =
                   [r \in Requests |-> {w \in Workspaces : ApprovedBy(r, rows.version[r], w)}]]

ReadIntents ==
    /\ Read("intents", "deals")
    /\ rows' = [rows EXCEPT !.intents =
                   [r \in Requests |-> IF Listed(r) THEN intent[r] ELSE [v \in Versions |-> "None"]]]

(* The list is answered, or its transaction fails.                          *)
EndListing ==
    /\ read # {}
    /\ read' = {} /\ rows' = NoRows

ListingNext ==
    \/ FundingNext /\ LocksHold /\ UNCHANGED listingVars
    \/ /\ \/ Authorise \/ ReadDeals \/ ReadVersions \/ ReadApprovals \/ ReadIntents
          \/ EndListing
       /\ UNCHANGED vars

ListingSpec == ListingInit /\ [][ListingNext]_allVars
-----------------------------------------------------------------------------
(* deriveApprovalState.                                                     *)
ApprovalState(r) ==
    LET buyer == Buyer(r) \in rows.approving[r]
        seller == Seller(r) \in rows.approving[r] IN
    CASE rows.version[r] = 0 -> "NoTerms"
      [] rows.version[r] # 0 /\ buyer /\ seller -> "BothApproved"
      [] rows.version[r] # 0 /\ buyer /\ ~seller -> "AwaitingSellerApproval"
      [] rows.version[r] # 0 /\ ~buyer /\ seller -> "AwaitingBuyerApproval"
      [] OTHER -> "AwaitingBothApprovals"

(* Mutation: the deal's first intent is shown, whatever terms it is for.    *)
FirstIntent(r) ==
    IF \E v \in Versions : rows.intents[r][v] # "None"
    THEN rows.intents[r][CHOOSE v \in Versions : /\ rows.intents[r][v] # "None"
                                                 /\ \A u \in 1..(v - 1) : rows.intents[r][u] = "None"]
    ELSE "None"

(* The intent that is pinned to the version that was read.                  *)
CurrentIntent(r) ==
    IF rows.version[r] = 0 THEN "None" ELSE rows.intents[r][rows.version[r]]

(* deriveListFundingStatus.                                                 *)
ListFundingStatus(r) ==
    IF ApprovalState(r) # "BothApproved" THEN "null"
    ELSE IF CurrentIntent(r) \in {"None", "Created"} THEN "AwaitingConfirmation"
    ELSE CurrentIntent(r)
-----------------------------------------------------------------------------
(* The statements of a list read states of different moments, and it is     *)
(* sound all the same: only a member of the Active workspace gets rows; a   *)
(* deal listed as Active is listed with its funding Confirmed; and whoever  *)
(* is shown Confirmed funding sees the terms that are current, of a deal    *)
(* that is Active by then, whatever status the first statement had read.    *)
MembersOnly == Underway => ActsFor(Reader, ReaderWorkspace)
ActiveIsFunded(r)    == rows.status[r] = "Active" => ListFundingStatus(r) = "Confirmed"
ConfirmedIsActive(r) == ListFundingStatus(r) = "Confirmed" =>
                           dealStatus[r] = "Active" /\ rows.version[r] = CurrentVersion(r)
ListingIsSound ==
    /\ MembersOnly
    /\ read = Statements => \A r \in Requests : ActiveIsFunded(r) /\ ConfirmedIsActive(r)
=============================================================================
