-------------------------- MODULE ProjectRequests --------------------------
(* ProjectRequest creation and the seller's decision                       *)
(* (project-request.service.ts over prisma-project-request.repository.ts). *)
(* Each operation is one Serializable transaction that locks every row it  *)
(* reads; a transaction that is rejected, or runs out of P2034 retries,     *)
(* changes nothing and is a stuttering step.                                *)
(*                                                                          *)
(* A row's immutable columns are constants of its id: request r is for     *)
(* brief BriefOf[r] and offering OfferingOf[r], and several ids may name    *)
(* the same selection.  deals.projectRequestId is unique, so a Deal is      *)
(* named by its request.                                                    *)
EXTENDS Authority

CONSTANTS
    Requests,      \* ProjectRequest ids
    Briefs,        \* ProjectBrief ids
    BriefOf,       \* [Requests -> Briefs]
    OfferingOf,    \* [Requests -> Offerings]
    BriefOwner,    \* [Briefs -> Workspaces], the buyer workspace of a brief
    OfferingOwner, \* [Offerings -> Workspaces], the seller profile's workspace
    Surfaced,      \* [Briefs -> SUBSET Offerings], brief_search_results
    NoOne          \* the decider of an undecided request

ASSUME RequestsAssumption ==
    /\ BriefOf \in [Requests -> Briefs]
    /\ OfferingOf \in [Requests -> Offerings]
    /\ BriefOwner \in [Briefs -> Workspaces]
    /\ OfferingOwner \in [Offerings -> Workspaces]
    /\ Surfaced \in [Briefs -> SUBSET Offerings]
    /\ NoOne \notin Users

VARIABLES
    requestStatus, \* project_requests.status, "None" before the row exists
    decidedBy,     \* sellerDecisionByUserId
    consented,     \* the requests whose sellerConsentAt is set
    dealStatus     \* deals.status, "None" before the row exists

requestVars == <<authority, requestStatus, decidedBy, consented, dealStatus>>

Buyer(r)  == BriefOwner[BriefOf[r]]
Seller(r) == OfferingOwner[OfferingOf[r]]
SameSelection(r, s) == BriefOf[r] = BriefOf[s] /\ OfferingOf[r] = OfferingOf[s]

RequestsTypeOK ==
    /\ authority \subseteq Facts
    /\ requestStatus \in [Requests -> {"None", "Pending", "Accepted", "Declined"}]
    /\ decidedBy \in [Requests -> Users \cup {NoOne}]
    /\ consented \subseteq Requests
    /\ dealStatus \in [Requests -> {"None", "Negotiating", "Active"}]

RequestsInit ==
    /\ AuthorityInit
    /\ requestStatus = [r \in Requests |-> "None"]
    /\ decidedBy = [r \in Requests |-> NoOne]
    /\ consented = {}
    /\ dealStatus = [r \in Requests |-> "None"]
-----------------------------------------------------------------------------
(* The brief belongs to the acting workspace and surfaced the offering.     *)
BriefRecommends(r, w) ==
    Buyer(r) = w /\ OfferingOf[r] \in Surfaced[BriefOf[r]]

BuyerAuthority(u, w) == ActsFor(u, w) /\ Holds(Capability(w, "Buyer"))

SellerEligible(r) ==
    /\ Holds(WorkspaceActive(Seller(r)))
    /\ Holds(Capability(Seller(r), "Seller"))
    /\ Holds(ProfilePublished(Seller(r)))
    /\ Holds(OfferingActive(OfferingOf[r]))

(* Mutation: the decision does not lock and read the workspace itself.      *)
SellerMember(u, w, r) ==
    Seller(r) = w /\ Holds(Membership(u, w)) /\ Holds(Capability(w, "Seller"))

SellerAuthority(u, w, r) ==
    Seller(r) = w /\ ActsFor(u, w) /\ Holds(Capability(w, "Seller"))

(* Mutation: the index covers the row's own id instead of its selection.    *)
SameRowPending(r) == requestStatus[r] = "Pending"

(* The partial unique index on Pending rows turns a second insert into      *)
(* P2002, reported as ALREADY_PENDING.                                      *)
AlreadyPending(r) ==
    \E s \in Requests : SameSelection(r, s) /\ requestStatus[s] = "Pending"

CreateProjectRequest(u, w, r) ==
    /\ requestStatus[r] = "None"
    /\ BriefRecommends(r, w)
    /\ BuyerAuthority(u, w)
    /\ SellerEligible(r)
    /\ ~AlreadyPending(r)
    /\ requestStatus' = [requestStatus EXCEPT ![r] = "Pending"]
    /\ UNCHANGED <<authority, decidedBy, consented, dealStatus>>

(* Mutation: the update matches the row whatever its status.                *)
AnyStatus(r) == requestStatus[r] # "None"

(* The guarded updateMany matches Pending rows only: a second decision is   *)
(* answered ALREADY_RESPONDED.                                              *)
StillPending(r) == requestStatus[r] = "Pending"

(* Mutation: the Deal copies the status its request had.                    *)
CopiedStatus == "Pending"

(* deals.status of a new row, the schema's default.                         *)
OpeningStatus == "Negotiating"

(* Acceptance writes the decision and the consent and inserts the Deal in   *)
(* one transaction; an existing Deal is P2002, and rolls both back.         *)
AcceptProjectRequest(u, w, r) ==
    /\ SellerAuthority(u, w, r)
    /\ StillPending(r)
    /\ dealStatus[r] = "None"
    /\ requestStatus' = [requestStatus EXCEPT ![r] = "Accepted"]
    /\ decidedBy' = [decidedBy EXCEPT ![r] = u]
    /\ consented' = consented \cup {r}
    /\ dealStatus' = [dealStatus EXCEPT ![r] = OpeningStatus]
    /\ UNCHANGED authority

DeclineProjectRequest(u, w, r) ==
    /\ SellerAuthority(u, w, r)
    /\ StillPending(r)
    /\ requestStatus' = [requestStatus EXCEPT ![r] = "Declined"]
    /\ decidedBy' = [decidedBy EXCEPT ![r] = u]
    /\ UNCHANGED <<authority, consented, dealStatus>>

RequestsNext ==
    \/ \E u \in Users, w \in Workspaces, r \in Requests :
          \/ CreateProjectRequest(u, w, r)
          \/ AcceptProjectRequest(u, w, r)
          \/ DeclineProjectRequest(u, w, r)
    \/ AuthorityNext /\ UNCHANGED <<requestStatus, decidedBy, consented, dealStatus>>

RequestsSpec == RequestsInit /\ [][RequestsNext]_requestVars
-----------------------------------------------------------------------------
(* A Deal exists exactly for the accepted requests, and exactly these carry *)
(* the seller's consent: whatever order accept and decline commands of two  *)
(* seller members commit in, no declined request leaves a Deal or a consent *)
(* timestamp behind, and no accepted one lacks its Deal.                    *)
DealIffConsent ==
    \A r \in Requests :
        /\ dealStatus[r] # "None" <=> requestStatus[r] = "Accepted"
        /\ r \in consented <=> requestStatus[r] = "Accepted"
        /\ decidedBy[r] # NoOne <=> requestStatus[r] \in {"Accepted", "Declined"}

(* Retries and concurrent commands never leave two undecided requests for   *)
(* the same brief and offering.                                             *)
OnePendingPerSelection ==
    \A r, s \in Requests :
        r # s /\ SameSelection(r, s) =>
            ~(requestStatus[r] = "Pending" /\ requestStatus[s] = "Pending")

(* A terminal response is never reversed: neither the decision, nor the     *)
(* human it is attributed to, nor the consent ever changes again.           *)
DecisionIsFinal ==
    [][\A r \in Requests :
          requestStatus[r] \in {"Accepted", "Declined"} =>
              /\ requestStatus'[r] = requestStatus[r]
              /\ decidedBy'[r] = decidedBy[r]
              /\ (r \in consented') = (r \in consented)]_requestVars

(* Only a member of the seller's own workspace, Active and with the Seller  *)
(* capability, brings a Deal into being, and only from a request that was   *)
(* waiting for that decision: no step of the buyer opens one, and none of   *)
(* a seller whose membership, workspace or capability was withdrawn after   *)
(* the request came in.                                                     *)
DealOpenedBySeller ==
    [][\A r \in Requests :
          dealStatus[r] = "None" /\ dealStatus'[r] # "None" =>
              /\ requestStatus[r] = "Pending"
              /\ ActsFor(decidedBy'[r], Seller(r))
              /\ Holds(Capability(Seller(r), "Seller"))]_requestVars
=============================================================================
