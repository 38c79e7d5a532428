----------------------- MODULE ProjectRequests_proofs -----------------------
(* Proofs about ProjectRequest creation and decision, for every set of      *)
(* users, workspaces, requests and briefs and every pattern of withdrawals. *)
EXTENDS ProjectRequests, TLAPS

(* A withdrawal or restoration touches the authority rows only, and leaves  *)
(* them facts of the catalogue.                                             *)
LEMMA AuthorityStepType ==
    ASSUME authority \subseteq Facts, AuthorityNext
    PROVE  authority' \subseteq Facts
  BY AuthorityAssumption DEF AuthorityNext, Withdraw, Restore

LEMMA RequestsInitType == RequestsInit => RequestsTypeOK
  BY AuthorityAssumption DEF RequestsInit, AuthorityInit, RequestsTypeOK

(* Every step of the module keeps its variables in their types.             *)
LEMMA RequestsStepType ==
    ASSUME RequestsTypeOK, RequestsNext
    PROVE  RequestsTypeOK'
  <1>1. ASSUME NEW u \in Users, NEW w \in Workspaces, NEW r \in Requests,
               CreateProjectRequest(u, w, r)
        PROVE  RequestsTypeOK'
    BY <1>1 DEF CreateProjectRequest, RequestsTypeOK
  <1>2. ASSUME NEW u \in Users, NEW w \in Workspaces, NEW r \in Requests,
               AcceptProjectRequest(u, w, r)
        PROVE  RequestsTypeOK'
    BY <1>2 DEF AcceptProjectRequest, OpeningStatus, RequestsTypeOK
  <1>3. ASSUME NEW u \in Users, NEW w \in Workspaces, NEW r \in Requests,
               DeclineProjectRequest(u, w, r)
        PROVE  RequestsTypeOK'
    BY <1>3 DEF DeclineProjectRequest, RequestsTypeOK
  <1>4. CASE AuthorityNext /\ UNCHANGED <<requestStatus, decidedBy, consented, dealStatus>>
    BY <1>4, AuthorityStepType DEF RequestsTypeOK
  <1> QED BY <1>1, <1>2, <1>3, <1>4 DEF RequestsNext

(* The variables of ProjectRequests keep their types in every behaviour.    *)
THEOREM RequestsTypeCorrect == RequestsSpec => []RequestsTypeOK
  <1>1. RequestsTypeOK /\ UNCHANGED requestVars => RequestsTypeOK'
    BY DEF RequestsTypeOK, requestVars
  <1> QED BY RequestsInitType, RequestsStepType, <1>1, PTL DEF RequestsSpec
-----------------------------------------------------------------------------
LEMMA RequestsInitConsent == RequestsInit => DealIffConsent
  BY DEF RequestsInit, DealIffConsent

(* The type invariant is all the strengthening the consent invariant needs: *)
(* accept and decline both fire on a Pending row only, and write decision,  *)
(* consent and Deal in one step.                                            *)
LEMMA RequestsStepConsent ==
    ASSUME RequestsTypeOK, DealIffConsent, RequestsNext
    PROVE  DealIffConsent'
  <1>1. ASSUME NEW u \in Users, NEW w \in Workspaces, NEW r \in Requests,
               CreateProjectRequest(u, w, r)
        PROVE  DealIffConsent'
    BY <1>1 DEF CreateProjectRequest, RequestsTypeOK, DealIffConsent
  <1>2. ASSUME NEW u \in Users, NEW w \in Workspaces, NEW r \in Requests,
               AcceptProjectRequest(u, w, r)
        PROVE  DealIffConsent'
    BY <1>2, RequestsAssumption
       DEF AcceptProjectRequest, StillPending, OpeningStatus, RequestsTypeOK,
           DealIffConsent
  <1>3. ASSUME NEW u \in Users, NEW w \in Workspaces, NEW r \in Requests,
               DeclineProjectRequest(u, w, r)
        PROVE  DealIffConsent'
    BY <1>3, RequestsAssumption
       DEF DeclineProjectRequest, StillPending, RequestsTypeOK, DealIffConsent
  <1>4. CASE AuthorityNext /\ UNCHANGED <<requestStatus, decidedBy, consented, dealStatus>>
    BY <1>4 DEF DealIffConsent
  <1> QED BY <1>1, <1>2, <1>3, <1>4 DEF RequestsNext

(* A Deal exists exactly for the accepted requests, and exactly these carry *)
(* the seller's consent and a decider (DealIffConsent), in every behaviour. *)
THEOREM DealsHaveConsent == RequestsSpec => []DealIffConsent
  <1>1. DealIffConsent /\ UNCHANGED requestVars => DealIffConsent'
    BY DEF DealIffConsent, requestVars
  <1> QED
    BY RequestsTypeCorrect, RequestsInitConsent, RequestsStepConsent, <1>1, PTL
       DEF RequestsSpec
-----------------------------------------------------------------------------
(* A new Pending row is inserted only when no row of the same selection is  *)
(* Pending, and no other step makes a row Pending.                          *)
LEMMA RequestsStepOnePending ==
    ASSUME RequestsTypeOK, OnePendingPerSelection, RequestsNext
    PROVE  OnePendingPerSelection'
  <1>1. ASSUME NEW u \in Users, NEW w \in Workspaces, NEW r \in Requests,
               CreateProjectRequest(u, w, r)
        PROVE  OnePendingPerSelection'
    BY <1>1 DEF CreateProjectRequest, AlreadyPending, SameSelection, RequestsTypeOK,
                OnePendingPerSelection
  <1>2. ASSUME NEW u \in Users, NEW w \in Workspaces, NEW r \in Requests,
               AcceptProjectRequest(u, w, r) \/ DeclineProjectRequest(u, w, r)
        PROVE  OnePendingPerSelection'
    BY <1>2 DEF AcceptProjectRequest, DeclineProjectRequest, RequestsTypeOK,
                SameSelection, OnePendingPerSelection
  <1>3. CASE AuthorityNext /\ UNCHANGED <<requestStatus, decidedBy, consented, dealStatus>>
    BY <1>3 DEF OnePendingPerSelection, SameSelection
  <1> QED BY <1>1, <1>2, <1>3 DEF RequestsNext

(* No two undecided requests name the same brief and offering.              *)
THEOREM NoDuplicatePending == RequestsSpec => []OnePendingPerSelection
  <1>1. RequestsInit => OnePendingPerSelection
    BY DEF RequestsInit, OnePendingPerSelection
  <1>2. OnePendingPerSelection /\ UNCHANGED requestVars => OnePendingPerSelection'
    BY DEF OnePendingPerSelection, SameSelection, requestVars
  <1> QED
    BY <1>1, <1>2, RequestsTypeCorrect, RequestsStepOnePending, PTL DEF RequestsSpec
-----------------------------------------------------------------------------
(* The decision of one request as one step sees it: it is written together  *)
(* with the change of status, by a member of the seller's workspace, and    *)
(* only over a Pending row.                                                 *)
LEMMA DecisionStep ==
    ASSUME RequestsTypeOK, RequestsNext, NEW r \in Requests
    PROVE  \/ /\ requestStatus[r] = "Pending"
              /\ requestStatus'[r] \in {"Accepted", "Declined"}
              /\ ActsFor(decidedBy'[r], Seller(r)) /\ Holds(Capability(Seller(r), "Seller"))
           \/ /\ decidedBy'[r] = decidedBy[r] /\ (r \in consented') = (r \in consented)
              /\ dealStatus'[r] = dealStatus[r]
              /\ \/ requestStatus'[r] = requestStatus[r]
                 \/ requestStatus[r] = "None" /\ requestStatus'[r] = "Pending"
  <1>1. ASSUME NEW u \in Users, NEW w \in Workspaces, NEW q \in Requests,
               AcceptProjectRequest(u, w, q) \/ DeclineProjectRequest(u, w, q), q = r
        PROVE  /\ requestStatus[r] = "Pending"
               /\ requestStatus'[r] \in {"Accepted", "Declined"}
               /\ ActsFor(decidedBy'[r], Seller(r)) /\ Holds(Capability(Seller(r), "Seller"))
    <2>1. ActsFor(u, Seller(r)) /\ Holds(Capability(Seller(r), "Seller")) /\ StillPending(r)
      BY <1>1 DEF AcceptProjectRequest, DeclineProjectRequest, SellerAuthority
    <2>2. decidedBy'[r] = u /\ requestStatus'[r] \in {"Accepted", "Declined"}
      BY <1>1 DEF AcceptProjectRequest, DeclineProjectRequest, RequestsTypeOK
    <2> QED BY <2>1, <2>2 DEF StillPending
  <1>2. ASSUME NEW u \in Users, NEW w \in Workspaces, NEW q \in Requests,
               AcceptProjectRequest(u, w, q) \/ DeclineProjectRequest(u, w, q), q # r
        PROVE  /\ decidedBy'[r] = decidedBy[r] /\ (r \in consented') = (r \in consented)
               /\ dealStatus'[r] = dealStatus[r] /\ requestStatus'[r] = requestStatus[r]
    BY <1>2 DEF AcceptProjectRequest, DeclineProjectRequest, RequestsTypeOK
  <1>3. ASSUME NEW u \in Users, NEW w \in Workspaces, NEW q \in Requests,
               CreateProjectRequest(u, w, q)
        PROVE  /\ decidedBy'[r] = decidedBy[r] /\ (r \in consented') = (r \in consented)
               /\ dealStatus'[r] = dealStatus[r]
               /\ \/ requestStatus'[r] = requestStatus[r]
                  \/ requestStatus[r] = "None" /\ requestStatus'[r] = "Pending"
    BY <1>3 DEF CreateProjectRequest, RequestsTypeOK
  <1> QED BY <1>1, <1>2, <1>3 DEF RequestsNext

(* The steps of DecisionIsFinal and DealOpenedBySeller, stated on their own *)
(* for the compositions that inherit these steps.                           *)
LEMMA DecisionStays ==
    ASSUME RequestsTypeOK, RequestsNext, NEW r \in Requests,
           requestStatus[r] \in {"Accepted", "Declined"}
    PROVE  /\ requestStatus'[r] = requestStatus[r]
           /\ decidedBy'[r] = decidedBy[r]
           /\ (r \in consented') = (r \in consented)
  BY DecisionStep

LEMMA OpenedBySeller ==
    ASSUME RequestsTypeOK, RequestsNext, NEW r \in Requests,
           dealStatus[r] = "None", dealStatus'[r] # "None"
    PROVE  /\ requestStatus[r] = "Pending"
           /\ ActsFor(decidedBy'[r], Seller(r)) /\ Holds(Capability(Seller(r), "Seller"))
  BY DecisionStep

(* A terminal response is never reversed, whoever decides next and whatever *)
(* authority is withdrawn or restored (DecisionIsFinal).                    *)
THEOREM ResponsesAreFinal == RequestsSpec => DecisionIsFinal
  <1>1. RequestsTypeOK /\ [RequestsNext]_requestVars
        => [\A r \in Requests :
              requestStatus[r] \in {"Accepted", "Declined"} =>
                  /\ requestStatus'[r] = requestStatus[r]
                  /\ decidedBy'[r] = decidedBy[r]
                  /\ (r \in consented') = (r \in consented)]_requestVars
    BY DecisionStays
  <1> QED BY <1>1, RequestsTypeCorrect, PTL DEF RequestsSpec, DecisionIsFinal

(* A Deal comes into being from a waiting request only, by a member of the  *)
(* seller's own workspace, which is Active and has the Seller capability in *)
(* that step (DealOpenedBySeller).                                          *)
THEOREM SellersOpenDeals == RequestsSpec => DealOpenedBySeller
  <1>1. RequestsTypeOK /\ [RequestsNext]_requestVars
        => [\A r \in Requests :
              dealStatus[r] = "None" /\ dealStatus'[r] # "None" =>
                  /\ requestStatus[r] = "Pending"
                  /\ ActsFor(decidedBy'[r], Seller(r))
                  /\ Holds(Capability(Seller(r), "Seller"))]_requestVars
    BY OpenedBySeller
  <1> QED BY <1>1, RequestsTypeCorrect, PTL DEF RequestsSpec, DealOpenedBySeller
=============================================================================
