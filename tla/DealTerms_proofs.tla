--------------------------- MODULE DealTerms_proofs ---------------------------
(* Proofs about drafting and approving terms, for every number of drafters, *)
(* approvers, versions and requests.  The lemmas about one step assume only *)
(* what that step needs, so that the proofs of Funding cite them for the    *)
(* steps it inherits.                                                       *)
EXTENDS DealTerms, ProjectRequests_proofs

LEMMA TermsInitType == TermsInit => RequestsTypeOK /\ TermsTypeOK
  BY RequestsInitType DEF TermsInit, TermsTypeOK

(* Every step keeps the variables of both modules in their types.           *)
LEMMA TermsStepType ==
    ASSUME RequestsTypeOK, TermsTypeOK, TermsNext
    PROVE  RequestsTypeOK' /\ TermsTypeOK'
  <1>1. ASSUME UNCHANGED requestVars
        PROVE  RequestsTypeOK'
    BY <1>1 DEF requestVars, RequestsTypeOK
  <1>2. ASSUME NEW d \in Drafters, NEW u \in Users, NEW w \in Workspaces,
               NEW r \in Requests, NEW price \in Candidates,
               BeginDraft(d, u, w, r, price)
        PROVE  RequestsTypeOK' /\ TermsTypeOK'
    BY <1>1, <1>2 DEF BeginDraft, ValidCandidate, DraftCommand, TermsTypeOK
  <1>3. ASSUME NEW d \in Drafters, PersistDraft(d)
        PROVE  RequestsTypeOK' /\ TermsTypeOK'
    <2>1. drafts[d] \in DraftCommand
      BY <1>3 DEF PersistDraft, TermsTypeOK
    <2>2. /\ drafts[d].deal \in Requests
          /\ drafts[d].price \in Prices
      BY <2>1 DEF DraftCommand
    <2>3. terms' \in [Requests -> Seq(Prices)]
      BY <1>3, <2>2 DEF PersistDraft, TermsTypeOK
    <2>4. drafts' \in [Drafters -> DraftCommand \cup {NoDraft}] /\ approvals' \subseteq Approval
      BY <1>3 DEF PersistDraft, TermsTypeOK
    <2> QED BY <1>1, <1>3, <2>3, <2>4 DEF PersistDraft, TermsTypeOK
  <1>4. ASSUME NEW d \in Drafters, DraftFails(d)
        PROVE  RequestsTypeOK' /\ TermsTypeOK'
    BY <1>1, <1>4 DEF DraftFails, TermsTypeOK
  <1>5. ASSUME NEW u \in Users, NEW w \in Workspaces, NEW r \in Requests,
               NEW v \in 1..MaxVersions, ApproveTerms(u, w, r, v)
        PROVE  RequestsTypeOK' /\ TermsTypeOK'
    BY <1>1, <1>5, TermsAssumption DEF ApproveTerms, Approval, TermsTypeOK
  <1>6. CASE RequestsNext /\ UNCHANGED termsVars
    BY <1>6, RequestsStepType DEF termsVars, TermsTypeOK
  <1> QED BY <1>2, <1>3, <1>4, <1>5, <1>6 DEF TermsNext

LEMMA TermsStutterType ==
    ASSUME RequestsTypeOK, TermsTypeOK, UNCHANGED <<requestVars, termsVars>>
    PROVE  RequestsTypeOK' /\ TermsTypeOK'
  BY DEF requestVars, termsVars, RequestsTypeOK, TermsTypeOK

(* Terms, approvals and draftTerms calls keep their types in every          *)
(* behaviour: in particular every persisted price has been validated.       *)
THEOREM TermsTypeCorrect == TermsSpec => [](RequestsTypeOK /\ TermsTypeOK)
  BY TermsInitType, TermsStepType, TermsStutterType, PTL DEF TermsSpec
-----------------------------------------------------------------------------
(* What no step of these services takes back: consent and approvals are     *)
(* only added, versions only appended, and once a deal is Active neither    *)
(* its status nor its terms change.                                         *)
LEMMA TermsStepGrows ==
    ASSUME RequestsTypeOK, TermsTypeOK, TermsNext, NEW r \in Requests
    PROVE  /\ r \in consented => r \in consented'
           /\ requestStatus[r] = "Accepted" => requestStatus'[r] = "Accepted"
           /\ dealStatus[r] = "Active" <=> dealStatus'[r] = "Active"
           /\ approvals \subseteq approvals'
           /\ Len(terms'[r]) >= Len(terms[r])
           /\ \A v \in 1..Len(terms[r]) : terms'[r][v] = terms[r][v]
           /\ dealStatus[r] = "Active" => terms'[r] = terms[r]
  <1>1. CASE UNCHANGED requestVars /\ UNCHANGED terms /\ approvals \subseteq approvals'
    BY <1>1 DEF requestVars, TermsTypeOK
  <1>2. ASSUME NEW d \in Drafters, PersistDraft(d)
        PROVE  /\ UNCHANGED <<requestVars, approvals>>
               /\ Len(terms'[r]) >= Len(terms[r])
               /\ \A v \in 1..Len(terms[r]) : terms'[r][v] = terms[r][v]
               /\ dealStatus[r] = "Active" => terms'[r] = terms[r]
    <2>1. /\ drafts[d].deal \in Requests
          /\ drafts[d].price \in Prices
      BY <1>2 DEF PersistDraft, TermsTypeOK, DraftCommand
    <2>2. terms[r] \in Seq(Prices)
      BY DEF TermsTypeOK
    <2>3. CASE drafts[d].deal = r
      <3>1. terms'[r] = Append(terms[r], drafts[d].price)
        BY <1>2, <2>3 DEF PersistDraft, TermsTypeOK
      <3>2. dealStatus[r] = "Negotiating"
        BY <1>2, <2>3 DEF PersistDraft, StillAuthorised, DraftingAuthority
      <3> QED BY <1>2, <2>1, <2>2, <3>1, <3>2 DEF PersistDraft
    <2>4. CASE drafts[d].deal # r
      <3>1. terms'[r] = terms[r]
        BY <1>2, <2>4 DEF PersistDraft, TermsTypeOK
      <3> QED BY <1>2, <2>2, <3>1 DEF PersistDraft
    <2> QED BY <2>3, <2>4
  <1>3. CASE RequestsNext /\ UNCHANGED termsVars
    <2>1. UNCHANGED <<terms, approvals>>
      BY <1>3 DEF termsVars
    <2>2. /\ r \in consented => r \in consented'
          /\ requestStatus[r] = "Accepted" => requestStatus'[r] = "Accepted"
          /\ dealStatus[r] = "Active" <=> dealStatus'[r] = "Active"
      BY <1>3 DEF RequestsNext, CreateProjectRequest, AcceptProjectRequest,
                  DeclineProjectRequest, StillPending, OpeningStatus, RequestsTypeOK
    <2> QED BY <2>1, <2>2 DEF TermsTypeOK
  <1>4. CASE \E d \in Drafters : PersistDraft(d)
    BY <1>2, <1>4 DEF requestVars
  <1> QED
    BY <1>1, <1>3, <1>4 DEF TermsNext, BeginDraft, DraftFails, ApproveTerms

LEMMA TermsStepConsent ==
    ASSUME RequestsTypeOK, DealIffConsent, TermsNext
    PROVE  DealIffConsent'
  <1>1. CASE UNCHANGED requestVars
    BY <1>1 DEF requestVars, DealIffConsent
  <1>2. CASE RequestsNext
    BY <1>2, RequestsStepConsent
  <1> QED
    BY <1>1, <1>2 DEF TermsNext, BeginDraft, PersistDraft, DraftFails, ApproveTerms
-----------------------------------------------------------------------------
(* The unique index and the version check are what the evidence needs; a    *)
(* new version leaves the approvals of the earlier ones where they were.    *)
LEMMA TermsStepEvidence ==
    ASSUME RequestsTypeOK, TermsTypeOK, ApprovalsAreEvidence, TermsNext
    PROVE  ApprovalsAreEvidence'
  <1>1. ASSUME NEW a \in approvals
        PROVE  a.version \in 1..Len(terms'[a.deal]) /\ a.workspace \in Parties(a.deal)
    <2>1. a.deal \in Requests /\ a.version \in 1..Len(terms[a.deal])
             /\ a.workspace \in Parties(a.deal)
      BY DEF TermsTypeOK, Approval, ApprovalsAreEvidence, CurrentVersion
    <2>2. Len(terms'[a.deal]) >= Len(terms[a.deal])
      BY <2>1, TermsStepGrows
    <2>3. terms[a.deal] \in Seq(Prices) /\ terms'[a.deal] \in Seq(Prices)
      BY <2>1, TermsStepType DEF TermsTypeOK
    <2> QED BY <2>1, <2>2, <2>3
  <1>2. CASE UNCHANGED approvals
    BY <1>1, <1>2 DEF ApprovalsAreEvidence, CurrentVersion, Parties
  <1>3. ASSUME NEW u \in Users, NEW w \in Workspaces, NEW r \in Requests,
               NEW v \in 1..MaxVersions, ApproveTerms(u, w, r, v)
        PROVE  ApprovalsAreEvidence'
    <2> DEFINE new == [deal |-> r, version |-> v, workspace |-> w, user |-> u]
    <2>1. approvals' = approvals \cup {new} /\ UNCHANGED terms
      BY <1>3 DEF ApproveTerms
    <2>2. v \in 1..Len(terms[r]) /\ w \in Parties(r)
      BY <1>3 DEF ApproveTerms, ApprovalAuthority, CurrentVersion
    <2>3. \A a \in approvals : ~(a.deal = r /\ a.version = v /\ a.workspace = w)
      BY <1>3 DEF ApproveTerms, AlreadyApproved, ApprovedBy
    <2>4. \A a \in approvals' :
              a.version \in 1..Len(terms'[a.deal]) /\ a.workspace \in Parties(a.deal)
      BY <1>1, <2>1, <2>2
    <2>5. \A a, b \in approvals' :
              a.deal = b.deal /\ a.version = b.version /\ a.workspace = b.workspace => a = b
      BY <2>1, <2>3 DEF ApprovalsAreEvidence
    <2> QED BY <2>4, <2>5 DEF ApprovalsAreEvidence, CurrentVersion, Parties
  <1> QED
    BY <1>2, <1>3 DEF TermsNext, BeginDraft, PersistDraft, DraftFails, termsVars

(* However approvers race, every approval names an existing version and a   *)
(* party of its deal, and a workspace approves a version at most once       *)
(* (ApprovalsAreEvidence).                                                  *)
THEOREM ApprovalsSound == TermsSpec => []ApprovalsAreEvidence
  <1>1. TermsInit => ApprovalsAreEvidence
    BY DEF TermsInit, ApprovalsAreEvidence
  <1>2. ApprovalsAreEvidence /\ UNCHANGED <<requestVars, termsVars>> => ApprovalsAreEvidence'
    BY DEF termsVars, ApprovalsAreEvidence, CurrentVersion, Parties
  <1> QED
    BY <1>1, <1>2, TermsTypeCorrect, TermsStepEvidence, PTL DEF TermsSpec
-----------------------------------------------------------------------------
(* An approval is only ever recorded for the version that is current when   *)
(* it commits; no other step touches the approvals.                         *)
LEMMA TermsStepFrozen ==
    ASSUME RequestsTypeOK, TermsTypeOK, TermsNext,
           NEW r \in Requests, NEW w \in Workspaces, NEW v \in 1..(CurrentVersion(r) - 1)
    PROVE  ApprovedBy(r, v, w)' = ApprovedBy(r, v, w)
  <1>1. CASE UNCHANGED approvals
    BY <1>1 DEF ApprovedBy
  <1>2. ASSUME NEW u \in Users, NEW x \in Workspaces, NEW s \in Requests,
               NEW n \in 1..MaxVersions, ApproveTerms(u, x, s, n)
        PROVE  ApprovedBy(r, v, w)' = ApprovedBy(r, v, w)
    <2>1. n = CurrentVersion(s)
      BY <1>2 DEF ApproveTerms, ApprovalAuthority
    <2>2. CurrentVersion(r) \in Nat
      BY DEF TermsTypeOK, CurrentVersion
    <2>3. ~(s = r /\ n = v)
      BY <2>1, <2>2
    <2> QED BY <1>2, <2>3 DEF ApproveTerms, ApprovedBy
  <1> QED
    BY <1>1, <1>2 DEF TermsNext, BeginDraft, PersistDraft, DraftFails, termsVars

(* A replaced version gains no approval (SupersededApprovalsFrozen), for    *)
(* every number of drafts and approvals in flight.                          *)
THEOREM SupersededStaysFrozen == TermsSpec => SupersededApprovalsFrozen
  <1>1. RequestsTypeOK /\ TermsTypeOK /\ [TermsNext]_<<requestVars, termsVars>>
        => [\A r \in Requests, w \in Workspaces : \A v \in 1..(CurrentVersion(r) - 1) :
               ApprovedBy(r, v, w)' = ApprovedBy(r, v, w)]_<<requestVars, termsVars>>
    BY TermsStepFrozen
  <1> QED BY <1>1, TermsTypeCorrect, PTL DEF TermsSpec, SupersededApprovalsFrozen
-----------------------------------------------------------------------------
(* Of all steps only the second transaction of draftTerms writes terms, and *)
(* it does so on the strength of what it has just read.                     *)
LEMMA TermsStepAppends ==
    ASSUME RequestsTypeOK, TermsTypeOK, TermsNext, NEW r \in Requests, terms'[r] # terms[r]
    PROVE  \E d \in Drafters :
              /\ drafts[d] # NoDraft /\ drafts[d].deal = r
              /\ terms'[r] = Append(terms[r], drafts[d].price)
              /\ dealStatus[r] = "Negotiating"
              /\ drafts[d].workspace \in Parties(r)
              /\ ActsFor(drafts[d].user, drafts[d].workspace)
  <1>1. PICK d \in Drafters : PersistDraft(d)
    BY DEF TermsNext, BeginDraft, DraftFails, ApproveTerms, termsVars
  <1>2. drafts[d].deal \in Requests
    BY <1>1 DEF PersistDraft, TermsTypeOK, DraftCommand
  <1>3. drafts[d].deal = r /\ terms'[r] = Append(terms[r], drafts[d].price)
    BY <1>1, <1>2 DEF PersistDraft, TermsTypeOK
  <1>4. /\ dealStatus[r] = "Negotiating"
        /\ drafts[d].workspace \in Parties(r)
        /\ ActsFor(drafts[d].user, drafts[d].workspace)
    BY <1>1, <1>3 DEF PersistDraft, StillAuthorised, DraftingAuthority
  <1> QED BY <1>1, <1>3, <1>4 DEF PersistDraft

(* However long the AI call lasted, terms are appended by somebody who may  *)
(* still draft at that moment (TermsAppendedWithAuthority).                 *)
THEOREM DraftsNeedAuthority == TermsSpec => TermsAppendedWithAuthority
  <1>1. RequestsTypeOK /\ TermsTypeOK /\ [TermsNext]_<<requestVars, termsVars>>
        => [\A r \in Requests :
              terms'[r] # terms[r] =>
                  \E d \in Drafters :
                      /\ drafts[d] # NoDraft /\ drafts[d].deal = r
                      /\ terms'[r] = Append(terms[r], drafts[d].price)
                      /\ dealStatus[r] = "Negotiating"
                      /\ drafts[d].workspace \in Parties(r)
                      /\ ActsFor(drafts[d].user, drafts[d].workspace)
           ]_<<requestVars, termsVars>>
    BY TermsStepAppends
  <1> QED BY <1>1, TermsTypeCorrect, PTL DEF TermsSpec, TermsAppendedWithAuthority
=============================================================================
