----------------------------- MODULE DealTerms -----------------------------
(* Drafting and approving the terms of a Deal (deal-terms.service.ts over  *)
(* prisma-deal-terms.repository.ts).  draftTerms authorises once outside   *)
(* any transaction, awaits the AI adapter, and persists in a second,       *)
(* Serializable transaction that authorises again: between the two the     *)
(* deal may be redrafted, funded, or the drafter's membership withdrawn.   *)
(* approveTerms is one Serializable transaction.                            *)
(*                                                                          *)
(* A TermsVersion is named by its deal and its number: terms[r][v] is the   *)
(* price of version v of deal r, the one column a later step compares.      *)
EXTENDS ProjectRequests, Sequences

CONSTANTS
    Prices,        \* priceAmountMinor values that validate
    Candidates,    \* what the AI adapter or the caller may propose
    Drafters,      \* draftTerms calls that may be in flight at once
    NoDraft,       \* a draftTerms slot that holds no call
    MaxVersions    \* bound: versions of a deal

ASSUME TermsAssumption ==
    /\ MaxVersions \in Nat
    /\ Prices \subseteq Candidates
    /\ NoDraft \notin [deal : Requests, user : Users, workspace : Workspaces, price : Prices]

VARIABLES
    terms,         \* terms_versions, in version order
    approvals,     \* deal_approvals
    drafts         \* draftTerms calls past preAuthorizeDraft

termsVars == <<terms, approvals, drafts>>

DraftCommand == [deal : Requests, user : Users, workspace : Workspaces, price : Prices]
Approval     == [deal : Requests, version : Nat, workspace : Workspaces, user : Users]

Parties(r) == {Buyer(r), Seller(r)}

(* The row with the highest version number; 0 while there is none.          *)
CurrentVersion(r) == Len(terms[r])

ApprovedBy(r, v, w) ==
    \E a \in approvals : a.deal = r /\ a.version = v /\ a.workspace = w

TermsTypeOK ==
    /\ terms \in [Requests -> Seq(Prices)]
    /\ approvals \subseteq Approval
    /\ drafts \in [Drafters -> DraftCommand \cup {NoDraft}]

TermsInit ==
    /\ RequestsInit
    /\ terms = [r \in Requests |-> <<>>]
    /\ approvals = {}
    /\ drafts = [d \in Drafters |-> NoDraft]
-----------------------------------------------------------------------------
(* evaluateDraftingAuthority: a Negotiating deal, and an eligible member of *)
(* one of its two workspaces.                                               *)
DraftingAuthority(u, w, r) ==
    dealStatus[r] = "Negotiating" /\ w \in Parties(r) /\ ActsFor(u, w)

(* Mutation: the candidate is taken as the adapter returned it.             *)
AnyCandidate(price) == price \in Candidates

(* validateCandidate: the closed schema of the proposed terms.              *)
ValidCandidate(price) == price \in Prices

(* preAuthorizeDraft, the request for a candidate, and its validation.      *)
BeginDraft(d, u, w, r, price) ==
    /\ drafts[d] = NoDraft
    /\ DraftingAuthority(u, w, r)
    /\ ValidCandidate(price)
    /\ drafts' = [drafts EXCEPT ![d] =
                     [deal |-> r, user |-> u, workspace |-> w, price |-> price]]
    /\ UNCHANGED <<requestVars, terms, approvals>>

(* Mutation: the first check, before the AI call, is trusted.               *)
AuthorisedBefore(c) == c \in DraftCommand

(* The transaction's own evaluation, on the rows it has locked.             *)
StillAuthorised(c) == DraftingAuthority(c.user, c.workspace, c.deal)

(* The draft transaction re-reads the authority under row locks and numbers *)
(* the new row MAX(version) + 1.                                            *)
PersistDraft(d) ==
    /\ drafts[d] # NoDraft
    /\ LET c == drafts[d] IN
          /\ StillAuthorised(c)
          /\ CurrentVersion(c.deal) < MaxVersions
          /\ terms' = [terms EXCEPT ![c.deal] = Append(@, c.price)]
    /\ drafts' = [drafts EXCEPT ![d] = NoDraft]
    /\ UNCHANGED <<requestVars, approvals>>

(* An invalid candidate, a rejected transaction, exhausted retries, or the  *)
(* end of the process.                                                      *)
DraftFails(d) ==
    /\ drafts[d] # NoDraft
    /\ drafts' = [drafts EXCEPT ![d] = NoDraft]
    /\ UNCHANGED <<requestVars, terms, approvals>>

(* Mutation: a version seen earlier may still be approved.                  *)
ApprovalAuthorityAnyVersion(u, w, r, v) ==
    /\ dealStatus[r] = "Negotiating"
    /\ w \in Parties(r)
    /\ ActsFor(u, w)
    /\ Holds(DealApprover(u, w))

(* evaluateApprovalAuthority, on the rows the transaction has locked.       *)
ApprovalAuthority(u, w, r, v) ==
    /\ dealStatus[r] = "Negotiating"
    /\ v = CurrentVersion(r)
    /\ w \in Parties(r)
    /\ ActsFor(u, w)
    /\ Holds(DealApprover(u, w))

(* Mutation: the index is on the approver instead of the workspace.         *)
ApproverApproved(u, r, v, w) ==
    \E a \in approvals : a.deal = r /\ a.version = v /\ a.user = u

(* The unique index on (termsVersionId, workspaceId).                       *)
AlreadyApproved(u, r, v, w) == ApprovedBy(r, v, w)

(* approveTerms: a second approval of the workspace for the version is      *)
(* answered APPROVAL_ALREADY_RECORDED.                                      *)
ApproveTerms(u, w, r, v) ==
    /\ v \in 1..CurrentVersion(r)
    /\ ApprovalAuthority(u, w, r, v)
    /\ ~AlreadyApproved(u, r, v, w)
    /\ approvals' = approvals \cup
          {[deal |-> r, version |-> v, workspace |-> w, user |-> u]}
    /\ UNCHANGED <<requestVars, terms, drafts>>

TermsNext ==
    \/ \E d \in Drafters :
          \/ \E u \in Users, w \in Workspaces, r \in Requests, price \in Candidates :
                BeginDraft(d, u, w, r, price)
          \/ PersistDraft(d)
          \/ DraftFails(d)
    \/ \E u \in Users, w \in Workspaces, r \in Requests, v \in 1..MaxVersions :
          ApproveTerms(u, w, r, v)
    \/ RequestsNext /\ UNCHANGED termsVars

TermsSpec == TermsInit /\ [][TermsNext]_<<requestVars, termsVars>>
-----------------------------------------------------------------------------
(* Approvals are evidence: each names a version that exists and one of the  *)
(* deal's own workspaces, and however many approvers a workspace has and    *)
(* however their commands interleave, it approves a version once.           *)
ApprovalsAreEvidence ==
    /\ \A a \in approvals :
          a.version \in 1..CurrentVersion(a.deal) /\ a.workspace \in Parties(a.deal)
    /\ \A a, b \in approvals :
          a.deal = b.deal /\ a.version = b.version /\ a.workspace = b.workspace => a = b

(* A redraft makes every earlier approval ineffective for good: a version   *)
(* that is no longer current gains no approval, so a party that answers     *)
(* late, to terms it saw before they were replaced, approves nothing.       *)
SupersededApprovalsFrozen ==
    [][\A r \in Requests, w \in Workspaces : \A v \in 1..(CurrentVersion(r) - 1) :
          ApprovedBy(r, v, w)' = ApprovedBy(r, v, w)]_<<requestVars, termsVars>>

(* The AI call may last longer than its author's authority: terms are only  *)
(* ever appended, one version at a time, to a Negotiating deal, by a human  *)
(* who at that moment is still a member of an Active party.                 *)
TermsAppendedWithAuthority ==
    [][\A r \in Requests :
          terms'[r] # terms[r] =>
              \E d \in Drafters :
                  /\ drafts[d] # NoDraft /\ drafts[d].deal = r
                  /\ terms'[r] = Append(terms[r], drafts[d].price)
                  /\ dealStatus[r] = "Negotiating"
                  /\ drafts[d].workspace \in Parties(r)
                  /\ ActsFor(drafts[d].user, drafts[d].workspace)
      ]_<<requestVars, termsVars>>
=============================================================================
