----------------------- MODULE FundingRefinement_proofs -----------------------
(* What the rows of the deals are to those who look at them, for every      *)
(* number of deals, calls, drafters and versions: the request, terms and    *)
(* funding services together implement DealLifecycle, and the list that is  *)
(* read while they work (DealListing) is sound.                             *)
(*                                                                          *)
(* Under FundingInv the funded terms are the current terms of an Active     *)
(* deal, so what the mapping shows of a deal is a function of its status,   *)
(* its terms and their approvals, and a step is mapped by what it does to   *)
(* these three.                                                             *)
EXTENDS Funding_proofs, DealListing

FundedVersionSettled ==
    \A r \in Requests :
        FundedVersion(r) = IF dealStatus[r] = "Active" THEN CurrentVersion(r) ELSE 0

LEMMA FundedVersionIs == FundingInv => FundedVersionSettled
  <1> SUFFICES ASSUME FundingInv, NEW r \in Requests
               PROVE  FundedVersion(r)
                        = IF dealStatus[r] = "Active" THEN CurrentVersion(r) ELSE 0
    BY DEF FundedVersionSettled
  <1>1. CASE dealStatus[r] = "Active"
    <2>1. CurrentVersion(r) \in Versions /\ intent[r][CurrentVersion(r)] = "Confirmed"
      BY <1>1 DEF FundingInv, ActivationInvariant
    <2>2. \A v \in Versions : intent[r][v] = "Confirmed" => v = CurrentVersion(r)
      BY DEF FundingInv, ConfirmedMeansActive
    <2> QED BY <1>1, <2>1, <2>2 DEF FundedVersion
  <1>2. CASE dealStatus[r] # "Active"
    BY <1>2 DEF FundingInv, ConfirmedMeansActive, FundedVersion
  <1> QED BY <1>1, <1>2

SeenAs(r) == <<StageOf(r), CurrentVersion(r), AgreedSides(r), FundedVersion(r)>>

LEMMA SameRowsSeenAlike ==
    ASSUME FundingInv, FundingInv', NEW r \in Requests, dealStatus'[r] = dealStatus[r],
           terms'[r] = terms[r],
           \A w : ApprovedBy(r, CurrentVersion(r), w)' = ApprovedBy(r, CurrentVersion(r), w)
    PROVE  SeenAs(r)' = SeenAs(r)
  <1>1. CurrentVersion(r)' = CurrentVersion(r)
    BY DEF CurrentVersion
  <1>2. StageOf(r)' = StageOf(r)
    BY DEF StageOf
  <1>3. AgreedSides(r)' = AgreedSides(r)
    <2>1. ApprovedBy(r, CurrentVersion(r), Buyer(r))' = ApprovedBy(r, CurrentVersion(r), Buyer(r))
      BY DEF Buyer, ApprovedBy
    <2>2. ApprovedBy(r, CurrentVersion(r), Seller(r))' = ApprovedBy(r, CurrentVersion(r), Seller(r))
      BY DEF Seller, ApprovedBy
    <2> QED BY <2>1, <2>2 DEF AgreedSides, Seller, Buyer
  <1>4. FundedVersion(r)' = FundedVersion(r)
    <2>1. (FundingInv => FundedVersionSettled)'
      BY FundedVersionIs, PTL
    <2> QED BY <1>1, <2>1, FundedVersionIs DEF FundedVersionSettled
  <1> QED BY <1>1, <1>2, <1>3, <1>4 DEF SeenAs

LEMMA AllSeenAlike ==
    ASSUME \A r \in Requests : SeenAs(r)' = SeenAs(r)
    PROVE  UNCHANGED Lifecycle!lifecycleVars
  <1>1. \A r \in Requests :
           /\ StageOf(r)' = StageOf(r) /\ CurrentVersion(r)' = CurrentVersion(r)
           /\ AgreedSides(r)' = AgreedSides(r) /\ FundedVersion(r)' = FundedVersion(r)
    BY DEF SeenAs
  <1> QED BY <1>1 DEF Lifecycle!lifecycleVars

(* A step that leaves status, terms and approvals alone is a stutter.       *)
LEMMA SameRowsStutter ==
    ASSUME FundingInv, FundingInv', UNCHANGED <<dealStatus, terms, approvals>>
    PROVE  UNCHANGED Lifecycle!lifecycleVars
  <1>1. ASSUME NEW r \in Requests
        PROVE  SeenAs(r)' = SeenAs(r)
    BY SameRowsSeenAlike DEF ApprovedBy, CurrentVersion
  <1> QED BY <1>1, AllSeenAlike
-----------------------------------------------------------------------------
LEMMA RequestsStepMaps ==
    ASSUME FundingInv, FundingInv', RequestsNext, UNCHANGED termsVars
    PROVE  [Lifecycle!LifecycleNext]_(Lifecycle!lifecycleVars)
  <1>1. CASE UNCHANGED dealStatus
    BY <1>1, SameRowsStutter DEF termsVars
  <1>2. ASSUME NEW u \in Users, NEW w \in Workspaces, NEW d \in Requests,
               AcceptProjectRequest(u, w, d)
        PROVE  Lifecycle!Open(d)
    <2>1. dealStatus[d] = "None" /\ dealStatus'[d] = "Negotiating"
             /\ \A r \in Requests : r # d => dealStatus'[r] = dealStatus[r]
      BY <1>2 DEF AcceptProjectRequest, OpeningStatus, FundingInv, TypeOK, RequestsTypeOK
    <2>2. \A r \in Requests :
             CurrentVersion(r)' = CurrentVersion(r) /\ AgreedSides(r)' = AgreedSides(r)
      BY DEF termsVars, CurrentVersion, AgreedSides, ApprovedBy, Buyer, Seller
    <2>3. (FundingInv => FundedVersionSettled)'
      BY FundedVersionIs, PTL
    <2>4. \A r \in Requests : FundedVersion(r)' = FundedVersion(r)
      BY <2>1, <2>2, <2>3, FundedVersionIs DEF FundedVersionSettled
    <2>5. StageOf(d) = "none" /\ StageOf(d)' = "negotiating"
             /\ \A r \in Requests : r # d => StageOf(r)' = StageOf(r)
      BY <2>1 DEF StageOf
    <2> QED BY <2>2, <2>4, <2>5 DEF Lifecycle!Open
  <1> QED
    BY <1>1, <1>2 DEF RequestsNext, CreateProjectRequest, DeclineProjectRequest,
                      Lifecycle!LifecycleNext

(* A new version is a proposal: it has no approvals yet, because every      *)
(* approval names a version that existed before (ApprovalsAreEvidence).     *)
LEMMA PersistDraftMaps ==
    ASSUME FundingInv, FundingInv', ApprovalsAreEvidence, UNCHANGED fundingVars,
           NEW d \in Drafters, NEW q \in Requests, PersistDraft(d), drafts[d].deal = q
    PROVE  Lifecycle!Propose(q)
  <1>1. drafts[d].price \in Prices /\ terms[q] \in Seq(Prices)
    BY DEF PersistDraft, FundingInv, TypeOK, TermsTypeOK, DraftCommand
  <1>2. dealStatus[q] = "Negotiating" /\ UNCHANGED <<dealStatus, approvals>>
    BY DEF PersistDraft, StillAuthorised, DraftingAuthority, requestVars
  <1>3. terms'[q] = Append(terms[q], drafts[d].price)
           /\ \A r \in Requests : r # q => terms'[r] = terms[r]
    BY <1>1 DEF PersistDraft, FundingInv, TypeOK, TermsTypeOK
  <1>4. CurrentVersion(q)' = CurrentVersion(q) + 1
           /\ \A r \in Requests : r # q => CurrentVersion(r)' = CurrentVersion(r)
    BY <1>1, <1>3 DEF CurrentVersion
  <1>5. AgreedSides(q)' = {}
    <2>1. CurrentVersion(q) \in Nat
      BY <1>1 DEF CurrentVersion
    <2>2. \A w : ~ApprovedBy(q, CurrentVersion(q), w)'
      BY <1>2, <1>4, <2>1 DEF ApprovedBy, ApprovalsAreEvidence
    <2>3. ~ApprovedBy(q, CurrentVersion(q), Buyer(q))'
             /\ ~ApprovedBy(q, CurrentVersion(q), Seller(q))'
      BY <2>2 DEF Buyer, Seller, ApprovedBy
    <2> QED BY <2>3 DEF AgreedSides
  <1>6. \A r \in Requests : r # q => AgreedSides(r)' = AgreedSides(r)
    BY <1>2, <1>4 DEF AgreedSides, ApprovedBy, Buyer, Seller
  <1>7. (FundingInv => FundedVersionSettled)'
    BY FundedVersionIs, PTL
  <1>8. \A r \in Requests : FundedVersion(r)' = FundedVersion(r)
    BY <1>2, <1>4, <1>7, FundedVersionIs DEF FundedVersionSettled
  <1>9. \A r \in Requests : StageOf(r)' = StageOf(r)
    BY <1>2 DEF StageOf
  <1>10. StageOf(q) = "negotiating"
    BY <1>2 DEF StageOf
  <1> QED BY <1>4, <1>5, <1>6, <1>8, <1>9, <1>10 DEF Lifecycle!Propose

(* An approval of the current terms is the agreement of the side whose      *)
(* workspace gave it; of a workspace that selected itself, the buyer's.     *)
LEMMA ApproveTermsMaps ==
    ASSUME FundingInv, FundingInv', UNCHANGED fundingVars,
           NEW u \in Users, NEW w \in Workspaces, NEW q \in Requests,
           NEW v \in 1..MaxVersions, ApproveTerms(u, w, q, v)
    PROVE  \E side \in {"buyer", "seller"} : Lifecycle!Agree(q, side)
  <1> DEFINE side == IF w = Buyer(q) THEN "buyer" ELSE "seller"
             new  == [deal |-> q, version |-> v, workspace |-> w, user |-> u]
  <1>1. /\ v = CurrentVersion(q) /\ v \in 1..CurrentVersion(q) /\ dealStatus[q] = "Negotiating"
        /\ w = Buyer(q) \/ w = Seller(q)
    BY DEF ApproveTerms, ApprovalAuthority, Parties
  <1>2. UNCHANGED <<dealStatus, terms>> /\ approvals' = approvals \cup {new}
    BY DEF ApproveTerms, requestVars
  <1>3. \A r \in Requests : CurrentVersion(r)' = CurrentVersion(r)
    BY <1>2 DEF CurrentVersion
  <1>4. ASSUME NEW r \in Requests, NEW x
        PROVE  (\E a \in approvals' :
                   a.deal = r /\ a.version = CurrentVersion(r) /\ a.workspace = x)
                 <=> ApprovedBy(r, CurrentVersion(r), x) \/ (r = q /\ x = w)
    <2>1. new.deal = q /\ new.version = v /\ new.workspace = w
      OBVIOUS
    <2> HIDE DEF new
    <2> QED BY <1>1, <1>2, <2>1 DEF ApprovedBy
  <1>5. \A r \in Requests :
           /\ ApprovedBy(r, CurrentVersion(r), Buyer(r))'
                 <=> ApprovedBy(r, CurrentVersion(r), Buyer(r)) \/ (r = q /\ Buyer(r) = w)
           /\ ApprovedBy(r, CurrentVersion(r), Seller(r))'
                 <=> ApprovedBy(r, CurrentVersion(r), Seller(r)) \/ (r = q /\ Seller(r) = w)
    BY <1>3, <1>4 DEF ApprovedBy, Buyer, Seller
  <1>6. \A r \in Requests :
           /\ "buyer" \in AgreedSides(r) <=> ApprovedBy(r, CurrentVersion(r), Buyer(r))
           /\ "seller" \in AgreedSides(r)
                 <=> Seller(r) # Buyer(r) /\ ApprovedBy(r, CurrentVersion(r), Seller(r))
           /\ AgreedSides(r) \subseteq {"buyer", "seller"}
    BY DEF AgreedSides
  <1>7. \A r \in Requests :
           /\ "buyer" \in AgreedSides(r)' <=> ApprovedBy(r, CurrentVersion(r), Buyer(r))'
           /\ "seller" \in AgreedSides(r)'
                 <=> Seller(r) # Buyer(r) /\ ApprovedBy(r, CurrentVersion(r), Seller(r))'
           /\ AgreedSides(r)' \subseteq {"buyer", "seller"}
    BY DEF AgreedSides, Buyer, Seller
  <1>8. AgreedSides(q)' = AgreedSides(q) \cup {side}
    <2>1. \A x \in {"buyer", "seller"} :
             x \in AgreedSides(q)' <=> x \in AgreedSides(q) \/ x = side
      BY <1>1, <1>5, <1>6, <1>7
    <2> QED BY <1>6, <1>7, <2>1
  <1>9. \A r \in Requests : r # q => AgreedSides(r)' = AgreedSides(r)
    BY <1>5, <1>6, <1>7
  <1>10. (FundingInv => FundedVersionSettled)'
    BY FundedVersionIs, PTL
  <1>11. \A r \in Requests : FundedVersion(r)' = FundedVersion(r)
    BY <1>2, <1>3, <1>10, FundedVersionIs DEF FundedVersionSettled
  <1>12. \A r \in Requests : StageOf(r)' = StageOf(r)
    BY <1>2 DEF StageOf
  <1>13. StageOf(q) = "negotiating" /\ CurrentVersion(q) > 0
    BY <1>1 DEF StageOf, FundingInv, TypeOK, TermsTypeOK, CurrentVersion
  <1> HIDE DEF side
  <1>14. Lifecycle!Agree(q, side)
    BY <1>3, <1>8, <1>9, <1>11, <1>12, <1>13 DEF Lifecycle!Agree
  <1> QED BY <1>14 DEF side

(* The activation is the one step that needs both sides to have agreed.     *)
LEMMA ActivateMaps ==
    ASSUME FundingInv, FundingInv', NEW c \in Calls, Activate(c)
    PROVE  Lifecycle!FundAndActivate(CallDeal[c])
  <1> DEFINE q == CallDeal[c]
  <1>1. q \in Requests /\ version[c] \in 1..CurrentVersion(q) /\ version[c] = CurrentVersion(q)
    BY FundingAssumption
       DEF Activate, IsCurrent, FundingInv, CallsActOnApprovedTerms, Authorised
  <1>2. BothApproved(q, CurrentVersion(q))
    BY <1>1, VerdictIsAnswer DEF Activate
  <1>3. AgreedSides(q) = {"buyer", "seller"}
    BY <1>2 DEF BothApproved, AgreedSides
  <1>4. dealStatus[q] = "Negotiating" /\ dealStatus'[q] = "Active"
           /\ \A r \in Requests : r # q => dealStatus'[r] = dealStatus[r]
    BY <1>1 DEF Activate, MarkActive, FundingInv, TypeOK, RequestsTypeOK
  <1>5. UNCHANGED <<terms, approvals>>
    BY DEF Activate, termsVars
  <1>6. \A r \in Requests :
           CurrentVersion(r)' = CurrentVersion(r) /\ AgreedSides(r)' = AgreedSides(r)
    BY <1>5 DEF CurrentVersion, AgreedSides, ApprovedBy, Buyer, Seller
  <1>7. (FundingInv => FundedVersionSettled)'
    BY FundedVersionIs, PTL
  <1>8. FundedVersion(q)' = CurrentVersion(q)
           /\ \A r \in Requests : r # q => FundedVersion(r)' = FundedVersion(r)
    BY <1>1, <1>4, <1>6, <1>7, FundedVersionIs DEF FundedVersionSettled
  <1>9. StageOf(q) = "negotiating" /\ StageOf(q)' = "active"
           /\ \A r \in Requests : r # q => StageOf(r)' = StageOf(r)
    BY <1>4 DEF StageOf
  <1>10. CurrentVersion(q) > 0
    BY <1>1 DEF FundingInv, TypeOK, TermsTypeOK, CurrentVersion
  <1> HIDE DEF q
  <1>11. Lifecycle!FundAndActivate(q)
    BY <1>1, <1>3, <1>6, <1>8, <1>9, <1>10 DEF Lifecycle!FundAndActivate
  <1> QED BY <1>11 DEF q
-----------------------------------------------------------------------------
LEMMA StepMaps ==
    ASSUME FundingInv, FundingInv', ApprovalsAreEvidence, FundingNext
    PROVE  [Lifecycle!LifecycleNext]_(Lifecycle!lifecycleVars)
  <1>1. CASE RequestsNext /\ UNCHANGED termsVars
    BY <1>1, RequestsStepMaps
  <1>2. ASSUME NEW d \in Drafters, PersistDraft(d), UNCHANGED fundingVars
        PROVE  Lifecycle!LifecycleNext
    <2>1. drafts[d].deal \in Requests
      BY <1>2 DEF PersistDraft, FundingInv, TypeOK, TermsTypeOK, DraftCommand
    <2>2. Lifecycle!Propose(drafts[d].deal)
      BY <1>2, <2>1, PersistDraftMaps
    <2> QED BY <2>1, <2>2 DEF Lifecycle!LifecycleNext
  <1>3. ASSUME NEW u \in Users, NEW w \in Workspaces, NEW r \in Requests,
               NEW v \in 1..MaxVersions, ApproveTerms(u, w, r, v), UNCHANGED fundingVars
        PROVE  Lifecycle!LifecycleNext
    BY <1>3, ApproveTermsMaps DEF Lifecycle!LifecycleNext
  <1>4. ASSUME NEW d \in Drafters,
               DraftFails(d) \/ \E u \in Users, w \in Workspaces, r \in Requests,
                                   price \in Candidates : BeginDraft(d, u, w, r, price)
        PROVE  UNCHANGED Lifecycle!lifecycleVars
    BY <1>4, SameRowsStutter DEF BeginDraft, DraftFails, requestVars
  <1>5. ASSUME NEW c \in Calls, CallStep(c)
        PROVE  [Lifecycle!LifecycleNext]_(Lifecycle!lifecycleVars)
    <2>1. CASE Activate(c)
      <3>1. CallDeal[c] \in Requests
        BY FundingAssumption
      <3> QED BY <2>1, <3>1, ActivateMaps DEF Lifecycle!LifecycleNext
    <2>2. CASE ~Activate(c)
      BY <1>5, <2>2, CallFrame, SameRowsStutter DEF termsVars
    <2> QED BY <2>1, <2>2
  <1> QED BY <1>1, <1>2, <1>3, <1>4, <1>5 DEF FundingNext, TermsNext, CallStep

LEMMA InitMaps == FundingInit => Lifecycle!LifecycleInit
  <1> SUFFICES ASSUME FundingInit PROVE Lifecycle!LifecycleInit
    OBVIOUS
  <1>1. ASSUME NEW r \in Requests
        PROVE  /\ StageOf(r) = "none" /\ CurrentVersion(r) = 0
               /\ AgreedSides(r) = {} /\ FundedVersion(r) = 0
    <2>1. StageOf(r) = "none" /\ CurrentVersion(r) = 0
      BY DEF FundingInit, TermsInit, RequestsInit, StageOf, CurrentVersion
    <2>2. \A w : ~ApprovedBy(r, CurrentVersion(r), w)
      BY DEF FundingInit, TermsInit, ApprovedBy
    <2>3. AgreedSides(r) = {}
      BY <2>2 DEF AgreedSides
    <2>4. FundedVersion(r) = 0
      BY DEF FundingInit, FundedVersion
    <2> QED BY <2>1, <2>3, <2>4
  <1> QED BY <1>1 DEF Lifecycle!LifecycleInit

(* The three services together implement the deal lifecycle                 *)
(* (ImplementsLifecycle): a deal opens once, each redraft discards the      *)
(* agreement before it, and it becomes active and funded in one step, on    *)
(* terms that both sides have agreed to.                                    *)
THEOREM ServicesImplementLifecycle == Spec => ImplementsLifecycle
  <1>1. FundingInit => ApprovalsAreEvidence
    BY DEF FundingInit, TermsInit, ApprovalsAreEvidence
  <1>2. FundingInv /\ ApprovalsAreEvidence /\ [FundingNext]_vars => ApprovalsAreEvidence'
    <2> SUFFICES ASSUME FundingInv, ApprovalsAreEvidence, [FundingNext]_vars
                 PROVE  ApprovalsAreEvidence'
      OBVIOUS
    <2>1. CASE TermsNext
      BY <2>1, TermsStepEvidence DEF FundingInv, TypeOK
    <2>2. CASE UNCHANGED termsVars
      BY <2>2 DEF ApprovalsAreEvidence, CurrentVersion, Parties, Buyer, Seller, termsVars
    <2> QED BY <2>1, <2>2, CallFrame DEF FundingNext, CallStep, vars
  <1>3. FundingInv /\ FundingInv' /\ ApprovalsAreEvidence /\ [FundingNext]_vars
        => [Lifecycle!LifecycleNext]_(Lifecycle!lifecycleVars)
    <2>1. ASSUME FundingInv, FundingInv', UNCHANGED vars
          PROVE  UNCHANGED Lifecycle!lifecycleVars
      BY <2>1, SameRowsStutter DEF vars, requestVars, termsVars
    <2> QED BY <2>1, StepMaps
  <1> QED
    BY <1>1, <1>2, <1>3, InitMaps, FundingInvariant, PTL
       DEF Spec, ImplementsLifecycle, Lifecycle!LifecycleSpec
-----------------------------------------------------------------------------
(* The list.  ListingInv says what its statements have fixed: what was read *)
(* of an Active deal stays as it is, and so does a Confirmed intent; it is  *)
(* inductive because no service changes either (SettledStep).               *)
InOrder ==
    /\ read \subseteq Statements
    /\ read # {} => "authority" \in read
    /\ "versions" \in read \/ "intents" \in read => "deals" \in read
    /\ "approvals" \in read => "versions" \in read

ActiveRowFits(r) ==
    rows.status[r] = "Active" =>
        /\ dealStatus[r] = "Active"
        /\ "versions" \in read => rows.version[r] = CurrentVersion(r)
        /\ "approvals" \in read => {Buyer(r), Seller(r)} \subseteq rows.approving[r]
        /\ "intents" \in read => rows.intents[r][CurrentVersion(r)] = "Confirmed"

ConfirmedRowFits(r) ==
    \A v \in Versions : rows.intents[r][v] = "Confirmed" =>
        dealStatus[r] = "Active" /\ v = CurrentVersion(r)

ListingInv ==
    /\ rows \in Rows
    /\ InOrder
    /\ "deals" \notin read => \A r \in Requests : rows.status[r] = "None"
    /\ MembersOnly
    /\ \A r \in Requests : ActiveRowFits(r) /\ ConfirmedRowFits(r)

(* What the statements read of an Active deal, whenever they do.            *)
LEMMA ActiveDeal ==
    ASSUME FundingInv, NEW r \in Requests, dealStatus[r] = "Active"
    PROVE  /\ CurrentVersion(r) \in Versions
           /\ \A w \in {Buyer(r), Seller(r)} : ApprovedBy(r, CurrentVersion(r), w)
           /\ intent[r][CurrentVersion(r)] = "Confirmed"
  <1>1. /\ CurrentVersion(r) \in Versions
        /\ BothApproved(r, CurrentVersion(r))
        /\ intent[r][CurrentVersion(r)] = "Confirmed"
    BY DEF FundingInv, ActivationInvariant
  <1>2. /\ ApprovedBy(r, CurrentVersion(r), Buyer(r))
        /\ ApprovedBy(r, CurrentVersion(r), Seller(r))
    BY <1>1 DEF BothApproved
  <1> QED BY <1>1, <1>2

LEMMA NoRowsFit == NoRows \in Rows
  BY TermsAssumption DEF NoRows, Rows, IntentStates

LEMMA ListingInitInv == ListingInit => ListingInv
  <1> SUFFICES ASSUME ListingInit PROVE ListingInv
    OBVIOUS
  <1>1. rows = NoRows /\ read = {}
    BY DEF ListingInit
  <1>2. \A r \in Requests : rows.status[r] = "None"
           /\ \A v \in Versions : rows.intents[r][v] = "None"
    BY <1>1 DEF NoRows
  <1> QED
    BY <1>1, <1>2, NoRowsFit
       DEF ListingInv, InOrder, MembersOnly, Underway, ActiveRowFits, ConfirmedRowFits

(* The services go on: what was read of the settled deals stays true.       *)
LEMMA ServicesKeepListing ==
    ASSUME FundingInv, ListingInv, FundingNext, LocksHold, UNCHANGED listingVars
    PROVE  ListingInv'
  <1>1. UNCHANGED <<read, rows>>
    BY DEF listingVars
  <1>2. MembersOnly'
    BY <1>1 DEF ListingInv, MembersOnly, Underway, LocksHold, Locked, ActsFor, Holds
  <1>3. ASSUME NEW r \in Requests
        PROVE  ActiveRowFits(r)' /\ ConfirmedRowFits(r)'
    <2>1. CASE dealStatus[r] = "Active"
      <3>1. dealStatus'[r] = "Active" /\ terms'[r] = terms[r]
        BY <2>1, SettledStep, ActiveStaysActive
      <3>2. CurrentVersion(r)' = CurrentVersion(r)
        BY <3>1 DEF CurrentVersion
      <3> QED
        BY <1>1, <3>1, <3>2 DEF ListingInv, ActiveRowFits, ConfirmedRowFits, Buyer, Seller
    <2>2. CASE dealStatus[r] # "Active"
      BY <1>1, <2>2 DEF ListingInv, ActiveRowFits, ConfirmedRowFits
    <2> QED BY <2>1, <2>2
  <1> QED BY <1>1, <1>2, <1>3 DEF ListingInv, InOrder

(* A statement returns.  The deals themselves do not move.                  *)
LEMMA ReaderKeepsListing ==
    ASSUME FundingInv, ListingInv, UNCHANGED vars,
           Authorise \/ ReadDeals \/ ReadVersions \/ ReadApprovals \/ ReadIntents \/ EndListing
    PROVE  ListingInv'
  <1>1. UNCHANGED <<authority, dealStatus, terms, approvals, intent>>
    BY DEF vars, requestVars, termsVars, fundingVars
  <1>2. \A r \in Requests : CurrentVersion(r)' = CurrentVersion(r)
    BY <1>1 DEF CurrentVersion
  <1>3. CASE Authorise
    <2>1. read = {} /\ read' = {"authority"} /\ rows' = rows
            /\ ActsFor(Reader, ReaderWorkspace)
      BY <1>3 DEF Authorise
    <2>2. InOrder' /\ MembersOnly'
      BY <1>1, <2>1 DEF InOrder, MembersOnly, Statements, ActsFor, Holds
    <2> QED BY <1>1, <1>2, <2>1, <2>2 DEF ListingInv, ActiveRowFits, ConfirmedRowFits
  <1>4. CASE EndListing
    <2>1. read' = {} /\ rows' = NoRows
      BY <1>4 DEF EndListing
    <2>2. \A r \in Requests : rows'.status[r] = "None"
             /\ \A v \in Versions : rows'.intents[r][v] = "None"
      BY <2>1 DEF NoRows
    <2> QED
      BY <2>1, <2>2, NoRowsFit
         DEF ListingInv, InOrder, MembersOnly, Underway, ActiveRowFits, ConfirmedRowFits
  <1>5. ASSUME NEW s \in Statements, NEW before \in read, s # "authority",
               s \notin read, read' = read \cup {s}
        PROVE  MembersOnly'
    BY <1>1, <1>5 DEF ListingInv, MembersOnly, Underway, ActsFor, Holds
  <1>6. CASE ReadDeals
    <2>1. /\ "authority" \in read /\ "deals" \notin read /\ read' = read \cup {"deals"}
          /\ rows'.version = rows.version /\ rows'.approving = rows.approving
          /\ rows'.intents = rows.intents /\ rows' \in Rows
          /\ \A r \in Requests : rows'.status[r] \in {"None", dealStatus[r]}
      BY <1>6 DEF ReadDeals, Read, ListingInv, Rows, FundingInv, TypeOK, RequestsTypeOK
    <2>2. "versions" \notin read /\ "approvals" \notin read /\ "intents" \notin read
      BY <2>1 DEF ListingInv, InOrder
    <2>3. InOrder' /\ MembersOnly'
      BY <1>5, <2>1 DEF ListingInv, InOrder, Statements
    <2>4. \A r \in Requests : ActiveRowFits(r)' /\ ConfirmedRowFits(r)'
      BY <1>1, <1>2, <2>1, <2>2 DEF ListingInv, ActiveRowFits, ConfirmedRowFits
    <2> QED BY <2>1, <2>3, <2>4 DEF ListingInv
  <1>7. CASE ReadVersions
    <2>1. /\ "deals" \in read /\ "versions" \notin read /\ read' = read \cup {"versions"}
          /\ rows'.status = rows.status /\ rows'.approving = rows.approving
          /\ rows'.intents = rows.intents
          /\ rows'.version = [r \in Requests |-> IF Listed(r) THEN CurrentVersion(r) ELSE 0]
      BY <1>7 DEF ReadVersions, Read, ListingInv, Rows
    <2>2. \A r \in Requests : CurrentVersion(r) \in 0..MaxVersions
      BY TermsAssumption
         DEF FundingInv, TypeOK, TermsTypeOK, VersionsBounded, CurrentVersion
    <2>3. rows' \in Rows
      BY <1>7, <2>2, TermsAssumption DEF ReadVersions, ListingInv, Rows
    <2>4. InOrder' /\ MembersOnly'
      BY <1>5, <2>1 DEF ListingInv, InOrder, Statements
    <2>5. "approvals" \notin read
      BY <2>1 DEF ListingInv, InOrder
    <2>6. \A r \in Requests : ActiveRowFits(r)' /\ ConfirmedRowFits(r)'
      BY <1>1, <1>2, <2>1, <2>5 DEF ListingInv, ActiveRowFits, ConfirmedRowFits, Listed
    <2> QED BY <2>1, <2>3, <2>4, <2>6 DEF ListingInv
  <1>8. CASE ReadApprovals
    <2>1. /\ "versions" \in read /\ "approvals" \notin read /\ read' = read \cup {"approvals"}
          /\ rows'.status = rows.status /\ rows'.version = rows.version
          /\ rows'.intents = rows.intents /\ rows' \in Rows
          /\ \A r \in Requests : rows'.approving[r]
                = {w \in Workspaces : ApprovedBy(r, rows.version[r], w)}
      BY <1>8 DEF ReadApprovals, Read, ListingInv, Rows
    <2>2. InOrder' /\ MembersOnly'
      BY <1>5, <2>1 DEF ListingInv, InOrder, Statements
    <2>3. ASSUME NEW r \in Requests, rows.status[r] = "Active"
          PROVE  {Buyer(r), Seller(r)} \subseteq rows'.approving[r]
      <3>1. dealStatus[r] = "Active" /\ rows.version[r] = CurrentVersion(r)
        BY <2>1, <2>3 DEF ListingInv, ActiveRowFits
      <3>2. Buyer(r) \in Workspaces /\ Seller(r) \in Workspaces
        BY RequestsAssumption DEF Buyer, Seller
      <3> QED BY <2>1, <3>1, <3>2, ActiveDeal
    <2>4. "deals" \in read
      BY <2>1 DEF ListingInv, InOrder
    <2>5. \A r \in Requests : ActiveRowFits(r)' /\ ConfirmedRowFits(r)'
      BY <1>1, <1>2, <2>1, <2>3
         DEF ListingInv, ActiveRowFits, ConfirmedRowFits, Buyer, Seller
    <2> QED BY <2>1, <2>2, <2>4, <2>5 DEF ListingInv
  <1>9. CASE ReadIntents
    <2>1. /\ "deals" \in read /\ "intents" \notin read /\ read' = read \cup {"intents"}
          /\ rows'.status = rows.status /\ rows'.version = rows.version
          /\ rows'.approving = rows.approving
          /\ \A r \in Requests : rows'.intents[r]
                = IF Listed(r) THEN intent[r] ELSE [v \in Versions |-> "None"]
      BY <1>9 DEF ReadIntents, Read, ListingInv, Rows
    <2>2. rows' \in Rows
      <3>1. intent \in [Requests -> [Versions -> IntentStates]]
        BY DEF FundingInv, TypeOK, FundingTypeOK
      <3>2. [r \in Requests |-> IF Listed(r) THEN intent[r] ELSE [v \in Versions |-> "None"]]
               \in [Requests -> [Versions -> IntentStates]]
        BY <3>1 DEF IntentStates
      <3> HIDE DEF IntentStates
      <3> QED BY <1>9, <3>2 DEF ReadIntents, ListingInv, Rows
    <2>3. InOrder' /\ MembersOnly'
      BY <1>5, <2>1 DEF ListingInv, InOrder, Statements
    <2>4. ASSUME NEW r \in Requests
          PROVE  ActiveRowFits(r)' /\ ConfirmedRowFits(r)'
      <3>1. CASE Listed(r)
        <4>1. rows'.intents[r] = intent[r]
          BY <2>1, <3>1
        <4>2. ActiveRowFits(r)'
          BY <1>1, <1>2, <2>1, <4>1, ActiveDeal DEF ListingInv, ActiveRowFits, Buyer, Seller
        <4>3. ConfirmedRowFits(r)'
          BY <1>1, <1>2, <4>1 DEF FundingInv, ConfirmedMeansActive, ConfirmedRowFits
        <4> QED BY <4>2, <4>3
      <3>2. CASE ~Listed(r)
        BY <2>1, <3>2 DEF Listed, ActiveRowFits, ConfirmedRowFits
      <3> QED BY <3>1, <3>2
    <2> QED BY <2>1, <2>2, <2>3, <2>4 DEF ListingInv
  <1> QED BY <1>3, <1>4, <1>6, <1>7, <1>8, <1>9

LEMMA ListingStep == FundingInv /\ ListingInv /\ [ListingNext]_allVars => ListingInv'
  <1> SUFFICES ASSUME FundingInv, ListingInv, [ListingNext]_allVars PROVE ListingInv'
    OBVIOUS
  <1>1. CASE UNCHANGED allVars
    <2>1. UNCHANGED <<authority, dealStatus, terms, read, rows>>
      BY <1>1 DEF allVars, listingVars, vars, requestVars, termsVars
    <2> QED
      BY <2>1 DEF ListingInv, InOrder, MembersOnly, Underway, ActsFor, Holds, ActiveRowFits,
                  ConfirmedRowFits, CurrentVersion, Buyer, Seller
  <1> QED BY <1>1, ServicesKeepListing, ReaderKeepsListing DEF ListingNext

(* A list that was read in full says what it should.                        *)
LEMMA ListingInvIsSound ==
    ASSUME FundingInv, ListingInv
    PROVE  ListingIsSound
  <1> SUFFICES ASSUME read = Statements, NEW r \in Requests
               PROVE  ActiveIsFunded(r) /\ ConfirmedIsActive(r)
    BY DEF ListingInv, ListingIsSound
  <1>1. ActiveRowFits(r) /\ ConfirmedRowFits(r) /\ rows.version[r] \in 0..MaxVersions
    BY DEF ListingInv, Rows
  <1>2. ActiveIsFunded(r)
    <2> SUFFICES ASSUME rows.status[r] = "Active" PROVE ListFundingStatus(r) = "Confirmed"
      BY DEF ActiveIsFunded
    <2>1. /\ rows.version[r] = CurrentVersion(r) /\ dealStatus[r] = "Active"
          /\ Buyer(r) \in rows.approving[r] /\ Seller(r) \in rows.approving[r]
          /\ rows.intents[r][CurrentVersion(r)] = "Confirmed"
      BY <1>1 DEF ActiveRowFits, Statements
    <2>2. rows.version[r] # 0
      BY <2>1, ActiveDeal, TermsAssumption DEF Versions
    <2>3. ApprovalState(r) = "BothApproved"
      BY <2>1, <2>2 DEF ApprovalState
    <2> QED BY <2>1, <2>2, <2>3 DEF ListFundingStatus, CurrentIntent
  <1>3. ConfirmedIsActive(r)
    <2> SUFFICES ASSUME ListFundingStatus(r) = "Confirmed"
                 PROVE  dealStatus[r] = "Active" /\ rows.version[r] = CurrentVersion(r)
      BY DEF ConfirmedIsActive
    <2>1. CurrentIntent(r) = "Confirmed"
      BY DEF ListFundingStatus
    <2>2. rows.version[r] \in Versions /\ rows.intents[r][rows.version[r]] = "Confirmed"
      BY <1>1, <2>1, TermsAssumption DEF CurrentIntent, Versions
    <2> QED BY <1>1, <2>2 DEF ConfirmedRowFits
  <1> QED BY <1>2, <1>3

(* A list of deals, read statement by statement while deals are negotiated  *)
(* and funded, is sound (ListingIsSound).                                   *)
THEOREM ListingStaysSound == ListingSpec => []ListingIsSound
  <1>1. ListingInit => FundingInit
    BY DEF ListingInit
  <1>2. [ListingNext]_allVars => [FundingNext]_vars
    BY DEF ListingNext, allVars
  <1>3. ListingSpec => Spec
    BY <1>1, <1>2, PTL DEF ListingSpec, Spec
  <1> QED
    BY <1>3, FundingInvariant, ListingInitInv, ListingStep, ListingInvIsSound, PTL
       DEF ListingSpec
=============================================================================
