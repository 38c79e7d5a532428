---------------------------- MODULE Funding_proofs ----------------------------
(* Proofs about funding and activation, for every number of deals, calls,   *)
(* drafters, versions and prices, and every pattern of revocations, crashes *)
(* and provider answers.                                                    *)
(*                                                                          *)
(* FundingInv is the inductive invariant.  ActivationInvariant alone is not *)
(* inductive: that Phase 3 finds the funds in escrow needs what the call    *)
(* obtained earlier (CallsActOnApprovedTerms), which holds for a call that  *)
(* found a Confirmed intent only because such an intent means an Active     *)
(* deal (ConfirmedMeansActive), whose funds ActivationInvariant provides.   *)
EXTENDS Funding, DealTerms_proofs

TypeOK == RequestsTypeOK /\ TermsTypeOK /\ FundingTypeOK

VersionsBounded == \A r \in Requests : CurrentVersion(r) <= MaxVersions

FundingInv ==
    /\ TypeOK
    /\ VersionsBounded
    /\ DealIffConsent
    /\ ActivationInvariant
    /\ ConfirmedMeansActive
    /\ HeldFundsWereApproved
    /\ CallsActOnApprovedTerms

(* The steps of fundDeal, as opposed to those of the services it shares the *)
(* database with.                                                           *)
CallStep(c) == Begin(c) \/ Proceed(c) \/ ProviderAnswers(c) \/ Lose(c)
-----------------------------------------------------------------------------
LEMMA FundingInitInv == FundingInit => FundingInv
  <1> SUFFICES ASSUME FundingInit PROVE FundingInv
    OBVIOUS
  <1>1. TypeOK
    BY TermsInitType, TermsAssumption, FundingAssumption
       DEF FundingInit, TypeOK, FundingTypeOK, IntentStates, Steps, Answers, Hold
  <1>2. VersionsBounded
    BY TermsAssumption DEF FundingInit, TermsInit, VersionsBounded, CurrentVersion
  <1>3. DealIffConsent
    BY RequestsInitConsent DEF FundingInit, TermsInit
  <1>4. ActivationInvariant
    BY DEF FundingInit, TermsInit, RequestsInit, ActivationInvariant
  <1>5. ConfirmedMeansActive
    BY DEF FundingInit, ConfirmedMeansActive
  <1>6. HeldFundsWereApproved
    BY DEF FundingInit, HeldFundsWereApproved
  <1>7. CallsActOnApprovedTerms
    BY DEF FundingInit, CallsActOnApprovedTerms, Authorised
  <1> QED BY <1>1, <1>2, <1>3, <1>4, <1>5, <1>6, <1>7 DEF FundingInv

(* A version a deal has is a version the bound admits, and has a price.     *)
LEMMA VersionOfDeal ==
    ASSUME TypeOK, VersionsBounded, NEW r \in Requests, NEW v \in 1..CurrentVersion(r)
    PROVE  v \in Versions /\ terms[r][v] \in Prices
  <1>1. terms[r] \in Seq(Prices) /\ v \in 1..Len(terms[r])
    BY DEF TypeOK, TermsTypeOK, CurrentVersion
  <1> QED BY <1>1, TermsAssumption DEF VersionsBounded, CurrentVersion, Versions

(* An update of one payment intent leaves every other one alone.            *)
LEMMA IntentUpdate ==
    ASSUME FundingTypeOK, NEW r \in Requests, NEW v \in Versions, NEW state \in IntentStates,
           SetIntent(r, v, state)
    PROVE  /\ intent' \in [Requests -> [Versions -> IntentStates]]
           /\ intent'[r][v] = state
           /\ \A q \in Requests, n \in Versions :
                 (q # r \/ n # v) => intent'[q][n] = intent[q][n]
  <1> DEFINE row == [intent[r] EXCEPT ![v] = state]
  <1>1. intent \in [Requests -> [Versions -> IntentStates]]
    BY DEF FundingTypeOK
  <1>2. row \in [Versions -> IntentStates] /\ row[v] = state
           /\ \A n \in Versions : n # v => row[n] = intent[r][n]
    BY <1>1
  <1>3. intent' = [intent EXCEPT ![r] = row]
    BY DEF SetIntent
  <1> HIDE DEF row
  <1> QED BY <1>1, <1>2, <1>3
-----------------------------------------------------------------------------
(* The steps of the other services.                                         *)
LEMMA OthersKeepType ==
    ASSUME TypeOK, TermsNext, UNCHANGED fundingVars
    PROVE  TypeOK'
  BY TermsStepType DEF TypeOK, FundingTypeOK, fundingVars

LEMMA OthersKeepBound ==
    ASSUME TypeOK, VersionsBounded, TermsNext
    PROVE  VersionsBounded'
  <1>1. CASE UNCHANGED terms
    BY <1>1 DEF VersionsBounded, CurrentVersion
  <1>2. ASSUME NEW d \in Drafters, PersistDraft(d), NEW r \in Requests
        PROVE  CurrentVersion(r)' <= MaxVersions
    <2>1. /\ drafts[d].deal \in Requests
          /\ drafts[d].price \in Prices
          /\ terms[r] \in Seq(Prices)
      BY <1>2 DEF PersistDraft, TypeOK, TermsTypeOK, DraftCommand
    <2>2. CASE drafts[d].deal = r
      <3>1. terms'[r] = Append(terms[r], drafts[d].price) /\ Len(terms[r]) < MaxVersions
        BY <1>2, <2>2 DEF PersistDraft, TypeOK, TermsTypeOK, CurrentVersion
      <3> QED BY <2>1, <3>1, TermsAssumption DEF CurrentVersion
    <2>3. CASE drafts[d].deal # r
      BY <1>2, <2>3 DEF PersistDraft, TypeOK, TermsTypeOK, VersionsBounded, CurrentVersion
    <2> QED BY <2>2, <2>3
  <1> QED
    BY <1>1, <1>2 DEF TermsNext, BeginDraft, DraftFails, ApproveTerms, termsVars,
                      VersionsBounded

(* What evidence the other services leave to a deal and to a version of it. *)
LEMMA OthersKeepEvidence ==
    ASSUME TypeOK, TermsNext, NEW r \in Requests
    PROVE  /\ r \in consented => r \in consented'
           /\ requestStatus[r] = "Accepted" => requestStatus'[r] = "Accepted"
           /\ dealStatus[r] = "Active" <=> dealStatus'[r] = "Active"
           /\ \A v : BothApproved(r, v) => BothApproved(r, v)'
           /\ \A v \in 1..CurrentVersion(r) :
                 v \in 1..CurrentVersion(r)' /\ terms'[r][v] = terms[r][v]
           /\ dealStatus[r] = "Active" => terms'[r] = terms[r]
  <1>1. approvals \subseteq approvals'
    BY TermsStepGrows DEF TypeOK
  <1>2. \A v : BothApproved(r, v) => BothApproved(r, v)'
    BY <1>1 DEF BothApproved, ApprovedBy, Buyer, Seller
  <1>3. terms[r] \in Seq(Prices) /\ terms'[r] \in Seq(Prices)
    BY TermsStepType DEF TypeOK, TermsTypeOK
  <1>4. Len(terms'[r]) >= Len(terms[r]) /\ \A v \in 1..Len(terms[r]) : terms'[r][v] = terms[r][v]
    BY TermsStepGrows DEF TypeOK
  <1>5. \A v \in 1..CurrentVersion(r) :
            v \in 1..CurrentVersion(r)' /\ terms'[r][v] = terms[r][v]
    BY <1>3, <1>4 DEF CurrentVersion
  <1> QED BY <1>2, <1>5, TermsStepGrows DEF TypeOK

LEMMA OthersKeepInv ==
    ASSUME FundingInv, TermsNext, UNCHANGED fundingVars
    PROVE  FundingInv'
  <1>1. TypeOK' /\ VersionsBounded' /\ DealIffConsent'
    BY OthersKeepType, OthersKeepBound, TermsStepConsent DEF FundingInv, TypeOK
  <1>2. ActivationInvariant'
    <2> SUFFICES ASSUME NEW r \in Requests, dealStatus'[r] = "Active"
                 PROVE  LET v == CurrentVersion(r) IN
                        (/\ v \in Versions
                         /\ requestStatus[r] = "Accepted" /\ r \in consented
                         /\ BothApproved(r, v)
                         /\ intent[r][v] = "Confirmed"
                         /\ [deal |-> r, version |-> v, amount |-> terms[r][v]] \in held)'
      BY DEF ActivationInvariant
    <2>1. dealStatus[r] = "Active" /\ terms'[r] = terms[r]
      BY OthersKeepEvidence DEF FundingInv
    <2>2. CurrentVersion(r)' = CurrentVersion(r)
      BY <2>1 DEF CurrentVersion
    <2>3. LET v == CurrentVersion(r) IN
          /\ v \in Versions
          /\ requestStatus[r] = "Accepted" /\ r \in consented
          /\ BothApproved(r, v)
          /\ intent[r][v] = "Confirmed"
          /\ [deal |-> r, version |-> v, amount |-> terms[r][v]] \in held
      BY <2>1 DEF FundingInv, ActivationInvariant
    <2>4. BothApproved(r, CurrentVersion(r)) => BothApproved(r, CurrentVersion(r))'
      BY <2>2, OthersKeepEvidence DEF FundingInv, BothApproved, ApprovedBy
    <2>5. requestStatus'[r] = "Accepted" /\ r \in consented'
      BY <2>3, OthersKeepEvidence DEF FundingInv
    <2> QED BY <2>1, <2>2, <2>3, <2>4, <2>5 DEF fundingVars
  <1>3. ConfirmedMeansActive'
    <2> SUFFICES ASSUME NEW r \in Requests, NEW v \in Versions, intent'[r][v] = "Confirmed"
                 PROVE  dealStatus'[r] = "Active" /\ v = CurrentVersion(r)'
      BY DEF ConfirmedMeansActive, Versions
    <2>1. dealStatus[r] = "Active" /\ v = CurrentVersion(r)
      BY DEF FundingInv, ConfirmedMeansActive, fundingVars
    <2> QED BY <2>1, OthersKeepEvidence DEF FundingInv, CurrentVersion
  <1>4. HeldFundsWereApproved'
    <2> SUFFICES ASSUME NEW h \in held
                 PROVE  h.deal \in consented' /\ BothApproved(h.deal, h.version)'
      BY DEF HeldFundsWereApproved, fundingVars
    <2>1. h.deal \in Requests
      BY DEF FundingInv, TypeOK, FundingTypeOK, Hold
    <2>2. h.deal \in consented /\ BothApproved(h.deal, h.version)
      BY DEF FundingInv, HeldFundsWereApproved
    <2> QED BY <2>1, <2>2, OthersKeepEvidence DEF FundingInv
  <1>5. CallsActOnApprovedTerms'
    <2> SUFFICES ASSUME NEW c \in Calls
                 PROVE  (/\ pc[c] = "preauth" \/ pc[c] \in Authorised =>
                               version[c] \in 1..CurrentVersion(CallDeal[c])
                         /\ pc[c] \in Authorised =>
                               /\ CallDeal[c] \in consented
                               /\ BothApproved(CallDeal[c], version[c])
                         /\ pc[c] = "activate" => HoldOf(c, amount[c]) \in held)'
      BY DEF CallsActOnApprovedTerms
    <2>1. CallDeal[c] \in Requests
      BY FundingAssumption
    <2>2. BothApproved(CallDeal[c], version[c]) => BothApproved(CallDeal[c], version[c])'
      BY <2>1, OthersKeepEvidence DEF FundingInv, BothApproved, ApprovedBy, fundingVars
    <2>3. UNCHANGED <<pc, version, amount, held>>
      BY DEF fundingVars
    <2> QED BY <2>1, <2>2, <2>3, OthersKeepEvidence
            DEF FundingInv, CallsActOnApprovedTerms, Authorised, HoldOf, CurrentVersion
  <1> QED BY <1>1, <1>2, <1>3, <1>4, <1>5 DEF FundingInv
-----------------------------------------------------------------------------
(* The steps of fundDeal.  All but the activation leave the rows of the     *)
(* other services alone and confirm no intent.                              *)
Backed(c) ==
    /\ pc[c] = "preauth" \/ pc[c] \in Authorised =>
          version[c] \in 1..CurrentVersion(CallDeal[c])
    /\ pc[c] \in Authorised =>
          CallDeal[c] \in consented /\ BothApproved(CallDeal[c], version[c])
    /\ pc[c] = "activate" => HoldOf(c, amount[c]) \in held

LEMMA BackedCalls == CallsActOnApprovedTerms <=> \A c \in Calls : Backed(c)
  BY DEF CallsActOnApprovedTerms, Backed

LEMMA CallKeepsDeals ==
    ASSUME FundingInv, UNCHANGED <<requestVars, termsVars>>, held \subseteq held',
           \A r \in Requests, v \in Versions :
              intent'[r][v] = "Confirmed" <=> intent[r][v] = "Confirmed"
    PROVE  /\ RequestsTypeOK' /\ TermsTypeOK' /\ VersionsBounded' /\ DealIffConsent'
           /\ ActivationInvariant' /\ ConfirmedMeansActive'
  <1>1. RequestsTypeOK' /\ TermsTypeOK'
    BY TermsStutterType DEF FundingInv, TypeOK
  <1>2. VersionsBounded' /\ DealIffConsent'
    BY DEF FundingInv, VersionsBounded, DealIffConsent, requestVars, termsVars, CurrentVersion
  <1>3. ActivationInvariant'
    BY DEF FundingInv, ActivationInvariant, BothApproved, ApprovedBy, Buyer, Seller,
           CurrentVersion, Versions, requestVars, termsVars
  <1>4. ConfirmedMeansActive'
    BY DEF FundingInv, ConfirmedMeansActive, CurrentVersion, Versions, requestVars, termsVars
  <1> QED BY <1>1, <1>2, <1>3, <1>4

(* Only the call that moves has anything to show for its new step.          *)
LEMMA CallKeepsCalls ==
    ASSUME FundingInv, NEW c \in Calls, UNCHANGED termsVars, consented \subseteq consented',
           held \subseteq held', Backed(c)',
           \A d \in Calls \ {c} :
              pc'[d] = pc[d] /\ version'[d] = version[d] /\ amount'[d] = amount[d]
    PROVE  CallsActOnApprovedTerms'
  <1>1. \A d \in Calls \ {c} : Backed(d)'
    BY BackedCalls DEF FundingInv, Backed, BothApproved, ApprovedBy, Buyer, Seller, HoldOf,
                       Authorised, CurrentVersion, termsVars
  <1> QED BY <1>1 DEF CallsActOnApprovedTerms, Backed

LEMMA CallKeepsHolds ==
    ASSUME FundingInv, UNCHANGED termsVars, consented \subseteq consented',
           \A h \in held' \ held : h.deal \in consented /\ BothApproved(h.deal, h.version)
    PROVE  HeldFundsWereApproved'
  BY DEF FundingInv, HeldFundsWereApproved, BothApproved, ApprovedBy, Buyer, Seller, termsVars

(* A step that only moves the call on, or answers it, to a step for which   *)
(* it already has what it needs.                                            *)
LEMMA MoveKeepsInv ==
    ASSUME FundingInv, NEW c \in Calls, NEW s \in Steps \ {"activate"},
           UNCHANGED <<requestVars, termsVars, intent, newest, held, version, amount>>,
           pc' = [pc EXCEPT ![c] = s], answer' \in [Calls -> Answers],
           s \in Authorised =>
              /\ version[c] \in 1..CurrentVersion(CallDeal[c])
              /\ CallDeal[c] \in consented /\ BothApproved(CallDeal[c], version[c]),
           s # "preauth"
    PROVE  FundingInv'
  <1>1. FundingTypeOK'
    BY DEF FundingInv, TypeOK, FundingTypeOK
  <1>2. HeldFundsWereApproved'
    BY CallKeepsHolds DEF requestVars
  <1>3. pc'[c] = s /\ \A d \in Calls \ {c} : pc'[d] = pc[d]
    BY DEF FundingInv, TypeOK, FundingTypeOK
  <1>4. Backed(c)'
    BY <1>3 DEF Backed, BothApproved, ApprovedBy, Buyer, Seller, CurrentVersion, Authorised,
                requestVars, termsVars
  <1>5. CallsActOnApprovedTerms'
    BY <1>3, <1>4, CallKeepsCalls DEF requestVars
  <1> QED BY <1>1, <1>2, <1>5, CallKeepsDeals DEF FundingInv, TypeOK

LEMMA VerdictIsAnswer ==
    ASSUME NEW c \in Calls, NEW v
    PROVE  /\ Verdict(c, v) \in Answers /\ CachedVerdict(c) \in Answers
           /\ Verdict(c, v) = "FUNDED" <=> MayFund(c) /\ BothApproved(CallDeal[c], v)
           /\ CachedVerdict(c) = "FUNDED" => dealStatus[CallDeal[c]] = "Active"
  BY DEF Verdict, CachedVerdict, Answers

LEMMA ReadDealKeepsInv ==
    ASSUME FundingInv, NEW c \in Calls, ReadDeal(c)
    PROVE  FundingInv'
  <1>1. CallDeal[c] \in Requests /\ CurrentVersion(CallDeal[c]) \in Nat
        /\ CurrentVersion(CallDeal[c]) <= MaxVersions
    BY FundingAssumption DEF FundingInv, TypeOK, TermsTypeOK, VersionsBounded, CurrentVersion
  <1>2. FundingTypeOK'
    BY <1>1, TermsAssumption
       DEF ReadDeal, Answer, Goto, FundingInv, TypeOK, FundingTypeOK, Steps, Answers
  <1>3. \A d \in Calls \ {c} :
           pc'[d] = pc[d] /\ version'[d] = version[d] /\ amount'[d] = amount[d]
    BY DEF ReadDeal, Answer, Goto, FundingInv, TypeOK, FundingTypeOK
  <1>4. Backed(c)'
    <2>1. CASE pc'[c] = "done"
      BY <2>1 DEF Backed, Authorised
    <2>2. CASE pc'[c] = "preauth" /\ version'[c] = CurrentVersion(CallDeal[c])
               /\ CurrentVersion(CallDeal[c]) # 0
      <3>1. CurrentVersion(CallDeal[c])' = CurrentVersion(CallDeal[c])
        BY DEF ReadDeal, CurrentVersion, termsVars
      <3> QED BY <1>1, <2>2, <3>1 DEF Backed, Authorised
    <2> QED BY <2>1, <2>2 DEF ReadDeal, Answer, Goto, FundingInv, TypeOK, FundingTypeOK
  <1>5. UNCHANGED <<requestVars, termsVars, intent, held>>
    BY DEF ReadDeal
  <1> QED BY <1>2, <1>3, <1>4, <1>5, CallKeepsDeals, CallKeepsCalls, CallKeepsHolds
          DEF FundingInv, TypeOK, requestVars

LEMMA FindOrCreateIntentKeepsInv ==
    ASSUME FundingInv, NEW c \in Calls, FindOrCreateIntent(c)
    PROVE  FundingInv'
  <1> DEFINE r == CallDeal[c]  v == version[c]
  <1>1. r \in Requests /\ v \in 1..CurrentVersion(r) /\ r \in consented /\ BothApproved(r, v)
    BY FundingAssumption
       DEF FindOrCreateIntent, FundingInv, CallsActOnApprovedTerms, Authorised
  <1>2. v \in Versions /\ Price(c) \in Prices
    BY <1>1, VersionOfDeal DEF FundingInv, Price
  <1>3. UNCHANGED <<requestVars, termsVars, held, version>>
    BY DEF FindOrCreateIntent
  <1>4. FundingTypeOK'
    <2>1. intent' \in [Requests -> [Versions -> IntentStates]]
      <3>1. FundingTypeOK /\ "Created" \in IntentStates
        BY DEF FundingInv, TypeOK, IntentStates
      <3>2. CASE SetIntent(r, v, "Created")
        <4> HIDE DEF r, v
        <4> QED BY <1>1, <1>2, <3>1, <3>2, IntentUpdate
      <3>3. CASE UNCHANGED intent
        BY <3>1, <3>3 DEF FundingTypeOK
      <3> QED BY <3>2, <3>3 DEF FindOrCreateIntent
    <2>2. newest' \in [Requests -> 0..MaxVersions]
      BY <1>1, <1>2, TermsAssumption
         DEF FindOrCreateIntent, FundingInv, TypeOK, FundingTypeOK, Versions
    <2>3. pc' \in [Calls -> Steps] /\ amount' \in [Calls -> Prices \cup {NoAmount}]
      BY <1>2 DEF FindOrCreateIntent, Goto, FundingInv, TypeOK, FundingTypeOK, Steps
    <2> QED BY <2>1, <2>2, <2>3
            DEF FindOrCreateIntent, FundingInv, TypeOK, FundingTypeOK
  <1>5. \A q \in Requests, n \in Versions :
           intent'[q][n] = "Confirmed" <=> intent[q][n] = "Confirmed"
    <2>1. CASE IntentOf(c) = "None" /\ SetIntent(r, v, "Created")
      <3>1. FundingTypeOK /\ "Created" \in IntentStates
        BY DEF FundingInv, TypeOK, IntentStates
      <3>2. intent'[r][v] = "Created" /\ intent[r][v] = "None"
               /\ \A q \in Requests, n \in Versions :
                     (q # r \/ n # v) => intent'[q][n] = intent[q][n]
        <4>1. SetIntent(r, v, "Created") /\ intent[r][v] = "None"
          BY <2>1 DEF IntentOf
        <4> HIDE DEF r, v
        <4> QED BY <1>1, <1>2, <3>1, <4>1, IntentUpdate
      <3> QED BY <3>2
    <2> QED BY <2>1 DEF FindOrCreateIntent
  <1>6. \A d \in Calls \ {c} :
           pc'[d] = pc[d] /\ version'[d] = version[d] /\ amount'[d] = amount[d]
    BY DEF FindOrCreateIntent, Goto, FundingInv, TypeOK, FundingTypeOK
  <1>7. Backed(c)'
    <2>1. v \in 1..CurrentVersion(r)' /\ r \in consented' /\ BothApproved(r, v)'
      BY <1>1, <1>3 DEF BothApproved, ApprovedBy, Buyer, Seller, CurrentVersion,
                        requestVars, termsVars
    <2>2. CASE pc'[c] = "provider"
      BY <1>3, <2>1, <2>2 DEF Backed, CurrentVersion, BothApproved, ApprovedBy
    <2>3. CASE IntentOf(c) = "Confirmed" /\ amount'[c] = Price(c)
      <3>1. dealStatus[r] = "Active" /\ v = CurrentVersion(r)
        BY <1>1, <1>2, <2>3 DEF FundingInv, ConfirmedMeansActive, IntentOf
      <3>2. HoldOf(c, Price(c)) \in held
        BY <1>1, <3>1 DEF FundingInv, ActivationInvariant, HoldOf, Price
      <3> QED BY <1>3, <2>1, <2>3, <3>2
              DEF Backed, HoldOf, CurrentVersion, BothApproved, ApprovedBy
    <2> QED BY <2>2, <2>3 DEF FindOrCreateIntent, Goto, FundingInv, TypeOK, FundingTypeOK
  <1> QED BY <1>3, <1>4, <1>5, <1>6, <1>7, CallKeepsDeals, CallKeepsCalls, CallKeepsHolds
          DEF FundingInv, TypeOK, requestVars

(* The provider's answer adds at most the funds it was asked to hold, for a *)
(* version that was approved when the call read it.                         *)
LEMMA ProviderAnswersKeepsInv ==
    ASSUME FundingInv, NEW c \in Calls, ProviderAnswers(c)
    PROVE  FundingInv'
  <1> DEFINE r == CallDeal[c]  v == version[c]
  <1>1. PICK a \in Prices :
           /\ \/ pc' = [pc EXCEPT ![c] = "activate"] /\ held' = held \cup {HoldOf(c, a)}
                 /\ amount' = [amount EXCEPT ![c] = a] /\ answer' = answer
              \/ pc' = [pc EXCEPT ![c] = "failure"] /\ held' \in {held, held \cup {HoldOf(c, a)}}
                 /\ amount' = amount
                 /\ answer' = [answer EXCEPT ![c] = "ESCROW_UNAVAILABLE"]
           /\ pc[c] = "provider"
           /\ UNCHANGED <<requestVars, termsVars, intent, newest, version>>
    <2>1. CASE ProviderFails(c)
      <3>1. Price(c) \in Prices
        BY <2>1, FundingAssumption, VersionOfDeal
           DEF ProviderFails, FundingInv, CallsActOnApprovedTerms, Authorised, Price
      <3> QED BY <2>1, <3>1 DEF ProviderFails, Pending, Goto
    <2>2. CASE \E a \in Prices : ProviderConfirms(c, a)
      BY <2>2 DEF ProviderConfirms, Goto
    <2> QED BY <2>1, <2>2 DEF ProviderAnswers
  <1>2. r \in Requests /\ v \in 1..CurrentVersion(r) /\ r \in consented /\ BothApproved(r, v)
    BY <1>1, FundingAssumption DEF FundingInv, CallsActOnApprovedTerms, Authorised
  <1>3. HoldOf(c, a) \in Hold
    BY <1>2, VersionOfDeal DEF FundingInv, HoldOf, Hold
  <1>4. FundingTypeOK'
    BY <1>1, <1>3 DEF FundingInv, TypeOK, FundingTypeOK, Steps, Answers
  <1>5. held \subseteq held'
        /\ \A h \in held' \ held : h.deal \in consented /\ BothApproved(h.deal, h.version)
    BY <1>1, <1>2 DEF HoldOf
  <1>6. \A d \in Calls \ {c} :
           pc'[d] = pc[d] /\ version'[d] = version[d] /\ amount'[d] = amount[d]
    BY <1>1 DEF FundingInv, TypeOK, FundingTypeOK
  <1>7. Backed(c)'
    <2>1. v \in 1..CurrentVersion(r)' /\ r \in consented' /\ BothApproved(r, v)'
             /\ version'[c] = v
      BY <1>1, <1>2 DEF BothApproved, ApprovedBy, Buyer, Seller, CurrentVersion,
                        requestVars, termsVars
    <2>2. pc'[c] = "activate" => HoldOf(c, amount[c])' \in held'
      BY <1>1 DEF HoldOf, FundingInv, TypeOK, FundingTypeOK
    <2>3. CurrentVersion(CallDeal[c])' = CurrentVersion(CallDeal[c])
             /\ BothApproved(CallDeal[c], version[c])'
      BY <1>1, <1>2, <2>1
         DEF BothApproved, ApprovedBy, Buyer, Seller, CurrentVersion, termsVars
    <2> QED BY <1>2, <2>1, <2>2, <2>3 DEF Backed
  <1> QED BY <1>1, <1>4, <1>5, <1>6, <1>7, CallKeepsDeals, CallKeepsCalls, CallKeepsHolds
          DEF FundingInv, TypeOK, requestVars

LEMMA RecordFailureKeepsInv ==
    ASSUME FundingInv, NEW c \in Calls, RecordFailure(c)
    PROVE  FundingInv'
  <1> DEFINE r == CallDeal[c]  v == version[c]
  <1>1. CASE LostRace(c) /\ Goto(c, "converge") /\ UNCHANGED intent
    BY <1>1, MoveKeepsInv
       DEF RecordFailure, Goto, FundingInv, TypeOK, FundingTypeOK, Steps, Authorised
  <1>2. CASE NotConfirmed(c) /\ SetIntent(r, v, "Failed") /\ Goto(c, "done")
    <2>1. r \in Requests /\ v \in Versions
      BY FundingAssumption, VersionOfDeal
         DEF RecordFailure, FundingInv, CallsActOnApprovedTerms, Authorised
    <2>2. /\ intent' \in [Requests -> [Versions -> IntentStates]]
          /\ \A q \in Requests, n \in Versions :
                intent'[q][n] = "Confirmed" <=> intent[q][n] = "Confirmed"
      <3>1. /\ intent' \in [Requests -> [Versions -> IntentStates]]
            /\ intent'[r][v] = "Failed"
            /\ \A q \in Requests, n \in Versions :
                  (q # r \/ n # v) => intent'[q][n] = intent[q][n]
        <4>1. FundingTypeOK /\ "Failed" \in IntentStates
          BY DEF FundingInv, TypeOK, IntentStates
        <4> HIDE DEF r, v
        <4> QED BY <1>2, <2>1, <4>1, IntentUpdate
      <3> QED BY <1>2, <3>1 DEF NotConfirmed, IntentOf
    <2>3. UNCHANGED <<requestVars, termsVars, newest, held, version, amount, answer>>
      BY DEF RecordFailure
    <2>4. pc' \in [Calls -> Steps] /\ pc'[c] = "done" /\ \A d \in Calls \ {c} : pc'[d] = pc[d]
      BY <1>2 DEF Goto, FundingInv, TypeOK, FundingTypeOK, Steps
    <2>5. FundingTypeOK'
      BY <2>2, <2>3, <2>4 DEF FundingInv, TypeOK, FundingTypeOK
    <2>6. Backed(c)'
      BY <2>4 DEF Backed, Authorised
    <2> QED BY <2>2, <2>3, <2>4, <2>5, <2>6, CallKeepsDeals, CallKeepsCalls, CallKeepsHolds
            DEF FundingInv, TypeOK, requestVars
  <1> QED BY <1>1, <1>2 DEF RecordFailure

(* The one step that confirms an intent also activates the deal, with every *)
(* part of the activation invariant at hand in the same transaction but the *)
(* funds, which the call brings from the provider.                          *)
LEMMA ActivateKeepsInv ==
    ASSUME FundingInv, NEW c \in Calls, Activate(c)
    PROVE  FundingInv'
  <1> DEFINE r == CallDeal[c]  v == version[c]
  <1>1. /\ r \in Requests /\ v \in 1..CurrentVersion(r) /\ v = CurrentVersion(r)
        /\ HoldOf(c, amount[c]) \in held
    BY FundingAssumption
       DEF Activate, IsCurrent, FundingInv, CallsActOnApprovedTerms, Authorised
  <1>2. v \in Versions
    BY <1>1, VersionOfDeal DEF FundingInv
  <1>3. /\ requestStatus[r] = "Accepted" /\ r \in consented /\ BothApproved(r, v)
        /\ amount[c] = terms[r][v] /\ dealStatus[r] = "Negotiating"
    BY VerdictIsAnswer DEF Activate, MayFund, ConfirmationMatches, Price
  <1>4. /\ UNCHANGED <<authority, requestStatus, decidedBy, consented, termsVars, newest,
                       held, version, amount>>
        /\ dealStatus' = [dealStatus EXCEPT ![r] = "Active"]
        /\ SetIntent(r, v, "Confirmed")
        /\ pc' = [pc EXCEPT ![c] = "done"] /\ answer' = [answer EXCEPT ![c] = "FUNDED"]
    BY DEF Activate, MarkActive, Answer, Goto
  <1>5. /\ intent' \in [Requests -> [Versions -> IntentStates]]
        /\ intent'[r][v] = "Confirmed"
        /\ \A q \in Requests, n \in Versions :
              (q # r \/ n # v) => intent'[q][n] = intent[q][n]
    <2>1. FundingTypeOK /\ "Confirmed" \in IntentStates
      BY DEF FundingInv, TypeOK, IntentStates
    <2>2. SetIntent(r, v, "Confirmed") /\ r \in Requests /\ v \in Versions
      BY <1>1, <1>2, <1>4
    <2> HIDE DEF r, v
    <2> QED BY <2>1, <2>2, IntentUpdate
  <1>6. dealStatus' \in [Requests -> {"None", "Negotiating", "Active"}]
        /\ dealStatus'[r] = "Active"
        /\ \A q \in Requests : q # r => dealStatus'[q] = dealStatus[q]
    BY <1>1, <1>4 DEF FundingInv, TypeOK, RequestsTypeOK
  <1>7. TypeOK'
    <2>1. RequestsTypeOK' /\ TermsTypeOK'
      BY <1>4, <1>6 DEF FundingInv, TypeOK, RequestsTypeOK, TermsTypeOK, termsVars
    <2>2. FundingTypeOK'
      BY <1>4, <1>5 DEF FundingInv, TypeOK, FundingTypeOK, Steps, Answers
    <2> QED BY <2>1, <2>2 DEF TypeOK
  <1>8. VersionsBounded' /\ DealIffConsent'
    BY <1>1, <1>3, <1>4, <1>6
       DEF FundingInv, VersionsBounded, DealIffConsent, CurrentVersion, termsVars
  <1>9. \A q \in Requests : CurrentVersion(q)' = CurrentVersion(q)
           /\ \A n : BothApproved(q, n)' = BothApproved(q, n)
    BY <1>4 DEF CurrentVersion, BothApproved, ApprovedBy, Buyer, Seller, termsVars
  <1>10. ActivationInvariant'
    <2> SUFFICES ASSUME NEW q \in Requests, dealStatus'[q] = "Active"
                 PROVE  LET n == CurrentVersion(q)' IN
                        /\ n \in Versions
                        /\ requestStatus'[q] = "Accepted" /\ q \in consented'
                        /\ BothApproved(q, CurrentVersion(q))'
                        /\ intent'[q][n] = "Confirmed"
                        /\ [deal |-> q, version |-> n, amount |-> terms'[q][n]] \in held'
      BY DEF ActivationInvariant, Versions
    <2>1. BothApproved(q, CurrentVersion(q))' = BothApproved(q, CurrentVersion(q))
      BY <1>9 DEF BothApproved, ApprovedBy
    <2>2. CASE q = r
      BY <1>1, <1>2, <1>3, <1>4, <1>5, <1>9, <2>1, <2>2 DEF HoldOf, termsVars
    <2>3. CASE q # r
      BY <1>4, <1>5, <1>6, <1>9, <2>1, <2>3 DEF FundingInv, ActivationInvariant, termsVars
    <2> QED BY <2>2, <2>3
  <1>11. ConfirmedMeansActive'
    <2> SUFFICES ASSUME NEW q \in Requests, NEW n \in Versions, intent'[q][n] = "Confirmed"
                 PROVE  dealStatus'[q] = "Active" /\ n = CurrentVersion(q)'
      BY DEF ConfirmedMeansActive, Versions
    <2>1. CASE q = r /\ n = v
      BY <1>1, <1>6, <1>9, <2>1
    <2>2. CASE q # r \/ n # v
      BY <1>3, <1>5, <1>6, <1>9, <2>2 DEF FundingInv, ConfirmedMeansActive
    <2> QED BY <2>1, <2>2
  <1>12. HeldFundsWereApproved'
    BY <1>4, CallKeepsHolds
  <1>13. CallsActOnApprovedTerms'
    <2>1. pc'[c] = "done" /\ \A d \in Calls \ {c} : pc'[d] = pc[d]
      BY <1>4 DEF FundingInv, TypeOK, FundingTypeOK
    <2>2. Backed(c)'
      BY <2>1 DEF Backed, Authorised
    <2> QED BY <1>4, <2>1, <2>2, CallKeepsCalls
  <1> QED BY <1>7, <1>8, <1>10, <1>11, <1>12, <1>13 DEF FundingInv

(* The remaining steps only move the call on or answer it.                  *)
LEMMA CallKeepsInv ==
    ASSUME FundingInv, NEW c \in Calls, CallStep(c)
    PROVE  FundingInv'
  <1>1. Verdict(c, version[c]) \in Answers /\ CachedVerdict(c) \in Answers
    BY VerdictIsAnswer
  <1>2. answer \in [Calls -> Answers]
    BY DEF FundingInv, TypeOK, FundingTypeOK
  <1>3. ASSUME NEW s \in {"early", "deal", "done", "converge", "lost"}, Goto(c, s),
               answer' \in [Calls -> Answers],
               UNCHANGED <<requestVars, termsVars, intent, newest, held, version, amount>>
        PROVE  FundingInv'
    BY <1>3, MoveKeepsInv DEF Goto, Steps, Authorised
  <1>4. CASE Begin(c)
    BY <1>2, <1>3, <1>4 DEF Begin
  <1>5. CASE EarlySuccess(c)
    <2>1. answer' \in [Calls -> Answers]
      BY <1>1, <1>2, <1>5 DEF EarlySuccess, Answer
    <2> QED BY <1>3, <1>5, <2>1 DEF EarlySuccess, Answer
  <1>6. CASE Preauthorize(c)
    <2>1. answer' \in [Calls -> Answers]
      BY <1>1, <1>2, <1>6 DEF Preauthorize, Answer
    <2>2. CASE Verdict(c, version[c]) = "FUNDED"
      <3>1. version[c] \in 1..CurrentVersion(CallDeal[c])
               /\ CallDeal[c] \in consented /\ BothApproved(CallDeal[c], version[c])
        BY <1>6, <2>2, VerdictIsAnswer
           DEF Preauthorize, MayFund, FundingInv, CallsActOnApprovedTerms
      <3> QED BY <1>6, <2>1, <2>2, <3>1, MoveKeepsInv
              DEF Preauthorize, Goto, Steps
    <2>3. CASE Verdict(c, version[c]) # "FUNDED"
      BY <1>3, <1>6, <2>1, <2>3 DEF Preauthorize, Answer
    <2> QED BY <2>2, <2>3
  <1>7. CASE IntentRetriesExhausted(c) \/ ActivationRetriesExhausted(c) \/ Lose(c)
    BY <1>2, <1>3, <1>7 DEF IntentRetriesExhausted, ActivationRetriesExhausted, Lose,
                            ExhaustedIntentAnswer, Answer, Answers
  <1>8. CASE Converge(c)
    <2>1. answer' \in [Calls -> Answers]
      BY <1>1, <1>2, <1>8 DEF Converge, Answer
    <2> QED BY <1>3, <1>8, <2>1 DEF Converge, Answer
  <1>9. CASE ActivationRejected(c)
    <2>1. answer' \in [Calls -> Answers]
      BY <1>1, <1>2, <1>9 DEF ActivationRejected, Answer, Pending, Answers
    <2>2. CASE Goto(c, "done") \/ Goto(c, "converge")
      BY <1>3, <1>9, <2>1, <2>2 DEF ActivationRejected
    <2>3. CASE Goto(c, "failure")
      <3>1. version[c] \in 1..CurrentVersion(CallDeal[c])
               /\ CallDeal[c] \in consented /\ BothApproved(CallDeal[c], version[c])
        BY <1>9 DEF ActivationRejected, FundingInv, CallsActOnApprovedTerms, Authorised
      <3> QED BY <1>9, <2>1, <2>3, <3>1, MoveKeepsInv
              DEF ActivationRejected, Goto, Steps
    <2> QED BY <1>9, <2>2, <2>3 DEF ActivationRejected, Answer, Pending
  <1> QED
    BY <1>4, <1>5, <1>6, <1>7, <1>8, <1>9, ReadDealKeepsInv, FindOrCreateIntentKeepsInv,
       ProviderAnswersKeepsInv, RecordFailureKeepsInv, ActivateKeepsInv
       DEF CallStep, Proceed
-----------------------------------------------------------------------------
(* The inductive invariant holds in every behaviour of the deal services.   *)
THEOREM FundingInvariant == Spec => []FundingInv
  <1>1. FundingInv /\ FundingNext => FundingInv'
    BY OthersKeepInv, CallKeepsInv DEF FundingNext, CallStep
  <1>2. FundingInv /\ UNCHANGED vars => FundingInv'
    <2> SUFFICES ASSUME FundingInv, UNCHANGED vars PROVE FundingInv'
      OBVIOUS
    <2>1. UNCHANGED <<requestVars, termsVars, fundingVars>>
      BY DEF vars
    <2>2. RequestsTypeOK' /\ TermsTypeOK' /\ VersionsBounded' /\ DealIffConsent'
             /\ ActivationInvariant' /\ ConfirmedMeansActive'
      BY <2>1, CallKeepsDeals DEF fundingVars
    <2>3. FundingTypeOK'
      BY <2>1 DEF FundingInv, TypeOK, FundingTypeOK, fundingVars
    <2>4. HeldFundsWereApproved'
      BY <2>1, CallKeepsHolds DEF fundingVars, requestVars
    <2>5. CallsActOnApprovedTerms'
      BY <2>1 DEF FundingInv, CallsActOnApprovedTerms, BothApproved, ApprovedBy, Buyer, Seller,
                  HoldOf, Authorised, CurrentVersion, fundingVars, termsVars, requestVars
    <2> QED BY <2>2, <2>3, <2>4, <2>5 DEF FundingInv, TypeOK
  <1> QED BY FundingInitInv, <1>1, <1>2, PTL DEF Spec

(* Every variable of the funding module keeps its type (FundingTypeOK).     *)
THEOREM FundingTypeCorrect == Spec => []FundingTypeOK
  <1>1. FundingInv => FundingTypeOK
    BY DEF FundingInv, TypeOK
  <1> QED BY <1>1, FundingInvariant, PTL

(* An Active deal has consent, two approvals of its current terms, a        *)
(* Confirmed intent for them and their price in escrow                      *)
(* (ActivationInvariant), whatever raced, failed or was revoked.            *)
THEOREM ActivationIsJustified == Spec => []ActivationInvariant
  <1>1. FundingInv => ActivationInvariant
    BY DEF FundingInv
  <1> QED BY <1>1, FundingInvariant, PTL

(* No intent is Confirmed on a Negotiating deal or for replaced terms       *)
(* (ConfirmedMeansActive).                                                  *)
THEOREM ConfirmationActivates == Spec => []ConfirmedMeansActive
  <1>1. FundingInv => ConfirmedMeansActive
    BY DEF FundingInv
  <1> QED BY <1>1, FundingInvariant, PTL

(* The provider never holds funds for terms that had not been consented to  *)
(* and approved by both parties (HeldFundsWereApproved).                    *)
THEOREM HoldsAreApproved == Spec => []HeldFundsWereApproved
  <1>1. FundingInv => HeldFundsWereApproved
    BY DEF FundingInv
  <1> QED BY <1>1, FundingInvariant, PTL

(* A call past Phase 1 acts on approved terms, and holds no confirmation    *)
(* without funds behind it (CallsActOnApprovedTerms).                       *)
THEOREM CallsAreBacked == Spec => []CallsActOnApprovedTerms
  <1>1. FundingInv => CallsActOnApprovedTerms
    BY DEF FundingInv
  <1> QED BY <1>1, FundingInvariant, PTL
-----------------------------------------------------------------------------
(* The only step of fundDeal that changes a row another service reads is    *)
(* the activation, and it changes the deal's status alone.                  *)
LEMMA CallFrame ==
    ASSUME NEW c \in Calls, CallStep(c)
    PROVE  /\ UNCHANGED <<authority, requestStatus, decidedBy, consented>>
           /\ UNCHANGED termsVars
           /\ UNCHANGED dealStatus \/ Activate(c)
  <1>1. CASE Begin(c) \/ Lose(c) \/ ProviderAnswers(c)
    BY <1>1 DEF Begin, Lose, ProviderAnswers, ProviderConfirms, ProviderFails, requestVars
  <1>2. CASE EarlySuccess(c) \/ ReadDeal(c) \/ Preauthorize(c)
    BY <1>2 DEF EarlySuccess, ReadDeal, Preauthorize, requestVars
  <1>3. CASE FindOrCreateIntent(c) \/ IntentRetriesExhausted(c) \/ RecordFailure(c)
    BY <1>3 DEF FindOrCreateIntent, IntentRetriesExhausted, RecordFailure, requestVars
  <1>4. CASE ActivationRejected(c) \/ ActivationRetriesExhausted(c) \/ Converge(c)
    BY <1>4 DEF ActivationRejected, ActivationRetriesExhausted, Converge, requestVars
  <1>5. CASE Activate(c)
    BY <1>5 DEF Activate
  <1> QED BY <1>1, <1>2, <1>3, <1>4, <1>5 DEF CallStep, Proceed

(* No step takes an Active deal back; a call that was told FUNDED keeps     *)
(* that answer, so truth when it is given is truth for good.                *)
LEMMA ActiveStaysActive ==
    ASSUME FundingInv, FundingNext, NEW r \in Requests, dealStatus[r] = "Active"
    PROVE  dealStatus'[r] = "Active"
  <1>1. CASE TermsNext
    BY <1>1, OthersKeepEvidence DEF FundingInv
  <1>2. CASE \E c \in Calls : CallStep(c)
    BY <1>2, CallFrame DEF Activate, MarkActive, FundingInv, TypeOK, RequestsTypeOK
  <1> QED BY <1>1, <1>2 DEF FundingNext, CallStep

FundedInv == \A c \in Calls : answer[c] = "FUNDED" => dealStatus[CallDeal[c]] = "Active"

LEMMA FundedStep ==
    ASSUME FundingInv, FundedInv, FundingNext
    PROVE  FundedInv'
  <1>1. \A c \in Calls : CallDeal[c] \in Requests
    BY FundingAssumption
  <1>2. ASSUME NEW c \in Calls, answer'[c] = answer[c]
        PROVE  answer'[c] = "FUNDED" => dealStatus'[CallDeal[c]] = "Active"
    BY <1>1, <1>2, ActiveStaysActive DEF FundedInv
  <1>3. CASE UNCHANGED answer
    BY <1>2, <1>3 DEF FundedInv
  <1>4. ASSUME NEW c \in Calls, Proceed(c) \/ ProviderFails(c)
        PROVE  FundedInv'
    <2>1. answer \in [Calls -> Answers]
      BY DEF FundingInv, TypeOK, FundingTypeOK
    <2>2. Verdict(c, version[c]) \in Answers /\ CachedVerdict(c) \in Answers
      BY VerdictIsAnswer
    <2>3. \A d \in Calls \ {c} : answer'[d] = answer[d]
      BY <1>4, <2>1 DEF Proceed, EarlySuccess, ReadDeal, Preauthorize, FindOrCreateIntent,
                 IntentRetriesExhausted, RecordFailure, Converge, Activate,
                 ActivationRejected, ActivationRetriesExhausted, ProviderFails, Answer, Pending
    <2>4. CASE Activate(c)
      <3>1. dealStatus'[CallDeal[c]] = "Active"
        BY <1>1, <2>4 DEF Activate, MarkActive, FundingInv, TypeOK, RequestsTypeOK
      <3> QED BY <1>2, <2>3, <3>1 DEF FundedInv
    <2>5. CASE EarlySuccess(c) \/ Converge(c)
      <3>1. UNCHANGED dealStatus
        BY <2>5 DEF EarlySuccess, Converge, requestVars
      <3>2. CASE answer' = [answer EXCEPT ![c] = CachedVerdict(c)]
        <4>1. answer'[c] = "FUNDED" => dealStatus'[CallDeal[c]] = "Active"
          BY <2>1, <3>1, <3>2, VerdictIsAnswer
        <4> QED BY <1>2, <2>3, <4>1 DEF FundedInv
      <3> QED BY <1>3, <2>5, <3>2 DEF EarlySuccess, Converge, Answer
    <2>6. CASE ~Activate(c) /\ ~EarlySuccess(c) /\ ~Converge(c)
      <3>1. answer'[c] = answer[c] \/ answer'[c] # "FUNDED"
        BY <1>4, <2>1, <2>2, <2>6
           DEF Proceed, ReadDeal, Preauthorize, FindOrCreateIntent, IntentRetriesExhausted,
               ExhaustedIntentAnswer, RecordFailure, ActivationRejected,
               ActivationRetriesExhausted, ProviderFails, Answer, Pending
      <3> QED BY <1>2, <2>3, <3>1 DEF FundedInv
    <2> QED BY <2>4, <2>5, <2>6
  <1> QED
    BY <1>3, <1>4 DEF FundingNext, Begin, Lose, ProviderAnswers, ProviderConfirms, fundingVars

(* Whoever is told that a deal is funded is told the truth                  *)
(* (FundedAnswerIsTrue), directly or through the success of another call.   *)
THEOREM FundedIsTrue == Spec => []FundedAnswerIsTrue
  <1>1. FundingInit => FundedInv
    BY DEF FundingInit, FundedInv
  <1>2. FundedInv /\ UNCHANGED vars => FundedInv'
    BY DEF FundedInv, vars, fundingVars, requestVars
  <1>3. FundedInv => FundedAnswerIsTrue
    BY DEF FundedInv, FundedAnswerIsTrue
  <1> QED BY <1>1, <1>2, <1>3, FundingInvariant, FundedStep, PTL DEF Spec
-----------------------------------------------------------------------------
(* A step on an Active deal: its terms, its approvals and its intent stay.  *)
LEMMA SettledStep ==
    ASSUME FundingInv, FundingNext, NEW r \in Requests, dealStatus[r] = "Active"
    PROVE  /\ terms'[r] = terms[r]
           /\ \A w \in Workspaces :
                 ApprovedBy(r, CurrentVersion(r), w)' = ApprovedBy(r, CurrentVersion(r), w)
           /\ intent'[r][CurrentVersion(r)] = "Confirmed"
  <1>1. FundingInv' /\ dealStatus'[r] = "Active"
    BY OthersKeepInv, CallKeepsInv, ActiveStaysActive DEF FundingNext, CallStep
  <1>2. terms'[r] = terms[r]
    <2>1. CASE TermsNext
      BY <2>1, OthersKeepEvidence DEF FundingInv
    <2>2. CASE UNCHANGED termsVars
      BY <2>2 DEF termsVars
    <2> QED BY <2>1, <2>2, CallFrame DEF FundingNext, CallStep
  <1>3. CurrentVersion(r)' = CurrentVersion(r)
    BY <1>2 DEF CurrentVersion
  <1>4. intent'[r][CurrentVersion(r)] = "Confirmed"
    BY <1>1, <1>3 DEF FundingInv, ActivationInvariant
  <1>5. ASSUME NEW w \in Workspaces
        PROVE  ApprovedBy(r, CurrentVersion(r), w)' = ApprovedBy(r, CurrentVersion(r), w)
    <2>1. CASE UNCHANGED approvals
      BY <1>3, <2>1 DEF ApprovedBy
    <2>2. ASSUME NEW u \in Users, NEW x \in Workspaces, NEW s \in Requests,
                 NEW n \in 1..MaxVersions, ApproveTerms(u, x, s, n)
          PROVE  ApprovedBy(r, CurrentVersion(r), w)' = ApprovedBy(r, CurrentVersion(r), w)
      <3>1. s # r
        BY <2>2 DEF ApproveTerms, ApprovalAuthority
      <3> QED BY <1>3, <2>2, <3>1 DEF ApproveTerms, ApprovedBy
    <2>3. CASE TermsNext
      BY <2>1, <2>2, <2>3 DEF TermsNext, BeginDraft, PersistDraft, DraftFails, termsVars
    <2>4. CASE UNCHANGED termsVars
      BY <2>1, <2>4 DEF termsVars
    <2> QED BY <2>3, <2>4, CallFrame DEF FundingNext, CallStep
  <1> QED BY <1>2, <1>4, <1>5

(* Activation ends the negotiation (SettledOnceActive): whatever was under  *)
(* way, the terms, approvals and Confirmed intent of an Active deal stay.   *)
THEOREM ActivationSettles == Spec => SettledOnceActive
  <1> DEFINE Settled(r) ==
        dealStatus[r] = "Active" =>
          /\ dealStatus'[r] = "Active" /\ terms'[r] = terms[r]
          /\ \A w \in Workspaces :
                ApprovedBy(r, CurrentVersion(r), w)' = ApprovedBy(r, CurrentVersion(r), w)
          /\ intent'[r][CurrentVersion(r)] = "Confirmed"
  <1>1. FundingInv /\ [FundingNext]_vars => [\A r \in Requests : Settled(r)]_vars
    BY SettledStep, ActiveStaysActive
  <1> QED BY <1>1, FundingInvariant, PTL DEF Spec, SettledOnceActive
-----------------------------------------------------------------------------
(* What the composition leaves of the promises the earlier modules make: a  *)
(* call's steps touch neither requests nor approvals nor terms, and of a    *)
(* deal only the status of one that is already open.                        *)
LEMMA StepOfServices ==
    ASSUME FundingInv, FundingNext
    PROVE  \/ TermsNext /\ UNCHANGED fundingVars
           \/ /\ UNCHANGED <<authority, requestStatus, decidedBy, consented, termsVars>>
              /\ \A r \in Requests : dealStatus[r] = "None" => dealStatus'[r] = "None"
  <1>1. CASE TermsNext /\ UNCHANGED fundingVars
    BY <1>1
  <1>2. ASSUME NEW c \in Calls, CallStep(c)
        PROVE  /\ UNCHANGED <<authority, requestStatus, decidedBy, consented, termsVars>>
               /\ \A r \in Requests : dealStatus[r] = "None" => dealStatus'[r] = "None"
    <2>1. CASE UNCHANGED dealStatus
      BY <1>2, <2>1, CallFrame
    <2>2. CASE Activate(c)
      BY <2>2, FundingAssumption
         DEF Activate, MarkActive, FundingInv, TypeOK, RequestsTypeOK
    <2> QED BY <1>2, <2>1, <2>2, CallFrame
  <1> QED BY <1>1, <1>2 DEF FundingNext, CallStep

LEMMA TermsStepOnePending ==
    ASSUME RequestsTypeOK, OnePendingPerSelection, TermsNext
    PROVE  OnePendingPerSelection'
  <1>1. CASE UNCHANGED requestVars
    BY <1>1 DEF requestVars, OnePendingPerSelection, SameSelection
  <1>2. CASE RequestsNext
    BY <1>2, RequestsStepOnePending
  <1> QED
    BY <1>1, <1>2 DEF TermsNext, BeginDraft, PersistDraft, DraftFails, ApproveTerms

(* The invariants of the request and terms modules, which those modules     *)
(* prove of themselves alone, hold when funding runs beside them.           *)
EarlierInvariants == DealIffConsent /\ OnePendingPerSelection /\ ApprovalsAreEvidence

THEOREM FundingKeepsEarlierInvariants == Spec => []EarlierInvariants
  <1>1. FundingInit => OnePendingPerSelection /\ ApprovalsAreEvidence
    BY DEF FundingInit, TermsInit, RequestsInit, OnePendingPerSelection, ApprovalsAreEvidence
  <1>2. ASSUME UNCHANGED <<requestStatus, termsVars>>,
               OnePendingPerSelection /\ ApprovalsAreEvidence
        PROVE  OnePendingPerSelection' /\ ApprovalsAreEvidence'
    BY <1>2 DEF OnePendingPerSelection, SameSelection, ApprovalsAreEvidence, CurrentVersion,
                Parties, termsVars
  <1>3. FundingInv /\ OnePendingPerSelection /\ ApprovalsAreEvidence /\ FundingNext
        => OnePendingPerSelection' /\ ApprovalsAreEvidence'
    BY <1>2, StepOfServices, TermsStepOnePending, TermsStepEvidence DEF FundingInv, TypeOK
  <1>4. OnePendingPerSelection /\ ApprovalsAreEvidence /\ UNCHANGED vars
        => OnePendingPerSelection' /\ ApprovalsAreEvidence'
    BY <1>2 DEF vars, requestVars
  <1>5. FundingInv => DealIffConsent
    BY DEF FundingInv
  <1> QED
    BY <1>1, <1>3, <1>4, <1>5, FundingInvariant, PTL DEF Spec, EarlierInvariants

(* A terminal response stays final beside drafts, approvals and fundings    *)
(* (DecisionIsFinal).                                                       *)
THEOREM FundingKeepsDecisions == Spec => DecisionIsFinal
  <1>1. ASSUME FundingInv, FundingNext, NEW r \in Requests,
               requestStatus[r] \in {"Accepted", "Declined"}
        PROVE  /\ requestStatus'[r] = requestStatus[r]
               /\ decidedBy'[r] = decidedBy[r]
               /\ (r \in consented') = (r \in consented)
    <2>1. CASE RequestsNext
      BY <1>1, <2>1, DecisionStays DEF FundingInv, TypeOK
    <2>2. CASE UNCHANGED <<requestStatus, decidedBy, consented>>
      BY <2>2
    <2> QED
      BY <1>1, <2>1, <2>2, StepOfServices
         DEF TermsNext, BeginDraft, PersistDraft, DraftFails, ApproveTerms, requestVars
  <1>2. FundingInv /\ [FundingNext]_vars
        => [\A r \in Requests :
              requestStatus[r] \in {"Accepted", "Declined"} =>
                  /\ requestStatus'[r] = requestStatus[r]
                  /\ decidedBy'[r] = decidedBy[r]
                  /\ (r \in consented') = (r \in consented)]_requestVars
    BY <1>1 DEF vars, requestVars
  <1> QED BY <1>2, FundingInvariant, PTL DEF Spec, DecisionIsFinal

(* Funding opens no Deal: that stays the step of a member of the seller's   *)
(* Active workspace with the Seller capability (DealOpenedBySeller).        *)
THEOREM FundingKeepsOpenings == Spec => DealOpenedBySeller
  <1>1. ASSUME FundingInv, FundingNext, NEW r \in Requests,
               dealStatus[r] = "None", dealStatus'[r] # "None"
        PROVE  /\ requestStatus[r] = "Pending"
               /\ ActsFor(decidedBy'[r], Seller(r)) /\ Holds(Capability(Seller(r), "Seller"))
    <2>1. TermsNext
      BY <1>1, StepOfServices
    <2>2. RequestsNext
      BY <1>1, <2>1
         DEF TermsNext, BeginDraft, PersistDraft, DraftFails, ApproveTerms, requestVars
    <2> QED BY <1>1, <2>2, OpenedBySeller DEF FundingInv, TypeOK
  <1>2. FundingInv /\ [FundingNext]_vars
        => [\A r \in Requests :
              dealStatus[r] = "None" /\ dealStatus'[r] # "None" =>
                  /\ requestStatus[r] = "Pending"
                  /\ ActsFor(decidedBy'[r], Seller(r))
                  /\ Holds(Capability(Seller(r), "Seller"))]_requestVars
    BY <1>1 DEF vars, requestVars
  <1> QED BY <1>2, FundingInvariant, PTL DEF Spec, DealOpenedBySeller

(* Beside any number of fundings a replaced version gains no approval       *)
(* (SupersededApprovalsFrozen), and terms are appended with the drafter's   *)
(* authority only (TermsAppendedWithAuthority).                             *)
THEOREM FundingKeepsTerms == Spec => SupersededApprovalsFrozen /\ TermsAppendedWithAuthority
  <1> DEFINE Frozen ==
        \A r \in Requests, w \in Workspaces : \A v \in 1..(CurrentVersion(r) - 1) :
            ApprovedBy(r, v, w)' = ApprovedBy(r, v, w)
  <1> DEFINE Appended ==
        \A r \in Requests :
            terms'[r] # terms[r] =>
                \E d \in Drafters :
                    /\ drafts[d] # NoDraft /\ drafts[d].deal = r
                    /\ terms'[r] = Append(terms[r], drafts[d].price)
                    /\ dealStatus[r] = "Negotiating"
                    /\ drafts[d].workspace \in Parties(r)
                    /\ ActsFor(drafts[d].user, drafts[d].workspace)
  <1>1. FundingInv /\ [FundingNext]_vars => [Frozen]_<<requestVars, termsVars>>
    <2>1. FundingInv /\ TermsNext => Frozen
      BY TermsStepFrozen DEF FundingInv, TypeOK
    <2>2. UNCHANGED termsVars => Frozen
      BY DEF termsVars, ApprovedBy
    <2> QED BY <2>1, <2>2, StepOfServices DEF vars
  <1>2. FundingInv /\ [FundingNext]_vars => [Appended]_<<requestVars, termsVars>>
    <2>1. FundingInv /\ TermsNext => Appended
      BY TermsStepAppends DEF FundingInv, TypeOK
    <2>2. UNCHANGED termsVars => Appended
      BY DEF termsVars
    <2> QED BY <2>1, <2>2, StepOfServices DEF vars
  <1> QED
    BY <1>1, <1>2, FundingInvariant, PTL
       DEF Spec, SupersededApprovalsFrozen, TermsAppendedWithAuthority
-----------------------------------------------------------------------------
(* Only Phase 3 of a call makes a deal Active, and its verdict reads the    *)
(* buyer's authority again (ActivatedByBuyer): the preauthorisation that    *)
(* preceded the provider's answer counts for nothing.                       *)
THEOREM ActivationNeedsBuyer == Spec => ActivatedByBuyer
  <1>1. ASSUME FundingInv, FundingNext, NEW r \in Requests,
               dealStatus[r] # "Active", dealStatus'[r] = "Active"
        PROVE  \E c \in Calls :
                  /\ CallDeal[c] = r /\ CallWorkspace[c] = Buyer(r)
                  /\ pc[c] = "activate" /\ pc'[c] = "done"
                  /\ ActsFor(CallUser[c], Buyer(r))
                  /\ Holds(Capability(Buyer(r), "Buyer"))
    <2>1. ~TermsNext
      BY <1>1, OthersKeepEvidence DEF FundingInv
    <2>2. PICK c \in Calls : CallStep(c)
      BY <1>1, <2>1 DEF FundingNext, CallStep
    <2>3. Activate(c)
      BY <1>1, <2>2, CallFrame
    <2>4. CallDeal[c] = r /\ pc[c] = "activate" /\ pc'[c] = "done"
      BY <1>1, <2>3, FundingAssumption
         DEF Activate, MarkActive, Answer, Goto, FundingInv, TypeOK, RequestsTypeOK,
             FundingTypeOK
    <2>5. MayFund(c)
      BY <2>3 DEF Activate, Verdict
    <2> QED BY <2>4, <2>5 DEF MayFund
  <1>2. FundingInv /\ [FundingNext]_vars
        => [\A r \in Requests :
              dealStatus[r] # "Active" /\ dealStatus'[r] = "Active" =>
                  \E c \in Calls :
                      /\ CallDeal[c] = r /\ CallWorkspace[c] = Buyer(r)
                      /\ pc[c] = "activate" /\ pc'[c] = "done"
                      /\ ActsFor(CallUser[c], Buyer(r))
                      /\ Holds(Capability(Buyer(r), "Buyer"))]_vars
    BY <1>1
  <1> QED BY <1>2, FundingInvariant, PTL DEF Spec, ActivatedByBuyer
-----------------------------------------------------------------------------
(* How far a fundDeal call has come.  No path through the service goes back:*)
(* a call that lost a race looks for the other's success and retries no     *)
(* phase.                                                                   *)
Progress(step) ==
    CASE step = "idle"     -> 0
      [] step = "early"    -> 1
      [] step = "deal"     -> 2
      [] step = "preauth"  -> 3
      [] step = "intent"   -> 4
      [] step = "provider" -> 5
      [] step = "activate" -> 6
      [] step = "failure"  -> 7
      [] step = "converge" -> 8
      [] OTHER             -> 9

(* A call that stopped has an answer, which stands for good; one that has   *)
(* not stopped moves forward with every step of its own and is not moved by *)
(* any other step: at most nine steps, eight after the call was accepted,   *)
(* however the others interleave.                                           *)
CallsMoveForward ==
    [][\A c \in Calls :
          \/ /\ pc'[c] = pc[c] /\ version'[c] = version[c]
             /\ amount'[c] = amount[c] /\ answer'[c] = answer[c]
          \/ Progress(pc[c]) < Progress(pc'[c]) /\ pc[c] \notin {"done", "lost"}]_vars

DoneIsAnswered ==
    \A c \in Calls : pc[c] \in {"failure", "converge", "done"} => answer[c] # "none"

(* A step of a call moves that call forward, and leaves it with an answer   *)
(* where it has stopped or has only its failure left to record.             *)
LEMMA CallMovesForward ==
    ASSUME FundingTypeOK, NEW c \in Calls, CallStep(c)
    PROVE  /\ Progress(pc[c]) < Progress(pc'[c]) /\ pc[c] \notin {"done", "lost"}
           /\ \/ pc'[c] \notin {"failure", "converge", "done"}
              \/ answer'[c] # "none"
              \/ pc[c] \in {"failure", "converge"} /\ answer'[c] = answer[c]
  <1>1. pc \in [Calls -> Steps] /\ answer \in [Calls -> Answers]
    BY DEF FundingTypeOK
  <1>2. Verdict(c, version[c]) # "none" /\ CachedVerdict(c) # "none"
    BY DEF Verdict, CachedVerdict
  <1>3. CASE Begin(c)
    BY <1>1, <1>3 DEF Begin, Goto, Progress
  <1>4. CASE EarlySuccess(c)
    BY <1>1, <1>2, <1>4 DEF EarlySuccess, Goto, Answer, Progress
  <1>5. CASE ReadDeal(c)
    BY <1>1, <1>5 DEF ReadDeal, Goto, Answer, Progress
  <1>6. CASE Preauthorize(c)
    BY <1>1, <1>2, <1>6 DEF Preauthorize, Goto, Answer, Progress
  <1>7. CASE FindOrCreateIntent(c)
    BY <1>1, <1>7 DEF FindOrCreateIntent, Goto, Progress
  <1>8. CASE IntentRetriesExhausted(c)
    BY <1>1, <1>8 DEF IntentRetriesExhausted, ExhaustedIntentAnswer, Goto, Answer, Progress
  <1>9. CASE ProviderAnswers(c)
    BY <1>1, <1>9 DEF ProviderAnswers, ProviderFails, ProviderConfirms, Pending, Goto, Progress
  <1>10. CASE RecordFailure(c)
    BY <1>1, <1>10 DEF RecordFailure, Goto, Progress
  <1>11. CASE Activate(c) \/ ActivationRetriesExhausted(c)
    BY <1>1, <1>11 DEF Activate, ActivationRetriesExhausted, Goto, Answer, Progress
  <1>12. CASE ActivationRejected(c)
    BY <1>1, <1>2, <1>12 DEF ActivationRejected, Pending, Goto, Answer, Progress
  <1>13. CASE Converge(c)
    BY <1>1, <1>2, <1>13 DEF Converge, Goto, Answer, Progress
  <1>14. CASE Lose(c)
    BY <1>1, <1>14 DEF Lose, Goto, Progress, Steps
  <1> QED
    BY <1>3, <1>4, <1>5, <1>6, <1>7, <1>8, <1>9, <1>10, <1>11, <1>12, <1>13, <1>14
       DEF CallStep, Proceed

(* The variables of a call are written by that call alone.                  *)
LEMMA OthersKeepCall ==
    ASSUME FundingTypeOK, NEW c \in Calls, CallStep(c), NEW d \in Calls, d # c
    PROVE  /\ pc'[d] = pc[d] /\ version'[d] = version[d]
           /\ amount'[d] = amount[d] /\ answer'[d] = answer[d]
  <1>1. CASE Begin(c) \/ Lose(c) \/ ProviderAnswers(c)
    BY <1>1 DEF Begin, Lose, ProviderAnswers, ProviderConfirms, ProviderFails, Pending, Goto,
                FundingTypeOK
  <1>2. CASE EarlySuccess(c) \/ ReadDeal(c) \/ Preauthorize(c)
    BY <1>2 DEF EarlySuccess, ReadDeal, Preauthorize, Answer, Goto, FundingTypeOK
  <1>3. CASE FindOrCreateIntent(c) \/ IntentRetriesExhausted(c) \/ RecordFailure(c)
    BY <1>3 DEF FindOrCreateIntent, IntentRetriesExhausted, RecordFailure, Answer, Goto,
                FundingTypeOK
  <1>4. CASE Activate(c) \/ ActivationRejected(c)
    BY <1>4 DEF Activate, ActivationRejected, Answer, Pending, Goto, FundingTypeOK
  <1>5. CASE ActivationRetriesExhausted(c) \/ Converge(c)
    BY <1>5 DEF ActivationRetriesExhausted, Converge, Answer, Goto, FundingTypeOK
  <1> QED BY <1>1, <1>2, <1>3, <1>4, <1>5 DEF CallStep, Proceed

(* A call takes a bounded number of steps (CallsMoveForward): the part of   *)
(* CallsAreAnswered that needs no fairness.                                 *)
THEOREM CallsNeverGoBack == Spec => CallsMoveForward
  <1>1. ASSUME FundingTypeOK, FundingNext, NEW c \in Calls
        PROVE  \/ /\ pc'[c] = pc[c] /\ version'[c] = version[c]
                  /\ amount'[c] = amount[c] /\ answer'[c] = answer[c]
               \/ Progress(pc[c]) < Progress(pc'[c]) /\ pc[c] \notin {"done", "lost"}
    BY <1>1, CallMovesForward, OthersKeepCall DEF FundingNext, CallStep, fundingVars
  <1>2. FundingTypeOK /\ [FundingNext]_vars
        => [\A c \in Calls :
              \/ /\ pc'[c] = pc[c] /\ version'[c] = version[c]
                 /\ amount'[c] = amount[c] /\ answer'[c] = answer[c]
              \/ Progress(pc[c]) < Progress(pc'[c]) /\ pc[c] \notin {"done", "lost"}]_vars
    BY <1>1
  <1> QED BY <1>2, FundingTypeCorrect, PTL DEF Spec, CallsMoveForward

(* No call ends without a reason (DoneIsAnswered), also when it had only a  *)
(* failure to record and lost that race too.                                *)
THEOREM CallsEndWithAnswer == Spec => []DoneIsAnswered
  <1>1. FundingInit => DoneIsAnswered
    BY DEF FundingInit, DoneIsAnswered
  <1>2. ASSUME FundingTypeOK, DoneIsAnswered, FundingNext
        PROVE  DoneIsAnswered'
    <2>1. ASSUME NEW c \in Calls, CallStep(c)
          PROVE  DoneIsAnswered'
      BY <1>2, <2>1, CallMovesForward, OthersKeepCall DEF DoneIsAnswered
    <2>2. CASE UNCHANGED fundingVars
      BY <1>2, <2>2 DEF fundingVars, DoneIsAnswered
    <2> QED BY <1>2, <2>1, <2>2 DEF FundingNext, CallStep
  <1>3. DoneIsAnswered /\ UNCHANGED vars => DoneIsAnswered'
    BY DEF vars, fundingVars, DoneIsAnswered
  <1> QED BY <1>1, <1>2, <1>3, FundingTypeCorrect, PTL DEF Spec
=============================================================================
