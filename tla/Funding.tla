------------------------------ MODULE Funding ------------------------------
(* Funding a Deal in escrow and activating it (funding.service.ts over      *)
(* prisma-funding.repository.ts and the EscrowProvider interface).          *)
(*                                                                          *)
(* One fundDeal call is a sequence of steps with an await between any two:  *)
(*   early      findAuthorizedConfirmedSuccess, the cached answer           *)
(*   deal       findPreauthSnapshot: the deal row and its newest terms      *)
(*   preauth    findPreauthSnapshot: authority and approvals; the verdict   *)
(*   intent     findOrCreatePaymentIntentInTransaction                      *)
(*   provider   requestFunding is outstanding at the escrow provider        *)
(*   failure    recordPaymentIntentFailureInTransaction                     *)
(*   activate   fundDealInTransaction                                       *)
(*   converge   findAuthorizedConfirmedSuccess again, after losing a race   *)
(*   done       answered;  lost: the process ended and nobody was answered  *)
(* intent and activate are Serializable transactions, failure is one        *)
(* guarded UPDATE; the other steps only read.  Between the steps of one     *)
(* call, other calls, drafts, approvals and withdrawals of authority run.   *)
(*                                                                          *)
(* A call's arguments are constants of its id; a retry is another call.     *)
EXTENDS DealTerms

CONSTANTS
    Calls,          \* fundDeal calls
    CallUser,       \* [Calls -> Users], the signed-in human
    CallWorkspace,  \* [Calls -> Workspaces], the acting workspace
    CallDeal,       \* [Calls -> Requests], the deal to fund
    NoAmount        \* the amount of a confirmation not received

ASSUME FundingAssumption ==
    /\ CallUser \in [Calls -> Users]
    /\ CallWorkspace \in [Calls -> Workspaces]
    /\ CallDeal \in [Calls -> Requests]
    /\ NoAmount \notin Prices

VARIABLES
    intent,    \* payment_intents.providerState by deal and version
    newest,    \* by deal, the version of the intent with the latest createdAt
    held,      \* the funds the escrow provider holds (the provider's state)
    pc,        \* the step each call is at
    version,   \* the version Phase 1 read, for the rest of the call
    amount,    \* the confirmed amount the call received
    answer     \* the call's answer, given at done

fundingVars == <<intent, newest, held, pc, version, amount, answer>>
vars == <<requestVars, termsVars, fundingVars>>

Versions == 1..MaxVersions
Steps    == {"idle", "early", "deal", "preauth", "intent", "provider", "failure",
             "activate", "converge", "done", "lost"}
Authorised == {"intent", "provider", "failure", "activate"}   \* past Phase 1
Answers  == {"none", "FUNDED", "DEAL_NOT_FOUND", "DEAL_NOT_NEGOTIATING",
             "TERMS_VERSION_NOT_CURRENT", "FORBIDDEN", "APPROVALS_INCOMPLETE",
             "ESCROW_UNAVAILABLE", "CONFIRMATION_MISMATCH", "INTERNAL_FAILED"}
IntentStates == {"None", "Created", "Failed", "Confirmed"}
Hold     == [deal : Requests, version : Versions, amount : Prices]

FundingTypeOK ==
    /\ intent \in [Requests -> [Versions -> IntentStates]]
    /\ newest \in [Requests -> 0..MaxVersions]
    /\ held \subseteq Hold
    /\ pc \in [Calls -> Steps]
    /\ version \in [Calls -> 0..MaxVersions]
    /\ amount \in [Calls -> Prices \cup {NoAmount}]
    /\ answer \in [Calls -> Answers]

FundingInit ==
    /\ TermsInit
    /\ intent = [r \in Requests |-> [v \in Versions |-> "None"]]
    /\ newest = [r \in Requests |-> 0]
    /\ held = {}
    /\ pc = [c \in Calls |-> "idle"]
    /\ version = [c \in Calls |-> 0]
    /\ amount = [c \in Calls |-> NoAmount]
    /\ answer = [c \in Calls |-> "none"]
-----------------------------------------------------------------------------
Price(c)    == terms[CallDeal[c]][version[c]]
IntentOf(c) == intent[CallDeal[c]][version[c]]

(* evaluateAuthorityForStatus past the status and version checks: the buyer *)
(* side, its membership and capability, and the seller's consent.           *)
MayFund(c) ==
    LET r == CallDeal[c] IN
    /\ CallWorkspace[c] = Buyer(r)
    /\ ActsFor(CallUser[c], CallWorkspace[c])
    /\ Holds(Capability(Buyer(r), "Buyer"))
    /\ requestStatus[r] = "Accepted" /\ r \in consented

(* An approval counts for the seller only when it is not the buyer's: a     *)
(* workspace that selected itself never completes its approvals.            *)
BothApproved(r, v) ==
    /\ ApprovedBy(r, v, Buyer(r))
    /\ ApprovedBy(r, v, Seller(r)) /\ Seller(r) # Buyer(r)

(* Mutation: consent is taken for approval of whatever terms are current.   *)
VerdictOnConsent(c, v) == IF MayFund(c) THEN "FUNDED" ELSE "FORBIDDEN"

(* Mutation: the preauthorisation of Phase 1 is trusted to the end.         *)
VerdictOnApprovals(c, v) ==
    IF ~MayFund(c) /\ pc[c] = "preauth" THEN "FORBIDDEN"
    ELSE IF ~BothApproved(CallDeal[c], v) THEN "APPROVALS_INCOMPLETE" ELSE "FUNDED"

(* The verdict on a call whose deal has the required status and version v.  *)
Verdict(c, v) ==
    IF ~MayFund(c) THEN "FORBIDDEN"
    ELSE IF ~BothApproved(CallDeal[c], v) THEN "APPROVALS_INCOMPLETE" ELSE "FUNDED"

(* What findAuthorizedConfirmedSuccess looks for: the deal's latest intent  *)
(* is Confirmed, and for the deal's current version.  Its several reads are *)
(* one step: once an intent is Confirmed only authority can still change.   *)
CachedSuccess(r) ==
    /\ newest[r] \in Versions
    /\ intent[r][newest[r]] = "Confirmed"
    /\ newest[r] = CurrentVersion(r)

CachedVerdict(c) ==
    IF dealStatus[CallDeal[c]] = "Active"
    THEN Verdict(c, CurrentVersion(CallDeal[c])) ELSE "DEAL_NOT_NEGOTIATING"

Goto(c, step) == pc' = [pc EXCEPT ![c] = step]
Answer(c, a)  == Goto(c, "done") /\ answer' = [answer EXCEPT ![c] = a]
SetIntent(r, v, state) == intent' = [intent EXCEPT ![r][v] = state]
Pending(c, step, a) == Goto(c, step) /\ answer' = [answer EXCEPT ![c] = a]
-----------------------------------------------------------------------------
Begin(c) ==
    /\ pc[c] = "idle"
    /\ Goto(c, "early")
    /\ UNCHANGED <<requestVars, termsVars, intent, newest, held, version, amount, answer>>

EarlySuccess(c) ==
    /\ pc[c] = "early"
    /\ IF CachedSuccess(CallDeal[c])
       THEN Answer(c, CachedVerdict(c))
       ELSE Goto(c, "deal") /\ UNCHANGED answer
    /\ UNCHANGED <<requestVars, termsVars, intent, newest, held, version, amount>>

(* Mutation: a deal without terms is waited for, and not answered.          *)
ReadDealWithTerms(c) ==
    /\ pc[c] = "deal"
    /\ LET r == CallDeal[c] IN
       /\ CurrentVersion(r) # 0
       /\ IF dealStatus[r] = "Negotiating"
          THEN Goto(c, "preauth") /\ UNCHANGED answer ELSE Answer(c, "DEAL_NOT_NEGOTIATING")
       /\ version' = [version EXCEPT ![c] = CurrentVersion(r)]
    /\ UNCHANGED <<requestVars, termsVars, intent, newest, held, amount>>

ReadDeal(c) ==
    /\ pc[c] = "deal"
    /\ LET r == CallDeal[c] IN
       \/ dealStatus[r] = "None" /\ Answer(c, "DEAL_NOT_FOUND") /\ UNCHANGED version
       \/ /\ dealStatus[r] # "None" /\ CurrentVersion(r) = 0
          /\ Answer(c, "TERMS_VERSION_NOT_CURRENT") /\ UNCHANGED version
       \/ /\ dealStatus[r] = "Active" /\ CurrentVersion(r) # 0
          /\ Answer(c, "DEAL_NOT_NEGOTIATING") /\ UNCHANGED version
       \/ /\ dealStatus[r] = "Negotiating" /\ CurrentVersion(r) # 0
          /\ Goto(c, "preauth") /\ UNCHANGED answer
          /\ version' = [version EXCEPT ![c] = CurrentVersion(r)]
    /\ UNCHANGED <<requestVars, termsVars, intent, newest, held, amount>>

Preauthorize(c) ==
    /\ pc[c] = "preauth"
    /\ IF Verdict(c, version[c]) = "FUNDED"
       THEN Goto(c, "intent") /\ UNCHANGED answer
       ELSE Answer(c, Verdict(c, version[c]))
    /\ UNCHANGED <<requestVars, termsVars, intent, newest, held, version, amount>>

(* Neither the deal's status nor the version's currency is checked here.  A *)
(* Confirmed intent stands in for the provider's confirmation.              *)
FindOrCreateIntent(c) ==
    /\ pc[c] = "intent"
    /\ LET r == CallDeal[c] IN
       \/ /\ IntentOf(c) = "None"
          /\ SetIntent(r, version[c], "Created")
          /\ newest' = [newest EXCEPT ![r] = version[c]]
          /\ Goto(c, "provider") /\ UNCHANGED amount
       \/ /\ IntentOf(c) \in {"Created", "Failed"}
          /\ Goto(c, "provider") /\ UNCHANGED <<intent, newest, amount>>
       \/ /\ IntentOf(c) = "Confirmed"
          /\ amount' = [amount EXCEPT ![c] = Price(c)]
          /\ Goto(c, "activate") /\ UNCHANGED <<intent, newest>>
    /\ UNCHANGED <<requestVars, termsVars, held, version, answer>>

(* Mutation: the repository's own reason reaches the caller.                *)
RepositoryReason == "CONCURRENCY_RETRY_EXHAUSTED"

(* Three P2034 conflicts are reported as TERMS_VERSION_NOT_FOUND, which the *)
(* service answers as terms that are not current.                           *)
ExhaustedIntentAnswer == "TERMS_VERSION_NOT_CURRENT"

IntentRetriesExhausted(c) ==
    /\ pc[c] = "intent"
    /\ Answer(c, ExhaustedIntentAnswer)
    /\ UNCHANGED <<requestVars, termsVars, intent, newest, held, version, amount>>

HoldOf(c, a) == [deal |-> CallDeal[c], version |-> version[c], amount |-> a]

(* The provider answers with a well-formed confirmation.  A wrong currency, *)
(* version or label is a wrong amount here: each is the same mismatch.      *)
ProviderConfirms(c, a) ==
    /\ pc[c] = "provider"
    /\ held' = held \cup {HoldOf(c, a)}
    /\ amount' = [amount EXCEPT ![c] = a]
    /\ Goto(c, "activate")
    /\ UNCHANGED <<requestVars, termsVars, intent, newest, version, answer>>

(* It throws, or its response does not parse; the funds may be held anyway. *)
ProviderFails(c) ==
    /\ pc[c] = "provider"
    /\ held' \in {held, held \cup {HoldOf(c, Price(c))}}
    /\ Pending(c, "failure", "ESCROW_UNAVAILABLE")
    /\ UNCHANGED <<requestVars, termsVars, intent, newest, version, amount>>

(* Mutation: the UPDATE matches the row by id alone.                        *)
AnyIntentRow(c) == IntentOf(c) # "None"

NotConfirmed(c) == IntentOf(c) # "Confirmed"

LostRace(c) == IntentOf(c) = "Confirmed"

(* The guarded UPDATE never demotes a Confirmed intent; the call then looks *)
(* for the success it raced with.                                           *)
RecordFailure(c) ==
    /\ pc[c] = "failure"
    /\ \/ /\ NotConfirmed(c)
          /\ SetIntent(CallDeal[c], version[c], "Failed")
          /\ Goto(c, "done")
       \/ LostRace(c) /\ Goto(c, "converge") /\ UNCHANGED intent
    /\ UNCHANGED <<requestVars, termsVars, newest, held, version, amount, answer>>

(* Mutation: the version is not compared with the newest one again.         *)
SomeVersion(c) == version[c] \in 1..CurrentVersion(CallDeal[c])

IsCurrent(c) == version[c] = CurrentVersion(CallDeal[c])

(* Mutation: any well-formed confirmation will do.                          *)
WellFormed(c) == amount[c] \in Prices

ConfirmationMatches(c) == amount[c] = Price(c)

(* Mutation: the intent's update commits without the deal's.                *)
LeaveNegotiating(r) == UNCHANGED dealStatus

MarkActive(r) == dealStatus' = [dealStatus EXCEPT ![r] = "Active"]

(* Phase 3 commits: the intent is Confirmed and the deal Active, together.  *)
Activate(c) ==
    /\ pc[c] = "activate"
    /\ IsCurrent(c)
    /\ dealStatus[CallDeal[c]] = "Negotiating"
    /\ Verdict(c, version[c]) = "FUNDED"
    /\ ConfirmationMatches(c)
    /\ SetIntent(CallDeal[c], version[c], "Confirmed")
    /\ MarkActive(CallDeal[c])
    /\ Answer(c, "FUNDED")
    /\ UNCHANGED <<authority, requestStatus, decidedBy, consented, termsVars, newest,
                   held, version, amount>>

(* Phase 3 rejects, in the order the transaction checks.                    *)
ActivationRejected(c) ==
    /\ pc[c] = "activate"
    /\ LET r == CallDeal[c] IN
       \/ /\ ~IsCurrent(c)
          /\ Answer(c, "TERMS_VERSION_NOT_CURRENT")
       \/ /\ IsCurrent(c)
          /\ \/ /\ dealStatus[r] # "Negotiating"
                /\ Pending(c, "converge", "DEAL_NOT_NEGOTIATING")
             \/ /\ dealStatus[r] = "Negotiating" /\ Verdict(c, version[c]) # "FUNDED"
                /\ Answer(c, Verdict(c, version[c]))
             \/ /\ dealStatus[r] = "Negotiating" /\ Verdict(c, version[c]) = "FUNDED"
                /\ ~ConfirmationMatches(c)
                /\ Pending(c, "failure", "CONFIRMATION_MISMATCH")
    /\ UNCHANGED <<requestVars, termsVars, intent, newest, held, version, amount>>

ActivationRetriesExhausted(c) ==
    /\ pc[c] = "activate"
    /\ Answer(c, "INTERNAL_FAILED")
    /\ UNCHANGED <<requestVars, termsVars, intent, newest, held, version, amount>>

Converge(c) ==
    /\ pc[c] = "converge"
    /\ IF CachedSuccess(CallDeal[c])
       THEN Answer(c, CachedVerdict(c))
       ELSE Goto(c, "done") /\ UNCHANGED answer
    /\ UNCHANGED <<requestVars, termsVars, intent, newest, held, version, amount>>

(* The API process ends in the middle of a call: no step undoes the others. *)
Lose(c) ==
    /\ pc[c] \notin {"idle", "done", "lost"}
    /\ Goto(c, "lost")
    /\ UNCHANGED <<requestVars, termsVars, intent, newest, held, version, amount, answer>>

ProviderAnswers(c) == ProviderFails(c) \/ \E a \in Prices : ProviderConfirms(c, a)

(* What the API process does for a call it has accepted.                    *)
Proceed(c) ==
    \/ EarlySuccess(c) \/ ReadDeal(c) \/ Preauthorize(c)
    \/ FindOrCreateIntent(c) \/ IntentRetriesExhausted(c)
    \/ RecordFailure(c) \/ Converge(c)
    \/ Activate(c) \/ ActivationRejected(c) \/ ActivationRetriesExhausted(c)

FundingNext ==
    \/ \E c \in Calls : Begin(c) \/ Proceed(c) \/ ProviderAnswers(c) \/ Lose(c)
    \/ TermsNext /\ UNCHANGED fundingVars

Spec == FundingInit /\ [][FundingNext]_vars

(* Node schedules every continuation of a running process, and the provider *)
(* answers or throws: nothing in the code times a provider call out.        *)
FairSpec == Spec /\ \A c \in Calls : WF_vars(Proceed(c)) /\ WF_vars(ProviderAnswers(c))
-----------------------------------------------------------------------------
(* The activation invariant of the golden slice: an Active deal has the     *)
(* seller's consent, the approval of two different workspaces for the very  *)
(* version that is current, a Confirmed intent for that version, and its    *)
(* exact price in escrow.                                                   *)
ActivationInvariant ==
    \A r \in Requests : dealStatus[r] = "Active" =>
        LET v == CurrentVersion(r) IN
        /\ v \in Versions
        /\ requestStatus[r] = "Accepted" /\ r \in consented
        /\ BothApproved(r, v)
        /\ intent[r][v] = "Confirmed"
        /\ [deal |-> r, version |-> v, amount |-> terms[r][v]] \in held

(* A confirmation and an activation commit together: no intent is Confirmed *)
(* on a deal that is still Negotiating or for terms that were replaced.     *)
ConfirmedMeansActive ==
    \A r \in Requests, v \in Versions : intent[r][v] = "Confirmed" =>
        dealStatus[r] = "Active" /\ v = CurrentVersion(r)

(* The escrow provider is asked to hold funds only for terms that both      *)
(* parties had approved after the seller's consent, whatever was withdrawn  *)
(* or redrafted since.                                                      *)
HeldFundsWereApproved ==
    \A h \in held : h.deal \in consented /\ BothApproved(h.deal, h.version)

(* From the moment a call has passed Phase 1 it works on terms that exist,  *)
(* that the seller consented to negotiate and that both parties approved,   *)
(* and once it holds a confirmation the provider holds that amount: also    *)
(* when the confirmation is the one another call received.                  *)
CallsActOnApprovedTerms ==
    \A c \in Calls :
        /\ pc[c] = "preauth" \/ pc[c] \in Authorised =>
              version[c] \in 1..CurrentVersion(CallDeal[c])
        /\ pc[c] \in Authorised =>
              CallDeal[c] \in consented /\ BothApproved(CallDeal[c], version[c])
        /\ pc[c] = "activate" => HoldOf(c, amount[c]) \in held

(* Whoever is told that the deal is funded is told the truth, on the direct *)
(* path and when a lost race converges on another call's success.           *)
FundedAnswerIsTrue ==
    \A c \in Calls : pc[c] = "done" /\ answer[c] = "FUNDED" =>
        dealStatus[CallDeal[c]] = "Active"

(* Activation is the end of the negotiation: no draft, approval, retry or   *)
(* slow provider failure that was under way changes the terms, their        *)
(* approvals or the Confirmed intent of an Active deal.                     *)
SettledOnceActive ==
    [][\A r \in Requests : dealStatus[r] = "Active" =>
          /\ dealStatus'[r] = "Active" /\ terms'[r] = terms[r]
          /\ \A w \in Workspaces :
                ApprovedBy(r, CurrentVersion(r), w)' = ApprovedBy(r, CurrentVersion(r), w)
          /\ intent'[r][CurrentVersion(r)] = "Confirmed"]_vars

(* The provider may hold the funds for longer than the buyer's authority    *)
(* lasts: a deal becomes Active only in the last step of a call for it, and *)
(* by a human who at that moment is a member of the Active buyer workspace, *)
(* which still has the Buyer capability.                                    *)
ActivatedByBuyer ==
    [][\A r \in Requests :
          dealStatus[r] # "Active" /\ dealStatus'[r] = "Active" =>
              \E c \in Calls :
                  /\ CallDeal[c] = r /\ CallWorkspace[c] = Buyer(r)
                  /\ pc[c] = "activate" /\ pc'[c] = "done"
                  /\ ActsFor(CallUser[c], Buyer(r))
                  /\ Holds(Capability(Buyer(r), "Buyer"))]_vars

(* Every call the process keeps running for is answered, also after it lost *)
(* the race to record its own failure.                                      *)
CallsAreAnswered ==
    \A c \in Calls : pc[c] = "early" ~> pc[c] \in {"done", "lost"}

(* What the module's documentation promises a retry: when the deal is       *)
(* Active, a call of an authorised buyer is answered with the cached        *)
(* success by its first step.  The code looks at the intent created last,   *)
(* not at the intent of the current terms, and a slow call may create one   *)
(* for replaced terms after the activation.                                 *)
RetryOfFundedDealSucceeds ==
    [][\A c \in Calls :
          pc[c] = "early" /\ dealStatus[CallDeal[c]] = "Active" /\ MayFund(c)
              /\ pc'[c] \notin {"early", "lost"}
          => pc'[c] = "done" /\ answer'[c] = "FUNDED"]_vars

(* What the product specification promises: funding is never requested from *)
(* the provider for terms that have been replaced.  Phase 1 reads the       *)
(* current version outside any transaction, and nothing reads it again      *)
(* before the provider is asked.                                            *)
FundingRequestedForCurrentTerms ==
    [][\A c \in Calls :
          pc[c] # "provider" /\ pc'[c] = "provider" =>
              version[c] = CurrentVersion(CallDeal[c])]_vars
-----------------------------------------------------------------------------
(* The rows seen as the deal they record: the sides that agreed are the     *)
(* ones whose approval of the current version counts, and the funded terms  *)
(* are those whose intent is Confirmed.                                     *)
StageOf(r) ==
    IF dealStatus[r] = "None" THEN "none"
    ELSE IF dealStatus[r] = "Negotiating" THEN "negotiating" ELSE "active"

AgreedSides(r) ==
    {side \in {"buyer", "seller"} :
        IF side = "buyer" THEN ApprovedBy(r, CurrentVersion(r), Buyer(r))
        ELSE Seller(r) # Buyer(r) /\ ApprovedBy(r, CurrentVersion(r), Seller(r))}

FundedVersion(r) ==
    IF \E v \in Versions : intent[r][v] = "Confirmed"
    THEN CHOOSE v \in Versions : intent[r][v] = "Confirmed" ELSE 0

Lifecycle == INSTANCE DealLifecycle WITH
    Deals  <- Requests,
    Sides  <- {"buyer", "seller"},
    stage  <- [r \in Requests |-> StageOf(r)],
    offer  <- [r \in Requests |-> CurrentVersion(r)],
    agreed <- [r \in Requests |-> AgreedSides(r)],
    funded <- [r \in Requests |-> FundedVersion(r)]

(* The three services together, with every race, retry, crash and           *)
(* revocation, do to each deal only what the lifecycle allows.              *)
ImplementsLifecycle == Lifecycle!LifecycleSpec
=============================================================================
