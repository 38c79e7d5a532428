# SoundHub: a TLA+ model of its marketplace core

SoundHub is a marketplace in which a buyer describes a music project, is shown
service offerings of sellers, sends one a *project request*, negotiates *terms*
with them, and *funds* the resulting deal through an escrow provider. The code
is a TypeScript monorepo: an Express API over PostgreSQL (`apps/api`), a Next.js
client (`apps/web`), and shared packages for the schema (`packages/db`) and the
wire contracts (`packages/types`).

This directory models the API's services where they are hard to get right:
commands of several humans that interleave at every `await`, Serializable
transactions that are retried, external providers that fail, lose their answer
or answer late, and authority that is withdrawn in the middle of a command. Of
the client it models the three pieces whose state outlives a request: the page
that edits an offering, the session of a browser tab and its search.

## 1. The system

| Component (source) | State it keeps | Operations | Module |
|---|---|---|---|
| Authority (`packages/db/prisma/schema.prisma`, `services/workspace-authorization.service.ts`) | workspace status, memberships, capabilities, deal approvers, published profiles, active offerings | read under a row lock by every deal transaction; withdrawn and restored by others | `Authority` |
| Project requests (`project-request/`) | `project_requests`, `deals` | create, accept (opens the deal), decline | `ProjectRequests` |
| Deal terms (`deal-terms/`) | `terms_versions`, `deal_approvals`; a draft that awaits the AI adapter | `draftTerms`, `approveTerms` | `DealTerms` |
| Funding (`funding/`, `escrow/`) | `payment_intents`, `deals.status`; the funds the provider holds; the calls in progress | `fundDeal` | `Funding` |
| Deal listing (`deal-list/`) | none | lists a workspace's deals, with two derived states | `DealListing` |
| Audio samples (`services/audio-sample.service.ts`, `audio-repository/`, `storage/`) | sample rows, pending cleanups, recorded orphans, the object store | upload, remove, list, play, two cleanup retries | `AudioSamples` |
| Service offerings (`services/service-offering.service.ts`, `repositories/prisma-service-offering.repository.ts`) | offerings; creation, activation, pause and update evidence with idempotency keys | create, save, activate, pause, reactivate, update; get, list | `Offerings` (what a sample count means to them: `AudioSamples`) |
| Seller profiles (`services/seller-profile.service.ts`) | profile, publication evidence | save draft, publish, update | `Offerings` (status and publications) |
| Sign-in and sessions (`services/authentication.service.ts`, `identity/`, `auth-repository/`) | one-time links, accounts, identities, sessions | request, verify, who am I, sign out | `Accounts` |
| Personal workspace convergence and intent (`services/personal-workspace-convergence.service.ts`, `services/intent.service.ts`) | personal workspace, owner membership, the account's pointer, capabilities | classify, create, attach, submit intent | `Accounts` |
| Web client: offering editor (`seller/services/[offeringId]/edit/page.tsx`, `lib/service-offering-client.ts`) | form, last answer, edit mode, one idempotency key per kind of command | edit, save, activate, pause, repair, update, cancel, reload | `OfferingEditor` |
| Web client: session (`SessionProvider.tsx`) and search (`useSearch.ts`) | shown user and generation; request number, abort controller, results | refresh, verify, sign out; search, retry, clear | `BrowserSession`, `SearchHook` |
| Matchmaker (`services/matchmaker.service.ts`, `matchmaker/`) | project briefs with their search results | submit, read | - |
| Talent search (`services/talent-search.service.ts`) | none | a ranking | - |

**How they interact.** The services share the database and call no other
service, except that authentication calls convergence. A deal is created by the
acceptance of a request; terms and approvals refer to the deal; funding reads
the request's consent, the newest terms and their approvals, and turns the deal
Active. An offering can be activated only under a published profile and with
samples; the editor and other tabs send its commands and repeat them. The browser
holds a session cookie and learns from the API whose it is. Each transaction locks and reads the authority rows itself. The AI
adapter and the escrow provider are called between transactions, never in one.

**What is hard.**

* A command is several transactions and provider calls with awaits in between.
  `draftTerms` authorises, awaits the AI adapter, then authorises again and
  persists; `fundDeal` reads a snapshot, creates an intent, awaits the provider,
  and only then activates under locks. Anything may happen in the gaps.
* Two calls for the same deal race; the loser has to find the winner's success.
* The provider may hold funds and lose its answer; the process may end.
* A list of deals is one transaction of several statements at READ COMMITTED: what
  it shows of one deal are rows of different moments.
* A terms version replaces its predecessor, and everything agreed about the
  predecessor must stop counting, also for commands that are already under way.
* A workspace may select its own offering and is then both parties of a deal.
* A command of the offering editor may be committed and its answer lost; the key
  it carries is all that makes the repetition harmless, and both sides have to
  agree on when a key is kept and when it is dropped. The command may also be
  committed after its page has given it up.
* A sign-in verifies a link that works once and lives in memory, then writes the
  account, the workspace and the session in separate transactions; two of them, or
  a sign-in and an intent, read the relationships in several statements each.
* A browser's answers arrive in any order, after the user has signed out, signed
  in as another, or searched for something else; a cookie takes effect before the
  answer that brought it has been read.
* A sample is a row in the database and an object in a store that share no
  transaction: uploads, removals and two kinds of cleanup retry move the pair
  forward one side at a time, several calls at once, and any step may fail, lose
  its answer, or be the last one of its process.

**What makes them correct.** Requests: one deal per accepted request, with the
seller's consent, decided once, and no duplicate undecided request. Terms:
appended only with current authority; approvals are evidence about an existing
version, one per party, and never come late. Funding: the *activation invariant*
of the golden slice (`docs/specs/buildathon-golden-slice.md`), no demotion of a
success, truthful answers, and an answer for every call. Listing: shown to members
only, and true about which deals are funded. Samples: the cap, no Live
row without its object, no object that nothing leads to, a removal that is
reported only when it happened, a pause exactly for the last qualifying sample.
Offerings: what buyers see is complete and changes only under the activation
contract; a repeated command changes nothing. Accounts: one session per link, one
account per email, one personal workspace per account, capabilities only as
somebody saw and chose them, and an end to every retry. Client: no late answer
replaces a newer one.

## 2. The modules

Five families, which share no row that both write, so each is checked alone.
`AudioSamples` stands alone: the deal services read an offering's
status but none of its samples, and the audio service reads nothing of a deal.
`Offerings <- OfferingEditor`: the API and the page, composed; in them a sample
count is one bit that comes and goes, in every way `AudioSamples` lets it.
`Accounts` stands alone: the deal services read memberships and capabilities as
`authority`, and write none. `BrowserSession, SearchHook <- WebClient`: one tab,
the server reduced to which sessions live.
`Authority <- ProjectRequests <- DealTerms <- Funding`, each extending the one
before it: a later module's next-state relation contains the earlier one, so the
runs of `Funding` interleave all four; `DealListing` extends `Funding` with a reader.
Three abstract specifications say what the detailed ones promise: `DealLifecycle`,
which `Funding` implements, `SampleShelf`, which `AudioSamples` implements, and
`PersonalHomes`, which `Accounts` implements. `*_proofs` modules hold the theorems,
`MC*` modules and configurations the instances that TLC checks.

| Module | State | Actions | Code |
|---|---|---|---|
| `Authority` | `authority`, a set of facts | `Withdraw`, `Restore` | rows other services and operators write |
| `ProjectRequests` | `requestStatus`, `decidedBy`, `consented`, `dealStatus` | `CreateProjectRequest`, `AcceptProjectRequest`, `DeclineProjectRequest` | `runCreateTransactionOnce`, `runRespondTransactionOnce` |
| `DealTerms` | `terms`, `approvals`, `drafts` | `BeginDraft`, `PersistDraft`, `DraftFails`, `ApproveTerms` | `draftTerms`, `runDraftTransactionOnce`, `runApprovalTransactionOnce` |
| `Funding` | `intent`, `newest`, `held`, and per call `pc`, `version`, `amount`, `answer` | one per step of `fundDeal` between two awaits, plus `ProviderConfirms`, `ProviderFails`, `Lose` | `fundDeal`, `prisma-funding.repository.ts` |
| `DealListing` | `read`, `rows` | `Authorise`, `ReadDeals`, `ReadVersions`, `ReadApprovals`, `ReadIntents`, `EndListing` | `prisma-deal-list.repository.ts`, `deal-list-derivation.ts` |
| `AudioSamples` | `offering`, `row`, `objects`, `locators`, `pausedFor`, and per call `pc`, `sample`, `backlog`, `sawActive`, `outcome` | one per step of `uploadSample`, `removeSample`, `listSamplesForSeller` and the two retries; `Activate`, `Pause`, `Lose` | `audio-sample.service.ts`, `prisma-audio-repository.ts`, `supabase-storage-adapter.ts` |
| `Offerings` | `profile`, `publications`, `status`, `content`, `eligible`, `creations`, `evidence`, and per caller `call` | `CreateDraft`, `SaveDraft`, `CheckProfile`, `Activate`, `Pause`, `Reactivate`, `UpdateActive`, `Fail`; profile and sample steps | `prisma-service-offering.repository.ts`, `prisma-seller-profile.repository.ts` and the services above them |
| `OfferingEditor` | `url`, `form`, `view`, `mode`, `entered`, `keyRef` | one per handler and one per answer; `Refetch`, `Reload`, `GiveUp`, `OtherSends` | `edit/page.tsx` |
| `Accounts` | `accounts`, `mapping`, `pointer`, `role`, `created`, `capabilities`, `link`, `session`, and the requests in `call` | one per statement or transaction of `verifySignIn`, `handleMe` and `submitIntent`; `RequestSignIn`, `ExpireLink`, `EndSession`, `GrantOwner`, `Restart`, `Fail` | `authentication.service.ts`, `personal-workspace-convergence.service.ts`, `intent.service.ts`, `prisma-auth-repository.ts` |
| `BrowserSession` | `cookie`, `live`, `issued`, `shown`, `generation`, `flight`; `unread`, a history variable | `Refresh`, `Begin`, `Reload`, the server's steps, `ReceiveMe`, `ReceiveHeaders`, `RefreshAfter`, `Lose` | `SessionProvider.tsx`, `auth-client.ts`, `routes/auth.ts` |
| `SearchHook` | `counter`, `controller`, `last`, `loading`, `results`, `error`, `awaited` | `Search`, `Retry`, `ClearResults`, `OnResults`, `OnError`, `OnAbort` | `useSearch.ts` |
| `DealLifecycle` | `stage`, `offer`, `agreed`, `funded` | `Open`, `Propose`, `Agree`, `FundAndActivate` | none: what the deal services promise |
| `SampleShelf` | `status`, `place`, `bytes` | `Publish`, `Suspend`, `Deliver`, `GiveUp`, `Show`, `Withdraw`, `WithdrawLast`, `Drop`, `Vanish` | none: what the audio service promises |
| `PersonalHomes` | `accounts`, `mapping`, `home`, `owned`, `capabilities`, `session` | `Recognise`, `Give`, `MoveIn`, `Adopt`, `SignIn`, `SignOut`, `Choose` | none: what sign-in and intent promise |

**Correspondence.**

* *Transactions are atomic actions.* Every mutation runs at `Serializable` with
  row locks, and a P2034 conflict aborts and retries it, so a committed
  transaction is one step; an aborted one changes nothing and is a stutter, and
  giving up is an action only where the caller can tell
  (`IntentRetriesExhausted`, `ActivationRetriesExhausted`, `DraftFails`). The
  order of the model is the serialisation order: a transaction that PostgreSQL
  serialises before another may commit after it.
* *Reads outside transactions are steps of their own.* `findPreauthSnapshot` is
  two (`ReadDeal`, `Preauthorize`), because it reads the deal with its versions
  and then the rest. The reads of `findAuthorizedConfirmedSuccess` are one:
  once an intent is Confirmed nothing but authority can still change under them
  (`SettledOnceActive`).
* *Rows are named by what identifies them.* A request's brief and offering are
  constants of its id, a deal is named by its request (unique), a terms version
  by its number, an intent by deal and version (unique), a call's user,
  workspace and deal by the call; a retry is another call.
* *A terms version is its price.* Scope, licence, deliverables and deadlines are
  written once and compared by nothing. An invalid candidate is a price outside
  `Prices`. A confirmation with a wrong currency, version or label is a wrong
  amount, since each is answered by the same mismatch.
* *Two deal approvers* are facts; the schema refuses to delete an approver row
  that an approval names, so withdrawing them freely is more than can happen.
* *The order of `createdAt`* of two intents is the order of their transactions.
* *A list is a step per statement.* Prisma answers the relations of `findMany` with
  further queries, the approvals after the versions they belong to; versions and
  intents may come in either order. `LocksHold` is what the two `FOR UPDATE` locks do:
  nobody takes away the reader's membership or its workspace before the list ends.
  That other commands which lock the same rows would wait for the list is not
  imposed, so the model interleaves more than the database does. The cap of 200 rows
  and the names that a row shows are left out.

*The samples.* One offering, since every row, lock and object path is keyed by it.

* *A call is the steps between its awaits*; a method of the repository is one
  transaction under the offering's advisory lock, or one statement, so one
  action. Reads of the same call with nothing of the model's state between them
  are one step: the capability, the profile and the archived status only refuse a
  call before it does anything, and a refused call changes nothing.
* *An upload, its row and its object share a name.* The object path holds a fresh
  identifier for each upload, and a retry is another upload. The twice run
  `cleanupOrphanedStorage` of an upload that lost the race for the last place
  (its error is thrown inside the `try` whose `catch` cleans up again) is two
  discards.
* *The object store is a provider.* A put, and a delete, may act and report a
  failure; "not found" and success of a delete both mean that the object is gone
  (`removeSample` treats 400 as a failure since it may not be). A transaction may
  commit and its call throw (`CreateSample`, third disjunct).
* *Outcomes* are the error codes that the properties tell apart;
  `STORAGE_FAILED` also stands for `AUDIO_PROVIDER_UNAVAILABLE`, `FAILED` for an
  error of the database, and `UNRECORDED` is a name of the model for an upload
  that failed and could not record its object.
* *`pausedFor`* stands for the pause rows with reason `final_sample_removal`,
  whose idempotency key is derived from offering and sample. The offering begins
  as a Draft; that it becomes Active only with a qualifying sample is the guard of
  `Activate`, which stands for activation and reactivation, whose other conditions
  (fields, profile, keys) are left to `Offerings` and only make it rarer.

*The offerings and their editor.*

* *A repository method is one transaction under advisory locks*, so one action,
  and the answer shows the offering as it leaves it. Activation is two: the
  service reads the profile in a statement of its own before the transaction.
* *A command travels.* It is sent, committed, and its answer is received or lost;
  `Fail` is a refusal, a database error and a lost answer alike, since the client
  sees an error in all of them. The callers of the page are the kinds of command,
  because the page keeps a separate "saving" state for each; `Others` are other tabs
  and clients, which send any kind of command (`OtherSends`). A command also outlives
  its page (`Reload`) and its connection (`GiveUp`, after which the page keeps the key
  and may repeat what the server has yet to commit): it goes on as one of `Others`
  (`Abandon`), and its answer, if it is all that was left, is dropped.
* *The page asks again* after the removal of a final sample (`Refetch`), which
  replaces what it shows and leaves the inputs; the answer is taken to be fresh, a
  late one would show what the next command is refused for.
* *An idempotency key belongs to an offering and a table.* Creation keys belong to
  the workspace; activation and reactivation share a table. A key is fresh when
  nobody has it, as a random UUID is.
* *A form is a content*; which contents satisfy the contract is `Complete`. The
  samples list of the page is taken to be up to date, which only makes a click
  that the server would refuse impossible.
* *`eligible`* is the count of confirmed Live samples between 1 and the cap. It
  falls without a pause too, the race of finding 3.

*The accounts.*

* *A request is a call with one step per statement that stands outside a
  transaction and one per transaction.* `findPersonalWorkspaceState` is three
  statements, because Prisma answers its `include`s with further queries: the
  account, its Owner memberships, their other owners. Where the code reads the
  pointed workspace again it gets rows the second statement could have seen.
* *`verifySignIn`* converges, issues the session, resolves the payload by
  classifying again, and converges once more when the state has come apart in
  between (`stage`). A loop of `createInitialConvergence` or
  `attachExistingConvergence` is `loop` with its count `tries`.
* *`provisionIntentAtomically`* is two steps, `LockAndRead` and `Write`, so that
  the lock it takes is part of what is checked.
* *All workspaces are Active and Personal*, the branches for other types and
  states lead to `recovery` like any contradiction. Confirmation versions, which
  are recorded and compared by nothing after, are left out.
* *The confirmed capabilities an intent was chosen on* are `wish.expected`, any
  set, whatever the client claims.

*The tab.*

* *A request is sent, served and received*, and may be lost between any two steps. A
  fetch that fails shows nobody, as in the code. The answer to a sign-in or a sign-out
  is received in two: `ReceiveHeaders` changes the cookie, which the browser does
  before any code of the page runs, and `RefreshAfter` is what `verifyAndRefresh` does
  when `verifyToken` has read and parsed the body. In between, other requests are sent
  with the new cookie and answers to the old one settle. A verification whose body is
  lost or does not parse (`Lose`) has failed for the tab: its cookie stays and no
  refresh follows. `unread` records that this happened and nothing was fetched since;
  no action reads it.
* *What `ShownUserIsCurrent` promises* is therefore limited to a tab that has fetched
  after the latest change of its cookie (`CookieUnfollowed` says when it has not).
  Until then the code does show the former user.
* *A search is its number.* What it found, or which of the errors it met, is told
  apart by nothing but the search it belongs to.

Every module is written to be proved about: constants with named assumptions,
one action per operation, no `RECURSIVE` operator. Some definitions are preceded
by a variant marked *Mutation*: the same definition with a plausible bug, with
which TLC must find the corresponding property violated.

## 3. The runs

| Run | Instance | What it shows |
|---|---|---|
| `requests` | 3 requests (two for one selection, one of a workspace with itself), 3 users, 6 facts that come and go; 8,960 states | exactly the accepted requests have a deal, consent and decider; no duplicate pending request; no decision is undone; a deal is opened by a member of the seller's workspace only, which is then Active and has the capability |
| `terms` | 2 deals (one of them a workspace with itself), 2 racing approvers of one side, 2 drafts in flight, 2 versions; 51,356 states | terms are appended only with authority at that moment; one approval per side and version; none for replaced versions |
| `funding` | 1 deal, 2 calls, 1 draft in flight, 2 versions, 2 prices, a capability that comes and goes; 555,910 states, with fairness | the activation invariant and the properties around it; a deal is activated only with the buyer's authority at that moment; the services implement `DealLifecycle`; every call is answered |
| `deal_listing` | the same with one price, and a member of the seller's workspace, whose membership comes and goes, who lists its deals; 1,538,538 states | a list is for members, an Active deal is listed with Confirmed funding, and Confirmed funding only with the terms that are current |
| `shadowed_success` | 3 calls | *violated*: finding 1 below |
| `superseded_request` | 2 calls | *violated*: finding 2 below |
| `samples` | a confirmed and a legacy sample, 2 uploads, 2 removals, 1 list, at most 3 of these begun in one behaviour, cap 3; 410,657 states | cap, Live rows with their objects, tracked objects, truthful removals; the calls implement `SampleShelf`, so that rows outlive objects and a removal pauses only for the last qualifying sample |
| `last_sample` | the same | *violated*: finding 3 below |
| `unrecorded_orphan` | the same | *violated*: finding 4 below |
| `offerings` | 2 offerings, the page and one other caller, 3 keys, 2 publications, a blank form and two complete ones, at most 2 commands under way, seconds early (below); 1,141,150 states | what is public is complete, public only after a publication, changes only under the contract; one offering per attempt; one transition per key |
| `accounts` | 2 requests at a time, 2 links to 2 identities of one email, 2 accounts, a legacy and a new workspace, 2 sessions of which one ends, 2 intents on one screen; nobody or one of three kinds of legacy relationship at the start; 226,335 states, with fairness | sessions are earned, no false recovery, no union of two choices; the requests implement `PersonalHomes`, so that there is one account per email and one personal workspace for each; every request ends |
| `web_client` | 2 users, 2 auth requests in flight, 4 generations, 3 searches; 1,213,092 states | the user shown is the one of the cookie, once the tab has followed its latest change; results match the latest search |

**Why the bounds are enough.** The hazards of this code are races of two parties
over one deal: two deciders, two approvers, two drafts, two calls, and one
replaced version. A second deal shares no row with the first (every row is keyed
by its deal), so one is enough where calls are counted, and two appear in
`terms` only because one of them is special. Two prices tell a matching from a
mismatching confirmation. Three calls are needed for `shadowed_success` only
(two to build the state, one to retry). The theorems below remove the bounds for
safety. For samples the races are of two uploads for one place, two removals of
one sample or of two, a sweep with either, and a sweep with a sweep: three calls
at once (`MaxBegun`, the state constraint `FewCalls`), which also lets one of them
be the retry of another; the legacy sample separates the cap, which counts it,
from eligibility, which does not. Permuting uploads, or removals, changes no
property.

For the offerings two commands under way (`MaxUnderway`, the constraint
`FewUnderway`) are the page racing itself, the other tab or what it sent before it was
reloaded; the first key repeated, a second one and one of another attempt are three;
a second offering is what a duplicated first save would leave. Two complete contents
tell an update from what it replaces. A second offering and a second publication
matter to first saves and to what precedes an activation, not to the transitions of
one offering, whose rows and keys are its own: `SecondsAreEarly` follows them until
the first sample or transition only. For the accounts, every race is of two requests: two sign-ins of one
email, a sign-in and an intent, two intents. `Budget` is 2 where the code has 5: a
race is lost once at most per contender, so the second attempt is the one that
matters, and the proofs hold for any budget. `Grants` is one Owner row an operator
adds during a request; `Ending` lets one session end; `Wishes` are two choices made
on the same screen. The `Histories` are one of each class of
`classifyPersonalWorkspaceState`: nothing, a workspace to attach (which has another
member), one with two owners, and a pointer without its Owner row. In the tab, four
generations are a sign-in, a sign-out and a refresh after the mount, and three
searches give one superseded by one superseded; both counters bound the run only
(`MaxGeneration`, `MaxSearches`).

`CHECK_DEADLOCK FALSE` is set for the violated runs and for those
whose behaviours end: `samples` when all calls are answered and nothing can be
revoked or paused, `offerings` when its keys, `accounts` when its links and
sessions, and `web_client` when its generations and searches are used up.

**Fairness.** `funding` assumes weak fairness of `Proceed(c)`, what the API
process does for an accepted call, and of `ProviderAnswers(c)`. Node runs every
continuation of a process that stays up (a process that does not is `Lose`, which
is not fair and may happen at any step), and an escrow provider answers or
throws: the code sets no timeout, so a provider that hangs hangs the call, and
the assumption says just that. Drafts, approvals and withdrawals are not fair.
`accounts` assumes weak fairness of `Progress(c)`, the continuation of a request in
a process that stays up, and strong fairness of `LockAndRead(c)`: PostgreSQL queues
those who wait for an advisory lock, so a call that finds it free again and again
gets it. Users, operators, expiry and restarts are not fair.

**Findings.** All are differences between what the documentation says and what
the code does; none breaks the activation invariant of deals.

1. `shadowed_success`. `findCurrentPaymentIntent` takes the deal's intent with
   the latest `createdAt`. The header of `funding.service.ts` (lines 70-77) says
   the intent of the *current* version is read. A call that authorised version 1
   and is slow to create its intent creates it after version 2's; once version 2
   is funded, a retry no longer sees the Confirmed intent and is refused.
2. `superseded_request`. The golden slice says funding cannot be initiated for a
   superseded version (`docs/specs/buildathon-golden-slice.md:217-218`). Phase 1
   reads the version outside any transaction and the provider is asked without
   another look; a redraft in between leads to a hold for replaced terms. Phase
   3 refuses to activate on it.
3. `last_sample`. The milestone specification says that removing the final
   qualifying sample cannot leave an Active offering with zero samples
   (`docs/specs/milestone-2-reconciled-personal-workspace-onboarding.md:467`).
   `removeSample` chooses its path by the status read in its first statement and
   by a count outside the lock. An activation that commits after that read counts
   the sample; the removal then marks it without pausing. Two removals of the
   last two samples, each counting the other's, end the same way. The atomic
   path itself is sound: it pauses for the last sample only (`PausesAreJustified`,
   and `WithdrawLast` of `SampleShelf`).
4. `unrecorded_orphan`. A comment (`audio-sample.service.ts:599-602`) says that
   when the locator cannot be written the retry of the next operation recovers
   the object; the retry works from locators and pending rows, and there is
   neither. `ObjectsAreTracked` states what does hold.

**Met on the way**, without a run of their own: differences between a comment and the
code, and cases that the models reach and no promise of the code excludes.

* *One approval for two.* `deal-list-derivation.ts:72-79` says that funding is not
  applicable until both parties have approved. A deal of a workspace with itself,
  which the schema and the request service allow, is listed as `BothApproved` and
  `AwaitingConfirmation` after one approval, since its one workspace is compared with
  both sides; `fundDeal` counts two approvals and refuses it for ever. Similarly a
  list may show a deal as Negotiating with Confirmed funding: its status was read
  before the activation and its intent after. `ListingIsSound` says that the mixture
  never errs the other way, and that the funding it shows is real.
* *A dropped edit.* `service-offering-client.ts:109-114` says that a new
  idempotency key is generated when the user changes the payload. The editor keeps
  the key of a failed activation, update or reactivation (`edit/page.tsx:1241`, and
  alike at 1357 and 1462) while the form is edited. When the first command was
  committed and its answer lost, the repeated one carries new content under the old
  key: the server converges, and answers success with the old content. In the model
  it is `KeyFor` followed by `Converge`; TLC finds it when asked whether a command
  answered with success has written what it carried.
* *An inherited workspace.* `SessionProvider.tsx` says that sign-out clears the
  committed workspace. `signOutAndRefresh` (379-386) clears the stored id but not
  the provider's own `remembered`, and `clearActingWorkspace` (261), which would, is
  never called: the next user of the tab may act for a workspace they never chose,
  as far as the server lets them. A commit in flight at sign-out stores the id again.
* *A spent link without an answer.* `createUserForIdentity` says it surfaces the
  existing row rather than racing a duplicate insert
  (`prisma-auth-repository.ts:72-74`). It looks first, but two requests may both look
  and one insert then fails on the unique index, which nobody handles, after the
  link was used (`LoseInsert`). `SessionsAreEarned` holds all the same.
* *A sign-in without a session.* `authentication.service.ts:151-154` says that the
  session is always issued. A convergence that spends its budget throws before it
  (`Retry`); the payload's convergence may throw after it.
* *A failed sign-in that signed in.* The comment at `SessionProvider.tsx:367-371` says
  that a failed verification leaves the user untouched, so that the navigation cannot
  drift. The cookie is set with the headers of the answer (`routes/auth.ts:343`); when
  its body is lost or does not parse (`auth-client.ts:146-147`), `verifyAndRefresh`
  throws without a refresh and the tab goes on showing nobody, or the former user,
  while its requests carry the new user's cookie, until something fetches. While the
  body is on its way it is the same for a moment. In the model: `Lose` at `"headers"`.
* *Current terms that are not current.* When the retries of the intent transaction are
  used up, `findOrCreatePaymentIntentInTransaction` answers `TERMS_VERSION_NOT_FOUND`
  (`prisma-funding.repository.ts:261-266`; its comment calls it a way to a safe
  envelope), and the buyer is told that the terms are not current when they are.
  In the model: `IntentRetriesExhausted`.
* *Active under a suspended profile.* `activate` of the service reads the profile
  (`service-offering.service.ts:302-310`); the transaction behind it reads the
  offering's fields and samples again, not the status of the profile, which
  reactivation and update do (`prisma-service-offering.repository.ts:1001`). A
  suspension in between leaves an offering Active under a suspended profile. In the
  model: `CheckProfile`, `Suspend`, `Activate`. `PublicAfterPublication` says what
  remains: the profile was published once. `ChangesUnderContract` speaks of what is
  public already, and there the promise holds in full.
* *A success on a Paused offering.* Activation and reactivation share a table of keys:
  a reactivation that repeats the key of an earlier activation is answered with
  success and the offering as it is, Paused (`prisma-service-offering.repository.ts:917`).
  The page makes separate keys for the two, so it takes a reactivation whose answer was
  lost, a pause by another tab, and the repetition under the kept key. In the model:
  `Converge` of a `Reactivate`. `OneTransitionPerKey` holds: nothing is done twice.
* *A link used up without a session.* The link is used before the account, the
  workspace and the session are written (`authentication.service.ts:157`); any failure
  after it leaves the human to ask for another. In the model: `UseLink`, and then
  `Fail`, `Restart`, `LoseInsert` or a spent `Budget` (`Retry`). That a link works once is the
  adapter's doing: the deterministic one checks and marks without an await; the managed
  one awaits its provider in between (`managed-identity-adapter.ts:482-536`), and that
  it does not confirm a link twice is the provider's promise, taken over by the model.
* `listSamplesForBuyer` (`audio-sample.service.ts:668-671`) says that a sample whose
  object is missing is skipped; it asks the store nothing. `LiveSamplesHaveObjects`
  says when that can matter: only for a row that was committed by an upload answered
  with a failure.

## 4. The proofs

Checked by TLAPS for every value of the constants that satisfies the named
assumptions (`AuthorityAssumption`, `RequestsAssumption`, `TermsAssumption`,
`FundingAssumption`, `SamplesAssumption`, `OfferingsAssumption`,
`EditorAssumption`, `AccountsAssumption`, `BrowserAssumption`, `SearchAssumption`:
types of the parameters, and sentinels distinct from values and rows; those of the accounts
also say that what earlier releases left is consistent with the schema, `Plausible`).

* `ProjectRequests_proofs`: type correctness; `DealIffConsent`, inductive given
  the types, since acceptance writes decision, consent and deal in one step and
  both decisions need a Pending row; `OnePendingPerSelection`; that a decision is
  final, and that a deal is opened only by a member of the seller's workspace while that
  is Active and has the capability, by cases on the transaction.
* `DealTerms_proofs`: type correctness, so every persisted price was validated;
  `ApprovalsAreEvidence`, which needs that versions only grow; and
  `SupersededApprovalsFrozen`, which needs that an approval is recorded for the
  current version only. `TermsStepGrows` says what no step takes back. A
  version is appended with the drafter's authority of that step
  (`DraftsNeedAuthority`): what was read before the AI call is not relied on.
* `Funding_proofs`: the inductive invariant `FundingInv`. `ActivationInvariant`
  is not inductive alone: that the funds are in escrow at activation depends on
  what the call obtained before (`CallsActOnApprovedTerms`); a call that finds a
  Confirmed intent skips the provider, and has funds behind it only because such
  an intent implies an Active deal (`ConfirmedMeansActive`), for which
  `ActivationInvariant` provides them. The three are therefore proved together,
  with the types, the consent invariant and `HeldFundsWereApproved`. From it
  follow `FundedAnswerIsTrue` and the action property `SettledOnceActive`. A deal
  becomes Active only with the buyer's authority in that very step
  (`ActivationNeedsBuyer`): the preauthorisation before the provider's answer counts
  for nothing. What was proved of requests and terms alone is proved again of the
  whole system (`FundingKeeps...`), where activation writes `dealStatus` too.
  The safety half of liveness is here as well. Every step of a `fundDeal` call takes
  it forward in a fixed order of at most nine steps and no step of another moves it
  (`CallsNeverGoBack`); when it is done it has an answer (`CallsEndWithAnswer`).
* `FundingRefinement_proofs`: `Spec => ImplementsLifecycle`. Under `FundingInv`
  the mapped variables are a function of status, terms and approvals; acceptance
  maps to `Open`, a persisted draft to `Propose` (a new version has no approvals,
  by `ApprovalsAreEvidence`), an approval to `Agree`, an activation to
  `FundAndActivate`, everything else to a stutter. The module also proves
  `ListingIsSound`: `ListingInv` says what the statements that have returned have
  fixed. An Active deal's current terms, approvals and Confirmed intent never change
  again (`SettledStep`, `ActiveDeal`), so each later statement returns rows that go
  with the earlier ones.

* `AudioSamples_proofs`: all properties of the run `samples`, by a rely-guarantee
  argument. A step that deletes an object acts on what an earlier step of its
  call read, so no invariant of the shared state alone is inductive. `SamplesInv`
  says of each step what its call knows: that no upload will insert the sample
  any more (`Settled`), that it is moreover not Live (`Doomed`), or that its upload
  has failed (`Failed`). These facts are stable: `KnowledgeLasts` shows that a step
  that `Respects` the others cannot undo them, `RespectKeepsOthers` and
  `RespectKeepsShared` that it then preserves everything known by other calls.
  What is left for each action is a lemma that it respects the others and knows
  what it needs next. Uploads and removals are any sets; only the samples that
  exist at the start are finite, and within the cap.
  The refinement `CallsImplementShelf` rests on the same invariant: a sample is *gone*
  when no call can insert it any more, so "gone stays gone" is `Settled` being stable,
  and bytes are dropped only behind a sample that left, since a call that deletes an
  object knows that it is `Doomed` or has `Failed`. The exception is named in the
  abstract specification: a *stray*, a Live row whose upload was answered with a
  failure after its insert had committed. Two consequences are theorems of their
  own: rows outlive their objects (`RowsLastAsLongAsObjects`), and a removal pauses
  only for the last qualifying sample (`PausesAreJustified`).

* `Offerings_proofs`: all properties of the run `offerings`. `EditorInv` is
  `ServerInv`, that every row, creation and answer is about an offering that exists
  and an activation which passed the service's check follows a publication, together
  with `PageTypeOK` and `PageAnchored`, that a page which shows or edits an offering
  has one. Only the first is about what is stored; the page comes in because its
  commands carry its form and its address. A command is a step of the server or of the
  page (`ServerEndsCalls`); one that outlives its page is the same command of another
  caller (`AbandonKeeps`), and the two action properties follow by cases on the
  step (`StepIsLawful`): what changes is in `Change`, under a guard that is the
  property, and under a key that `Committed` did not find.
* `Accounts_proofs`: all safety properties of the run `accounts`, by
  rely-guarantee once more. `AccountsInv` says of the tables that they agree with
  the schema's unique indexes and of each call that what it has read is `Faithful`:
  an owned workspace is still owned, a pointer that was set is still set, a
  relationship found tangled is still tangled. These facts survive because rows of
  this kind are only added, which is the relation `Grows` (`SoundGrows`,
  `SessionsGrow`); each action is shown to be such a growth (`...Keeps`).
  `EarningsDiffer` and `LocksExclude`, that calls hold different links and that one
  holds the lock, carry `SessionsAreEarned` and `NoSilentUnion`.
  `NoFalseRecovery` is the theorem with the most in it: three statements of
  different moments can be combined into a contradiction only if the rows
  contradict each other when the last one returns (`Classified`).
  The refinement `RequestsImplementHomes` needs more than `AccountsInv`: a step of
  `PersonalHomes` is taken by somebody who is known and signed in, and adopts
  nobody else's home, which the code knows from earlier statements of the request
  only. `HomesInv` adds that the person a sign-in is about is the one its identity
  belongs to (`PersonKnown`), that the user of an intent has had a session
  (`SignedIn`), that a workspace a call is about to attach is the home of no other of
  its owners (`NotTaken`), and that calls of two users never attach the same one
  (`AttachersDiffer`). The call had read that the workspace has one owner, and that
  may be stale when it writes; `NotTaken` holds because an owner added since cannot
  make it their home: their own requests see two owners.
  `RetriesAreBounded` is the safety half of `CallsEnd`: `Rank` counts the steps a
  request may have left, over stages, passes of the retry loop and statements of a
  pass; each step of a call ends it or lowers its rank, a step of another leaves the
  rank alone, and it is never more than `24 * Budget + 71`.
* `WebClient_proofs`: all properties of the run `web_client`, for any number of
  users, sessions and requests. The session needs that a fetch in flight has at most
  the current generation, that one of the current generation was sent with the
  present cookie unless a change of the cookie is still to be followed
  (`CookieUnfollowed`), since following one begins a generation, and that a
  served answer fits the cookie it was sent with (`RequestFits`); the search needs
  that nothing awaited is newer than the counter, and that the latest search was not
  aborted.

Every invariant and action property that a passing run checks, and every refinement,
is a theorem. Only model-checked are the two liveness properties, `CallsAreAnswered`
and `CallsEnd`, since liveness under fairness is out of the prover's reach. Their safety
halves are proved as said; what TLC adds on its instances is that a call which
has not ended can always take its next step, and that the lock is passed on.

## 5. Not modelled, and why

* *HTTP routes and contracts.* Parsing, DTOs, status codes, logging and wording,
  which no property is about. Their schemas (`packages/types`) are the largest file
  of the repository and hold no state.
* *In-memory repositories* are doubles of the Prisma ones, without transactions:
  what makes the models interesting is absent there. *Seeds, inventory and
  migrations* are run by an operator with nothing else running.
* *Matchmaker.* A brief is written once, after the AI call, and never changes;
  requests name it, and read capability and membership again when they do. It is
  in the deal modules as the constants `BriefOwner` and `Surfaced`, and any brief,
  also one whose owner lost the capability during the AI call, is among their
  values. The AI fallback is a choice between two values of that constant.
* *Talent search* is a ranking by weights over words of one read: an algorithm whose
  reference definition would be itself.
* *The other pages and the acting-workspace provider.* The profile editor and the
  deal pages keep neither keys nor generations; of the provider there is only what
  is said above, under *Met on the way*.
* *The rest of the profile.* Its fields decide nothing beyond its status. The
  columns of terms, requests and intents that nothing compares are left out alike.
  The release of a hold is not modelled because the code has none.

## 6. Where to go on

The components above are complete as far as state changes go. What would add most:
a composition of `Offerings` with `AudioSamples`, in which `eligible` is a count of
rows (today each over-approximates the other: samples come and go at any time in
the one, activations in the other), and of `Accounts` with `Authority`, once the
code has an operation that takes a membership away.
