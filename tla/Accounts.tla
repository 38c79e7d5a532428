------------------------------ MODULE Accounts ------------------------------
(* Sign-in, the personal workspace every account converges on, and the      *)
(* capabilities its owner chooses for it (authentication.service.ts,        *)
(* personal-workspace-convergence.service.ts, intent.service.ts over        *)
(* prisma-auth-repository.ts).                                              *)
(*                                                                          *)
(* A request is a call that takes one step for each database statement that *)
(* stands outside a transaction, and one for each transaction.  The state   *)
(* of a workspace relationship is read in three statements, so calls see    *)
(* mixtures of what others write in between.                                *)
(* All workspaces here are Active and of type Personal.                     *)
EXTENDS Naturals

CONSTANTS
    Users,            \* UserAccount ids
    Identities,       \* the pairs of a provider and a subject
    Emails,
    EmailOf,          \* the email an identity proves
    Links,            \* magic links
    IdentityOf,       \* the identity a link was sent to
    Workspaces,       \* Workspace ids
    Legacy,           \* the workspaces that exist at the start
    Sessions,         \* AuthSession ids
    Ending,           \* the sessions that may end
    Calls,            \* the requests that may be in flight at once
    Wishes,           \* [chosen, expected], what an intent command carries
    Histories,        \* [accounts, role, pointer], what earlier releases left
    Grants,           \* the Owner rows that operators may add: <<account, workspace>>
    Budget,           \* SERVICE_RETRY_BUDGET
    None

Roles   == {"None", "Member", "Owner"}
Abilities == {"Buyer", "Seller"}
Account == [user : Users, email : Emails]
Wish    == [chosen : (SUBSET Abilities) \ {{}}, expected : SUBSET Abilities]

Session == [user : Users, link : Links, live : BOOLEAN]

(* What earlier releases may have left: users and emails are unique, and    *)
(* relationships lead to workspaces that exist.                             *)
Plausible(past) ==
    /\ \A a, b \in past.accounts : a.email = b.email \/ a.user = b.user => a = b
    /\ \A u \in Users : past.pointer[u] \in Legacy \cup {None}
    /\ \A u \in Users, w \in Workspaces : past.role[u][w] = "Owner" => w \in Legacy

ASSUME AccountsAssumption ==
    /\ EmailOf \in [Identities -> Emails] /\ IdentityOf \in [Links -> Identities]
    /\ Legacy \subseteq Workspaces /\ Wishes \subseteq Wish
    /\ Histories \subseteq [accounts : SUBSET Account, role : [Users -> [Workspaces -> Roles]],
                            pointer : [Users -> Workspaces \cup {None}]]
    /\ \A past \in Histories : Plausible(past)
    /\ Budget \in Nat \ {0} /\ Ending \subseteq Sessions
    /\ None \notin Users \cup Workspaces \cup Links \cup Session

VARIABLES
    accounts,       \* user_accounts, id and email
    mapping,        \* identity_providers: the account of an identity
    pointer,        \* user_accounts.personalWorkspaceId
    role,           \* workspace_memberships
    created,        \* the workspaces that convergence made
    capabilities,   \* workspace_capabilities
    link,           \* what became of each magic link
    session,        \* auth_sessions
    call            \* the requests in flight

people == <<accounts, mapping>>
places == <<pointer, role, created>>
vars   == <<people, places, capabilities, link, session, call>>

Idle == [step |-> "idle"]
Kind == {"converged", "recovery", "none", "attachable"}
Request ==
    [op : {"verify", "me", "intent"},
     step : {"identify", "insert", "pointer", "owned", "owners", "create", "attach", "session",
             "lock", "write", "done"},
     link : Links \cup {None},
     user : Users \cup {None},
     stage : {"converge", "setup", "final"},      \* of a verify: where it classifies
     loop : {"none", "create", "attach"},         \* the retry loop it is in
     tries : 0..Budget,
     ptr : Workspaces \cup {None},                \* what the first statement read
     owned : SUBSET Workspaces,                   \* what the second statement read
     target : Workspaces \cup {None},
     wish : Wishes \cup {None},
     seen : SUBSET Abilities,                     \* the capabilities read under the lock
     answer : {"none", "converged", "recovery"}]

AccountsTypeOK ==
    /\ accounts \subseteq Account
    /\ mapping \in [Identities -> Users \cup {None}]
    /\ pointer \in [Users -> Workspaces \cup {None}]
    /\ role \in [Users -> [Workspaces -> Roles]]
    /\ created \subseteq Workspaces \ Legacy
    /\ capabilities \in [Workspaces -> SUBSET Abilities]
    /\ link \in [Links -> {"unsent", "pending", "gone"}]
    /\ session \in [Sessions -> Session \cup {None}]
    /\ call \in [Calls -> Request \cup {Idle}]

Init ==
    /\ \E past \in Histories :
          accounts = past.accounts /\ role = past.role /\ pointer = past.pointer
    /\ mapping = [i \in Identities |-> None]
    /\ created = {}
    /\ capabilities = [w \in Workspaces |-> {}]
    /\ link = [l \in Links |-> "unsent"]
    /\ session = [s \in Sessions |-> None]
    /\ call = [c \in Calls |-> Idle]
-----------------------------------------------------------------------------
(* The links live in the memory of the process that sent them.              *)
RequestSignIn(l) ==
    /\ link[l] = "unsent"
    /\ link' = [link EXCEPT ![l] = "pending"]
    /\ UNCHANGED <<people, places, capabilities, session, call>>

ExpireLink(l) ==
    /\ link[l] = "pending"
    /\ link' = [link EXCEPT ![l] = "gone"]
    /\ UNCHANGED <<people, places, capabilities, session, call>>

(* Sign-out, or the end of a session's 24 hours.                            *)
EndSession(s) ==
    /\ s \in Ending
    /\ session[s] # None /\ session[s].live
    /\ session' = [session EXCEPT ![s].live = FALSE]
    /\ UNCHANGED <<people, places, capabilities, link, call>>

(* An operator or a seed makes an account the owner of one more workspace.  *)
(* (Repairing an account whose pointer lacks its Owner row is left out.)    *)
GrantOwner(u, w) ==
    /\ <<u, w>> \in Grants /\ \E a \in accounts : a.user = u
    /\ w \in Legacy \cup created /\ role[u][w] # "Owner" /\ pointer[u] # w
    /\ role' = [role EXCEPT ![u][w] = "Owner"]
    /\ UNCHANGED <<people, pointer, created, capabilities, link, session, call>>

(* The process ends: the links it sent and the requests it served are lost. *)
Restart ==
    /\ link' = [l \in Links |-> IF link[l] = "pending" THEN "gone" ELSE link[l]]
    /\ call' = [c \in Calls |-> Idle]
    /\ UNCHANGED <<people, places, capabilities, session>>
-----------------------------------------------------------------------------
(* A step that changes nothing but the call.                                *)
Quiet == UNCHANGED <<people, places, capabilities, link, session>>

At(c, s)     == call[c].step = s
Set(c, next) == call' = [call EXCEPT ![c] = next]
Begin(c, op, l, u, w, wish, s) ==
    /\ call[c] = Idle
    /\ Set(c, [op |-> op, step |-> s, link |-> l, user |-> u, stage |-> "converge",
               loop |-> "none", tries |-> 0, ptr |-> None, owned |-> {}, target |-> w,
               wish |-> wish, seen |-> {}, answer |-> "none"])
Told(c)          == [call[c] EXCEPT !.ptr = None, !.owned = {}]  \* the reads are used up
Go(c, s)         == Set(c, [Told(c) EXCEPT !.step = s])
Answer(c, value) ==
    Set(c, [Told(c) EXCEPT !.step = "done", !.answer = value, !.stage = "converge",
                           !.link = None, !.target = None, !.wish = None, !.seen = {}])
End(c)           == Set(c, Idle)

(* The error of a database or a provider, a refusal, or the client is gone. *)
Fail(c) ==
    /\ call[c] # Idle /\ ~At(c, "done")
    /\ End(c)
    /\ Quiet

Deliver(c) ==
    /\ At(c, "done")
    /\ End(c)
    /\ Quiet
-----------------------------------------------------------------------------
(* Mutation: a link is marked as used by the caller, and not at once.       *)
KeepLink(l) == link[l] = "pending" /\ UNCHANGED link

(* A link works once. The deterministic adapter looks it up and marks it as *)
(* used without an await in between; the managed adapter awaits Supabase    *)
(* between the two, which refuses a token that was exchanged before: there  *)
(* the single use is the provider's.                                        *)
UseLink(l) == link[l] = "pending" /\ link' = [link EXCEPT ![l] = "gone"]

Verify(c, l) ==
    /\ UseLink(l)
    /\ Begin(c, "verify", l, None, None, None, "identify")
    /\ UNCHANGED <<people, places, capabilities, session>>

(* A session answers for its user while it is neither revoked nor expired.  *)
Me(c, s) ==
    /\ session[s] # None /\ session[s].live
    /\ Begin(c, "me", None, session[s].user, None, None, "pointer")
    /\ Quiet

SubmitIntent(c, s, w, wish) ==
    /\ w \in Legacy \cup created
    /\ session[s] # None /\ session[s].live
    /\ Begin(c, "intent", None, session[s].user, w, wish, "pointer")
    /\ Quiet

(* The id a database gives to a new row; ids are interchangeable.           *)
Fresh(ids) == IF ids = {} THEN {} ELSE {CHOOSE x \in ids : TRUE}

Identity(c) == IdentityOf[call[c].link]
Email(c)    == EmailOf[Identity(c)]

Known(c, u) == Set(c, [call[c] EXCEPT !.user = u, !.step = "pointer"])

(* resolveOrCreateUser: the mapping, else the account of the email, if any. *)
FindIdentity(c) ==
    /\ At(c, "identify")
    /\ LET matching == {a.user : a \in {b \in accounts : b.email = Email(c)}} IN
       \/ mapping[Identity(c)] # None /\ Known(c, mapping[Identity(c)])
       \/ /\ mapping[Identity(c)] = None /\ matching = {}
          /\ Go(c, "insert")
       \/ /\ mapping[Identity(c)] = None
          /\ \E u \in matching : Set(c, [call[c] EXCEPT !.step = "insert", !.user = u])
    /\ Quiet

(* The account if there was none, and the mapping, in one transaction.  The *)
(* unique indexes on the identity and on the email let one of two racing    *)
(* inserts through.                                                         *)
InsertFits(c) ==
    /\ mapping[Identity(c)] = None
    /\ call[c].user # None \/ \A a \in accounts : a.email # Email(c)

InsertIdentity(c) ==
    /\ At(c, "insert") /\ InsertFits(c)
    /\ \E u \in IF call[c].user # None THEN {call[c].user}
                ELSE Fresh({v \in Users : \A a \in accounts : a.user # v}) :
          /\ accounts' = IF call[c].user # None THEN accounts
                         ELSE accounts \cup {[user |-> u, email |-> Email(c)]}
          /\ mapping' = [mapping EXCEPT ![Identity(c)] = u]
          /\ Known(c, u)
    /\ UNCHANGED <<places, capabilities, link, session>>

(* The other one ends in an error, after its link is spent.                 *)
LoseInsert(c) ==
    /\ At(c, "insert") /\ ~InsertFits(c)
    /\ End(c)
    /\ Quiet

CreateSession(c) ==
    /\ At(c, "session")
    /\ \E s \in Fresh({x \in Sessions : session[x] = None}) :
          session' = [session EXCEPT ![s] =
                [user |-> call[c].user, link |-> call[c].link, live |-> TRUE]]
    /\ Set(c, [call[c] EXCEPT !.step = "pointer", !.stage = "setup"])
    /\ UNCHANGED <<people, places, capabilities, link>>
-----------------------------------------------------------------------------
(* findPersonalWorkspaceState, statement by statement: the account's        *)
(* pointer, its Owner memberships, and the other owners of those.           *)
OwnedBy(u) == {w \in Workspaces : role[u][w] = "Owner"}

ReadPointer(c) ==
    /\ At(c, "pointer")
    /\ Set(c, [call[c] EXCEPT !.ptr = pointer[call[c].user], !.step = "owned"])
    /\ Quiet

ReadOwned(c) ==
    /\ At(c, "owned")
    /\ Set(c, [call[c] EXCEPT !.owned = OwnedBy(call[c].user), !.step = "owners"])
    /\ Quiet

(* Mutation: every member of a workspace counts as one of its owners.       *)
SharedByMember(w, u) == \E v \in Users \ {u} : role[v][w] # "None"

Shared(w, u) == \E v \in Users \ {u} : role[v][w] = "Owner"

(* classifyPersonalWorkspaceState, over what the statements returned.       *)
Contradictory(ptr, owned, u) ==
    \/ \E v, w \in owned : v # w
    \/ \E w \in owned : Shared(w, u)
    \/ ptr # None /\ ptr \notin owned
Classify(c) ==
    LET r == call[c] IN
    CASE Contradictory(r.ptr, r.owned, r.user) -> "recovery"
      [] ~Contradictory(r.ptr, r.owned, r.user) /\ r.ptr # None -> "converged"
      [] r.owned = {} /\ r.ptr = None -> "none"
      [] OTHER -> "attachable"
-----------------------------------------------------------------------------
(* What a request does with the classification.                             *)
(* A convergence that returns: the session is issued next or, when the      *)
(* payload is being resolved, the state is classified for the last time.    *)
Return(c) ==
    Set(c, IF call[c].stage = "converge"
           THEN [Told(c) EXCEPT !.step = "session", !.loop = "none", !.tries = 0]
           ELSE [Told(c) EXCEPT !.step = "pointer", !.loop = "none", !.tries = 0,
                                !.stage = "final"])

(* Mutation: the loop asks again for as long as it loses.                   *)
NeverSpent(c) == FALSE

Spent(c) == call[c].tries = Budget

Retry(c) ==
    \/ Spent(c) /\ End(c)
    \/ ~Spent(c) /\ Go(c, call[c].loop)

(* The stages of a sign-in: converge, issue the session, settle what the    *)
(* payload says, and classify once more when that took another convergence. *)
OfVerify(c, kind) ==
    IF kind \in {"converged", "recovery"}
    THEN IF call[c].stage = "converge" THEN Go(c, "session") ELSE Answer(c, kind)
    ELSE IF call[c].stage = "final" THEN End(c)
    ELSE LET next == IF kind = "none" THEN "create" ELSE "attach" IN
         Set(c, [Told(c) EXCEPT !.loop = next, !.step = next,
                                !.target = IF kind = "none" THEN None
                                           ELSE CHOOSE w \in call[c].owned : TRUE])

OfCreate(c, kind) == IF kind = "converged" THEN Return(c) ELSE Retry(c)
OfAttach(c, kind) == IF kind # "attachable" THEN Return(c) ELSE Retry(c)

(* GET /api/auth/me is read-only and shows what is not settled as recovery. *)
OfMe(c, kind) == Answer(c, IF kind = "converged" THEN kind ELSE "recovery")

(* An intent may only aim at the workspace that is the user's own and that  *)
(* the user is still a member of (memberships are never removed here).      *)
OfIntent(c, kind) ==
    LET canonical == CASE kind = "converged"  -> {call[c].ptr}
                       [] kind = "attachable" -> call[c].owned
                       [] OTHER               -> {} IN
    IF call[c].target \in canonical /\ role[call[c].user][call[c].target] # "None"
    THEN Go(c, "lock") ELSE End(c)

Continue(c, kind) ==
    CASE call[c].op = "me"       -> OfMe(c, kind)
      [] call[c].op = "intent"   -> OfIntent(c, kind)
      [] call[c].loop = "create" -> OfCreate(c, kind)
      [] call[c].loop = "attach" -> OfAttach(c, kind)
      [] OTHER                   -> OfVerify(c, kind)

ReadOwners(c) ==
    /\ At(c, "owners")
    /\ Continue(c, Classify(c))
    /\ Quiet

(* Mutation: a lost attempt is not counted.                                 *)
LostForFree(c) == Set(c, [call[c] EXCEPT !.step = "pointer"])

Lost(c) == Set(c, [call[c] EXCEPT !.step = "pointer", !.tries = @ + 1])

(* Mutation: the pointer is written whatever it holds.                      *)
AnyPointer(u) == TRUE

(* The compare-and-set on personalWorkspaceId; losing it rolls back.        *)
PointerFree(u) == pointer[u] = None

(* The workspace, its Owner row and the pointer, in one transaction.        *)
Create(c) ==
    /\ At(c, "create")
    /\ LET u == call[c].user IN
       \/ /\ PointerFree(u)
          /\ \E w \in Fresh(Workspaces \ (Legacy \cup created)) :
                /\ created' = created \cup {w}
                /\ role' = [role EXCEPT ![u][w] = "Owner"]
                /\ pointer' = [pointer EXCEPT ![u] = w]
          /\ Return(c)
       \/ ~PointerFree(u) /\ Lost(c) /\ UNCHANGED places
    /\ UNCHANGED <<people, capabilities, link, session>>

Attach(c) ==
    /\ At(c, "attach")
    /\ LET u == call[c].user IN
       \/ /\ PointerFree(u)
          /\ pointer' = [pointer EXCEPT ![u] = call[c].target]
          /\ Return(c)
       \/ ~PointerFree(u) /\ Lost(c) /\ UNCHANGED pointer
    /\ UNCHANGED <<people, role, created, capabilities, link, session>>
-----------------------------------------------------------------------------
(* Mutation: the decision is made outside of the advisory lock.             *)
Unlocked(w) == TRUE

LockFree(w) == \A d \in Calls : ~(At(d, "write") /\ call[d].target = w)

LockAndRead(c) ==
    /\ At(c, "lock") /\ LockFree(call[c].target)
    /\ Set(c, [call[c] EXCEPT !.step = "write", !.seen = capabilities[call[c].target]])
    /\ Quiet

(* deriveIntentTransition, the inserts and the commit that frees the lock:  *)
(* granted without a write, granted with one, or a conflict.                *)
Write(c) ==
    /\ At(c, "write")
    /\ LET r == call[c] IN
       \/ /\ ~(r.wish.chosen \subseteq r.seen) /\ r.seen = r.wish.expected
          /\ capabilities' = [capabilities EXCEPT ![r.target] = @ \cup r.wish.chosen]
       \/ /\ r.wish.chosen \subseteq r.seen \/ r.seen # r.wish.expected
          /\ UNCHANGED capabilities
    /\ End(c)
    /\ UNCHANGED <<people, places, link, session>>
-----------------------------------------------------------------------------
(* What the server does of itself once a call is in flight.                 *)
Progress(c) ==
    \/ FindIdentity(c) \/ InsertIdentity(c) \/ LoseInsert(c) \/ CreateSession(c)
    \/ ReadPointer(c) \/ ReadOwned(c) \/ ReadOwners(c) \/ Create(c) \/ Attach(c)
    \/ LockAndRead(c) \/ Write(c) \/ Deliver(c)

Next ==
    \/ \E l \in Links : RequestSignIn(l) \/ ExpireLink(l)
    \/ \E s \in Sessions : EndSession(s)
    \/ \E u \in Users, w \in Workspaces : GrantOwner(u, w)
    \/ Restart
    \/ \E c \in Calls :
          \/ \E l \in Links : Verify(c, l)
          \/ \E s \in Sessions : Me(c, s)
          \/ \E s \in Sessions, w \in Workspaces, wish \in Wishes : SubmitIntent(c, s, w, wish)
          \/ Fail(c) \/ Progress(c)

Spec == Init /\ [][Next]_vars

(* PostgreSQL queues those who wait for an advisory lock, so a call that    *)
(* finds it free again and again takes it.                                  *)
FairSpec == Spec /\ \A c \in Calls : WF_vars(Progress(c)) /\ SF_vars(LockAndRead(c))
-----------------------------------------------------------------------------
(* A link is worth one session: no two sessions stem from the same link,    *)
(* and those of links to the same email belong to the same account, however *)
(* the requests that verified them raced.                                   *)
SessionsAreEarned ==
    \A s, t \in {x \in Sessions : session[x] # None} :
       /\ s # t => session[s].link # session[t].link
       /\ EmailOf[IdentityOf[session[s].link]] = EmailOf[IdentityOf[session[t].link]]
             => session[s].user = session[t].user

(* Every workspace that convergence made is the personal workspace of       *)
(* exactly one account, which owns it: a lost race leaves nothing behind.   *)
OnePersonalWorkspace ==
    \A w \in created :
       \E u \in Users :
          /\ pointer[u] = w /\ role[u][w] = "Owner"
          /\ \A v \in Users : pointer[v] = w => v = u

(* A request that answers "recovery", although its statements saw mixtures  *)
(* of states, answers for an account whose relationships are contradictory. *)
TrulyContradictory(u) ==
    \/ \E v, w \in OwnedBy(u) : v # w
    \/ \E v \in Users \ {u} : OwnedBy(u) \cap OwnedBy(v) # {}
    \/ pointer[u] # None /\ pointer[u] \notin OwnedBy(u)
NoFalseRecovery ==
    \A c \in Calls : call[c] # Idle /\ call[c].answer = "recovery" =>
       TrulyContradictory(call[c].user)

(* Capabilities change by one intent at a time, from the very set that its  *)
(* user had on the screen, and only on that user's personal workspace: two  *)
(* choices made from the same screen never add up.                          *)
WrittenAsExpected(c, w) ==
    /\ At(c, "write") /\ call[c].target = w
    /\ call[c].wish.expected = capabilities[w] /\ pointer[call[c].user] = w
    /\ capabilities'[w] = capabilities[w] \cup call[c].wish.chosen
NoSilentUnion ==
    [][\A w \in Workspaces : capabilities'[w] # capabilities[w] =>
          \E c \in Calls : WrittenAsExpected(c, w)]_vars

(* Every request ends: races are retried a bounded number of times and the  *)
(* lock is passed on.                                                       *)
CallsEnd == \A c \in Calls : call[c] # Idle ~> call[c] = Idle
-----------------------------------------------------------------------------
(* The tables seen as the people and homes they stand for.  Whatever the    *)
(* requests read, and however their statements interleave, what they write  *)
(* is what one decision at that moment would have been.                     *)
Homes == INSTANCE PersonalHomes WITH
    home  <- pointer,
    owned <- [u \in Users |-> OwnedBy(u)]

ImplementsHomes == Homes!HomesSpec
=============================================================================
