-------------------------- MODULE Accounts_proofs --------------------------
(* Proofs about sign-in, convergence and intents, for every number of       *)
(* accounts, links, calls and workspaces, every past and every way in which *)
(* the statements of concurrent requests interleave.                        *)
(*                                                                          *)
(* AccountsInv is the inductive invariant.  The properties of the runs need *)
(* to know what a call still knows although the tables moved on since its   *)
(* statements (Faithful): the tables only ever grow in what a call relies   *)
(* on (Grows), so what it read stays true, and what it concludes from three *)
(* statements of different moments holds at the last of them.               *)
EXTENDS Accounts, TLAPS

(* Who has a session converged, or could not.                               *)
Settled(u) == pointer[u] # None \/ TrulyContradictory(u)

Tangled(owned, u) ==
    \/ \E v, w \in owned : v # w
    \/ \E w \in owned : Shared(w, u)

Verifying(r) == r.op = "verify" /\ r.step # "done"
Mail(r)      == EmailOf[IdentityOf[r.link]]

(* What the control flow of a call ensures, whatever the tables hold.       *)
WellFormed(r) ==
    /\ Verifying(r) => r.link \in Links
    /\ r.step \in {"identify", "insert"} =>
          r.op = "verify" /\ r.stage = "converge" /\ r.loop = "none"
          /\ r.ptr = None /\ r.owned = {}
    /\ r.step \notin {"identify", "insert"} => r.user \in Users
    /\ r.op # "verify" =>
          r.loop = "none" /\ r.step \in {"pointer", "owned", "owners", "lock", "write", "done"}
    /\ r.step \in {"lock", "write"} => r.op = "intent"
    /\ r.loop = "none" => r.tries = 0
    /\ r.step = "create" => r.loop = "create" /\ r.tries < Budget
    /\ r.step = "attach" => r.loop = "attach" /\ r.tries < Budget
    /\ r.step = "session" => r.op = "verify" /\ r.stage = "converge" /\ r.loop = "none"
    /\ r.op = "intent" /\ r.step # "done" => r.wish \in Wishes /\ r.target \in Workspaces
    /\ r.step # "done" => r.answer = "none"

(* What a call knows of the tables.                                         *)
Faithful(r) ==
    /\ Verifying(r) => link[r.link] = "gone"
    /\ Verifying(r) /\ r.user # None => [user |-> r.user, email |-> Mail(r)] \in accounts
    /\ r.ptr # None => pointer[r.user] = r.ptr
    /\ \A w \in r.owned : role[r.user][w] = "Owner"
    /\ r.step = "owners" /\ r.ptr # None /\ r.ptr \notin r.owned =>
          role[r.user][r.ptr] # "Owner"
    /\ r.loop = "attach" =>
          /\ r.target \in Workspaces /\ role[r.user][r.target] = "Owner"
          /\ r.target \in Legacy \/ pointer[r.user] # None
          /\ r.step = "owners" => r.target \in r.owned
    /\ r.op # "verify" /\ r.step # "done" => Settled(r.user)
    /\ r.op # "verify" /\ r.step = "owned" /\ r.ptr = None =>
          Tangled(OwnedBy(r.user), r.user)
    /\ r.op # "verify" /\ r.step = "owners" /\ r.ptr = None => Tangled(r.owned, r.user)
    /\ r.step = "session" => Settled(r.user)
    /\ r.answer = "recovery" => TrulyContradictory(r.user)
    /\ r.step \in {"lock", "write"} => pointer[r.user] = r.target

Sound(r) == r # Idle => WellFormed(r) /\ Faithful(r)

(* A sign-in that has not issued its session yet.                           *)
Earning(r) == r # Idle /\ Verifying(r) /\ r.stage = "converge"

EarningsDiffer ==
    \A c \in Calls : Earning(call[c]) =>
        /\ \A s \in Sessions : session[s] # None => session[s].link # call[c].link
        /\ \A d \in Calls : d # c /\ Earning(call[d]) => call[d].link # call[c].link

LocksExclude ==
    \A c \in Calls : At(c, "write") =>
        /\ call[c].seen = capabilities[call[c].target]
        /\ \A d \in Calls : d # c /\ At(d, "write") => call[d].target # call[c].target

TablesTypeOK ==
    /\ accounts \subseteq Account
    /\ mapping \in [Identities -> Users \cup {None}]
    /\ pointer \in [Users -> Workspaces \cup {None}]
    /\ role \in [Users -> [Workspaces -> Roles]]
    /\ created \subseteq Workspaces \ Legacy
    /\ link \in [Links -> {"unsent", "pending", "gone"}]

PeopleInv ==
    /\ \A a, b \in accounts : a.email = b.email \/ a.user = b.user => a = b
    /\ \A i \in Identities : mapping[i] # None =>
          [user |-> mapping[i], email |-> EmailOf[i]] \in accounts

PlacesInv ==
    /\ \A u \in Users : pointer[u] \in Legacy \cup created \cup {None}
    /\ \A u \in Users, w \in Workspaces : role[u][w] = "Owner" => w \in Legacy \cup created

SessionInv ==
    /\ session \in [Sessions -> Session \cup {None}]
    /\ \A s \in Sessions : session[s] # None =>
          /\ link[session[s].link] = "gone"
          /\ [user |-> session[s].user, email |-> Mail(session[s])] \in accounts
          /\ Settled(session[s].user)
    /\ \A s, t \in Sessions : session[s] # None /\ session[t] # None /\ s # t =>
          session[s].link # session[t].link

Tables == TablesTypeOK /\ PeopleInv /\ PlacesInv /\ OnePersonalWorkspace

AccountsInv ==
    /\ Tables
    /\ SessionInv
    /\ capabilities \in [Workspaces -> SUBSET Abilities]
    /\ call \in [Calls -> Request \cup {Idle}]
    /\ \A c \in Calls : Sound(call[c])
    /\ EarningsDiffer
    /\ LocksExclude
-----------------------------------------------------------------------------
LEMMA FreshIsOne == ASSUME NEW ids, NEW x \in Fresh(ids) PROVE x \in ids
  BY DEF Fresh

LEMMA InitInv == Init => AccountsInv
  <1> SUFFICES ASSUME Init PROVE AccountsInv
    OBVIOUS
  <1>1. PICK past \in Histories :
           accounts = past.accounts /\ role = past.role /\ pointer = past.pointer
    BY DEF Init
  <1>2. /\ past.accounts \subseteq Account /\ past.role \in [Users -> [Workspaces -> Roles]]
        /\ past.pointer \in [Users -> Workspaces \cup {None}] /\ Plausible(past)
    BY <1>1, AccountsAssumption
  <1>3. Tables
    BY <1>1, <1>2, AccountsAssumption
       DEF Tables, TablesTypeOK, PeopleInv, PlacesInv, OnePersonalWorkspace, Plausible, Init
  <1>4. SessionInv
    BY DEF SessionInv, Init
  <1>5. capabilities \in [Workspaces -> SUBSET Abilities]
    BY DEF Init
  <1>6. \A c \in Calls : call[c] = Idle
    BY DEF Init
  <1>7. call \in [Calls -> Request \cup {Idle}]
    BY DEF Init
  <1>8. EarningsDiffer /\ LocksExclude
    BY <1>6 DEF EarningsDiffer, Earning, LocksExclude, At, Idle
  <1> QED BY <1>3, <1>4, <1>5, <1>6, <1>7, <1>8 DEF AccountsInv, Sound
-----------------------------------------------------------------------------
(* What a step may do to the tables: accounts and Owner rows are added,     *)
(* pointers are set once, a spent link stays spent.                         *)
Grows ==
    /\ accounts \subseteq accounts'
    /\ \A u \in Users : pointer[u] # None => pointer'[u] = pointer[u]
    /\ \A u \in Users, w \in Workspaces : role[u][w] = "Owner" => role'[u][w] = "Owner"
    /\ \A u \in Users : pointer[u] # None /\ role[u][pointer[u]] # "Owner" =>
                           role'[u][pointer[u]] # "Owner"
    /\ \A l \in Links : link[l] = "gone" => link'[l] = "gone"

LEMMA TangledGrows ==
    ASSUME Grows, NEW u \in Users, NEW S \in SUBSET Workspaces, NEW T \in SUBSET Workspaces,
           S \subseteq T, Tangled(S, u)
    PROVE  Tangled(T, u)'
  BY DEF Grows, Tangled, Shared

LEMMA SettledGrows ==
    ASSUME Grows, TablesTypeOK, TablesTypeOK', NEW u \in Users
    PROVE  /\ Settled(u) => Settled(u)'
           /\ TrulyContradictory(u) => TrulyContradictory(u)'
  <1>1. OwnedBy(u) \subseteq OwnedBy(u)' /\ \A v \in Users : OwnedBy(v) \subseteq OwnedBy(v)'
    BY DEF Grows, OwnedBy
  <1>2. ASSUME TrulyContradictory(u) PROVE TrulyContradictory(u)'
    <2>1. CASE \E v, w \in OwnedBy(u) : v # w
      BY <1>1, <2>1 DEF TrulyContradictory
    <2>2. CASE \E v \in Users \ {u} : OwnedBy(u) \cap OwnedBy(v) # {}
      BY <1>1, <2>2 DEF TrulyContradictory
    <2>3. CASE pointer[u] # None /\ pointer[u] \notin OwnedBy(u)
      <3>1. pointer[u] \in Workspaces /\ role[u][pointer[u]] # "Owner"
        BY <2>3 DEF TablesTypeOK, OwnedBy
      <3>2. pointer'[u] = pointer[u] /\ role'[u][pointer[u]] # "Owner"
        BY <2>3, <3>1 DEF Grows
      <3> QED BY <2>3, <3>2 DEF TrulyContradictory, OwnedBy
    <2> QED BY <1>2, <2>1, <2>2, <2>3 DEF TrulyContradictory
  <1>3. pointer[u] # None => pointer'[u] # None
    BY DEF Grows
  <1> QED BY <1>2, <1>3 DEF Settled

(* So a call that stays as it is keeps what it knows.                       *)
LEMMA SoundGrows ==
    ASSUME Grows, TablesTypeOK, TablesTypeOK', NEW r \in Request \cup {Idle}, Sound(r)
    PROVE  Sound(r)'
  <1> SUFFICES ASSUME r # Idle PROVE WellFormed(r)' /\ Faithful(r)'
    BY DEF Sound
  <1>1. r \in Request /\ WellFormed(r) /\ Faithful(r)
    BY DEF Sound
  <1>2. WellFormed(r)'
    BY <1>1 DEF WellFormed, Verifying
  <1>3. CASE r.step \in {"identify", "insert"}
    <2>1. r.op = "verify" /\ r.ptr = None /\ r.owned = {} /\ r.loop = "none"
          /\ r.answer = "none" /\ r.link \in Links
      BY <1>1, <1>3 DEF WellFormed, Verifying
    <2> QED BY <1>1, <1>2, <1>3, <2>1 DEF Faithful, Verifying, Mail, Grows
  <1>4. CASE r.step \notin {"identify", "insert"}
    <2>1. /\ r.user \in Users /\ r.ptr \in Workspaces \cup {None} /\ r.owned \subseteq Workspaces
          /\ (Verifying(r) => r.link \in Links)
      BY <1>1, <1>4 DEF WellFormed, Request
    <2>2. /\ Verifying(r) => link'[r.link] = "gone"
          /\ Verifying(r) /\ r.user # None => [user |-> r.user, email |-> Mail(r)] \in accounts'
      BY <1>1, <2>1 DEF Faithful, Grows
    <2>3. /\ r.ptr # None => pointer'[r.user] = r.ptr
          /\ \A w \in r.owned : role'[r.user][w] = "Owner"
          /\ r.step = "owners" /\ r.ptr # None /\ r.ptr \notin r.owned =>
                role'[r.user][r.ptr] # "Owner"
      BY <1>1, <2>1 DEF Faithful, Grows
    <2>4. r.loop = "attach" =>
             /\ r.target \in Workspaces /\ role'[r.user][r.target] = "Owner"
             /\ r.target \in Legacy \/ pointer'[r.user] # None
             /\ r.step = "owners" => r.target \in r.owned
      BY <1>1, <2>1 DEF Faithful, Grows
    <2>5. /\ r.op # "verify" /\ r.step # "done" => Settled(r.user)'
          /\ r.step = "session" => Settled(r.user)'
          /\ r.answer = "recovery" => TrulyContradictory(r.user)'
      BY <1>1, <2>1, SettledGrows DEF Faithful
    <2>6. r.op # "verify" /\ r.step = "owners" /\ r.ptr = None => Tangled(r.owned, r.user)'
      BY <1>1, <2>1, TangledGrows DEF Faithful
    <2>7. ASSUME r.op # "verify", r.step = "owned", r.ptr = None
          PROVE  Tangled(OwnedBy(r.user), r.user)'
      <3>1. Tangled(OwnedBy(r.user), r.user)
        BY <1>1, <2>7 DEF Faithful
      <3>2. \A w \in OwnedBy(r.user) : w \in OwnedBy(r.user)'
        BY <2>1 DEF Grows, OwnedBy
      <3> QED BY <2>1, <3>1, <3>2 DEF Tangled, Shared, Grows, OwnedBy
    <2>8. r.step \in {"lock", "write"} => pointer'[r.user] = r.target
      <3>1. r.step \in {"lock", "write"} => r.target \in Workspaces /\ pointer[r.user] = r.target
        BY <1>1 DEF WellFormed, Faithful
      <3> QED BY <2>1, <3>1, AccountsAssumption DEF Grows
    <2> QED BY <1>2, <2>2, <2>3, <2>4, <2>5, <2>6, <2>7, <2>8 DEF Faithful
  <1> QED BY <1>3, <1>4
-----------------------------------------------------------------------------
(* The tables of sessions and calls after a step that lets the tables grow. *)
LEMMA SessionsGrow ==
    ASSUME Tables, Tables', Grows, SessionInv, UNCHANGED session
    PROVE  SessionInv'
  <1> SUFFICES ASSUME NEW s \in Sessions, session[s] # None
               PROVE  /\ link'[session[s].link] = "gone"
                      /\ [user |-> session[s].user, email |-> Mail(session[s])] \in accounts'
                      /\ Settled(session[s].user)'
    BY DEF SessionInv, Mail
  <1>1. session[s].user \in Users /\ session[s].link \in Links
    BY DEF SessionInv, Session
  <1>2. /\ link[session[s].link] = "gone"
        /\ [user |-> session[s].user, email |-> Mail(session[s])] \in accounts
        /\ Settled(session[s].user)
    BY DEF SessionInv
  <1>3. link'[session[s].link] = "gone"
        /\ [user |-> session[s].user, email |-> Mail(session[s])] \in accounts'
    BY <1>1, <1>2 DEF Grows
  <1>4. Settled(session[s].user)'
    <2>1. PICK u \in Users : u = session[s].user
      BY <1>1
    <2>2. Settled(u)'
      BY <1>2, <2>1, SettledGrows DEF Tables
    <2> QED BY <2>1, <2>2 DEF Settled, TrulyContradictory, OwnedBy
  <1> QED BY <1>3, <1>4

(* The calls after one of them became n.                                    *)
LEMMA OthersStaySound ==
    ASSUME AccountsInv, TablesTypeOK', Grows, NEW c \in Calls, NEW n, Sound(n)',
           \A d \in Calls : call'[d] = IF d = c THEN n ELSE call[d]
    PROVE  \A d \in Calls : Sound(call[d])'
  <1> SUFFICES ASSUME NEW d \in Calls PROVE Sound(call[d])'
    OBVIOUS
  <1>1. CASE d = c
    BY <1>1 DEF Sound, WellFormed, Faithful, Verifying, Mail
  <1>2. CASE d # c
    <2>1. PICK r \in Request \cup {Idle} : r = call[d]
      BY DEF AccountsInv
    <2>2. Sound(r)'
      BY <2>1, SoundGrows DEF AccountsInv, Tables
    <2>3. call'[d] = r
      BY <1>2, <2>1
    <2> QED BY <2>2, <2>3 DEF Sound, WellFormed, Faithful, Verifying, Mail
  <1> QED BY <1>1, <1>2

(* One call moves on to n, the others stay.                                 *)
LEMMA CallMoves ==
    ASSUME AccountsInv, NEW c \in Calls, NEW n \in Request \cup {Idle}, Set(c, n),
           Tables', Grows, Sound(n)', UNCHANGED <<session, capabilities>>,
           n.step # "write",
           Earning(n) => Earning(call[c]) /\ n.link = call[c].link
    PROVE  AccountsInv'
  <1>1. /\ call' \in [Calls -> Request \cup {Idle}]
        /\ \A d \in Calls : call'[d] = IF d = c THEN n ELSE call[d]
    BY DEF AccountsInv, Set
  <1>2. \A d \in Calls : Sound(call[d])'
    BY <1>1, OthersStaySound DEF Tables
  <1>3. SessionInv'
    BY SessionsGrow DEF AccountsInv
  <1>4. EarningsDiffer'
    BY <1>1 DEF AccountsInv, EarningsDiffer, Earning, Verifying
  <1>5. LocksExclude'
    BY <1>1 DEF AccountsInv, LocksExclude, At
  <1> QED BY <1>1, <1>2, <1>3, <1>4, <1>5 DEF AccountsInv

LEMMA QuietGrows ==
    ASSUME AccountsInv, Quiet
    PROVE  Tables' /\ Grows
  BY DEF AccountsInv, Quiet, people, places, Tables, TablesTypeOK, PeopleInv, PlacesInv,
         OnePersonalWorkspace, Grows

LEMMA CallMovesQuietly ==
    ASSUME AccountsInv, NEW c \in Calls, NEW n \in Request \cup {Idle}, Set(c, n), Quiet,
           Sound(n), n.step # "write",
           Earning(n) => Earning(call[c]) /\ n.link = call[c].link
    PROVE  AccountsInv'
  <1>1. Tables' /\ Grows
    BY QuietGrows
  <1>2. Sound(n)'
    BY <1>1, SoundGrows DEF AccountsInv, Tables
  <1> QED BY <1>1, <1>2, CallMoves DEF Quiet

LEMMA CallEnds ==
    ASSUME AccountsInv, NEW c \in Calls, End(c), Quiet
    PROVE  AccountsInv'
  <1>1. Sound(Idle) /\ ~Earning(Idle) /\ Idle.step # "write"
    BY DEF Sound, Earning, Idle
  <1> QED BY <1>1, CallMovesQuietly DEF End

(* What is known of the call that takes a step.                             *)
LEMMA CallKnown ==
    ASSUME AccountsInv, NEW c \in Calls, call[c] # Idle
    PROVE  call[c] \in Request /\ WellFormed(call[c]) /\ Faithful(call[c])
  BY DEF AccountsInv, Sound

LEMMA AtIsBusy ==
    ASSUME AccountsInv, NEW c \in Calls, NEW s, s # "idle", At(c, s)
    PROVE  call[c] # Idle /\ call[c] \in Request /\ call[c].step = s
           /\ WellFormed(call[c]) /\ Faithful(call[c])
  <1>1. call[c] # Idle
    BY DEF At, Idle
  <1> QED BY <1>1, CallKnown DEF At
-----------------------------------------------------------------------------
(* Steps that leave the calls alone.                                        *)
LEMMA CallsRest ==
    ASSUME AccountsInv, Tables', Grows, SessionInv', UNCHANGED <<capabilities, call>>,
           \A s \in Sessions : session'[s] # None =>
               session[s] # None /\ session'[s].link = session[s].link
    PROVE  AccountsInv'
  <1>1. \A c \in Calls : Sound(call[c])'
    <2> SUFFICES ASSUME NEW c \in Calls PROVE Sound(call[c])'
      OBVIOUS
    <2>1. PICK r \in Request \cup {Idle} : r = call[c]
      BY DEF AccountsInv
    <2>2. Sound(r)'
      BY <2>1, SoundGrows DEF AccountsInv, Tables
    <2> QED BY <2>1, <2>2 DEF Sound, WellFormed, Faithful, Verifying, Mail
  <1>2. EarningsDiffer'
    BY DEF AccountsInv, EarningsDiffer, Earning, Verifying
  <1>3. LocksExclude'
    BY DEF AccountsInv, LocksExclude, At
  <1> QED BY <1>1, <1>2, <1>3 DEF AccountsInv

LEMMA LinkChangeKeeps ==
    ASSUME AccountsInv, NEW l \in Links, NEW v \in {"pending", "gone"}, link[l] # "gone",
           link' = [link EXCEPT ![l] = v], UNCHANGED <<people, places>>
    PROVE  Tables' /\ Grows
  <1>1. link' \in [Links -> {"unsent", "pending", "gone"}]
        /\ \A k \in Links : link[k] = "gone" => link'[k] = "gone"
    BY DEF AccountsInv, Tables, TablesTypeOK
  <1> QED BY <1>1 DEF AccountsInv, people, places, Tables, TablesTypeOK, PeopleInv, PlacesInv,
                      OnePersonalWorkspace, Grows

LEMMA LinkStepKeeps ==
    ASSUME AccountsInv, NEW l \in Links, RequestSignIn(l) \/ ExpireLink(l)
    PROVE  AccountsInv'
  <1>1. Tables' /\ Grows
    BY LinkChangeKeeps DEF RequestSignIn, ExpireLink
  <1>2. SessionInv' /\ UNCHANGED <<session, capabilities, call>>
    BY <1>1, SessionsGrow DEF AccountsInv, RequestSignIn, ExpireLink
  <1> QED BY <1>1, <1>2, CallsRest

LEMMA EndSessionKeeps ==
    ASSUME AccountsInv, NEW s \in Sessions, EndSession(s)
    PROVE  AccountsInv'
  <1>1. Tables' /\ Grows /\ UNCHANGED <<people, places, link, capabilities, call>>
    BY DEF AccountsInv, EndSession, people, places, Tables, TablesTypeOK, PeopleInv, PlacesInv,
           OnePersonalWorkspace, Grows
  <1>2. session[s] \in Session
    BY DEF EndSession, AccountsInv, SessionInv
  <1> DEFINE n == [session[s] EXCEPT !.live = FALSE]
  <1>3. n \in Session /\ n.user = session[s].user /\ n.link = session[s].link
    BY <1>2 DEF Session
  <1>4. session' = [session EXCEPT ![s] = n]
    BY DEF EndSession
  <1> HIDE DEF n
  <1>5. /\ session' \in [Sessions -> Session \cup {None}]
        /\ \A t \in Sessions : session'[t] = IF t = s THEN n ELSE session[t]
    BY <1>3, <1>4 DEF AccountsInv, SessionInv
  <1>6. \A t \in Sessions : session'[t] # None =>
           /\ session[t] # None /\ session'[t].link = session[t].link
           /\ session'[t].user = session[t].user
    BY <1>3, <1>5 DEF EndSession
  <1>7. SessionInv'
    <2>1. \A t \in Sessions : session'[t] # None =>
             /\ link'[session'[t].link] = "gone"
             /\ [user |-> session'[t].user, email |-> Mail(session[t])] \in accounts'
             /\ Mail(session[t]) = EmailOf[IdentityOf[session'[t].link]]
      BY <1>1, <1>6 DEF AccountsInv, SessionInv, people, Mail
    <2>2. \A t \in Sessions : session'[t] # None =>
             session'[t].user = session[t].user /\ Settled(session[t].user)
      BY <1>6 DEF AccountsInv, SessionInv
    <2>3. \A t \in Sessions : session'[t] # None => Settled(session[t].user)'
      BY <1>1, <2>2, <1>6 DEF Settled, TrulyContradictory, OwnedBy, places
    <2> QED BY <1>5, <1>6, <2>1, <2>3 DEF AccountsInv, SessionInv, Mail
  <1> QED BY <1>1, <1>6, <1>7, CallsRest

LEMMA GrantOwnerKeeps ==
    ASSUME AccountsInv, NEW u \in Users, NEW w \in Workspaces, GrantOwner(u, w)
    PROVE  AccountsInv'
  <1>1. /\ role' \in [Users -> [Workspaces -> Roles]]
        /\ \A v \in Users, x \in Workspaces :
              role'[v][x] = IF v = u /\ x = w THEN "Owner" ELSE role[v][x]
    <2> DEFINE row == [role[u] EXCEPT ![w] = "Owner"]
    <2>1. row \in [Workspaces -> Roles]
          /\ \A x \in Workspaces : row[x] = IF x = w THEN "Owner" ELSE role[u][x]
      BY DEF AccountsInv, Tables, TablesTypeOK, Roles
    <2>2. role' = [role EXCEPT ![u] = row]
      BY DEF GrantOwner
    <2> HIDE DEF row
    <2> QED BY <2>1, <2>2 DEF AccountsInv, Tables, TablesTypeOK
  <1>2. Grows
    BY <1>1 DEF GrantOwner, people, Grows
  <1>3. Tables'
    BY <1>1 DEF GrantOwner, people, AccountsInv, Tables, TablesTypeOK, PeopleInv, PlacesInv,
                OnePersonalWorkspace
  <1>4. SessionInv' /\ UNCHANGED <<session, capabilities, call>>
    BY <1>2, <1>3, SessionsGrow DEF AccountsInv, GrantOwner
  <1> QED BY <1>2, <1>3, <1>4, CallsRest

LEMMA RestartKeeps ==
    ASSUME AccountsInv, Restart
    PROVE  AccountsInv'
  <1>1. /\ link' \in [Links -> {"unsent", "pending", "gone"}]
        /\ \A l \in Links : link[l] = "gone" => link'[l] = "gone"
    BY DEF AccountsInv, Tables, TablesTypeOK, Restart
  <1>2. Tables' /\ Grows
    BY <1>1 DEF AccountsInv, people, places, Tables, TablesTypeOK, PeopleInv, PlacesInv,
                OnePersonalWorkspace, Grows, Restart
  <1>3. SessionInv'
    BY <1>2, SessionsGrow DEF AccountsInv, Restart
  <1>4. call' \in [Calls -> Request \cup {Idle}] /\ \A c \in Calls : call'[c] = Idle
    BY DEF Restart
  <1>5. \A c \in Calls : Sound(call[c])'
    BY <1>4 DEF Sound
  <1>6. EarningsDiffer' /\ LocksExclude'
    BY <1>4 DEF EarningsDiffer, Earning, LocksExclude, At, Idle
  <1> QED BY <1>2, <1>3, <1>4, <1>5, <1>6 DEF AccountsInv, Restart
-----------------------------------------------------------------------------
(* Steps that begin or end a call.                                          *)
LEMMA EndKeeps ==
    ASSUME AccountsInv, NEW c \in Calls, Fail(c) \/ Deliver(c) \/ LoseInsert(c)
    PROVE  AccountsInv'
  BY CallEnds DEF Fail, Deliver, LoseInsert

(* A link that is used now is nobody's yet.                                 *)
LEMMA VerifyKeeps ==
    ASSUME AccountsInv, NEW c \in Calls, NEW l \in Links, Verify(c, l)
    PROVE  AccountsInv'
  <1> DEFINE n == [op |-> "verify", step |-> "identify", link |-> l, user |-> None,
                   stage |-> "converge", loop |-> "none", tries |-> 0, ptr |-> None,
                   owned |-> {}, target |-> None, wish |-> None, seen |-> {},
                   answer |-> "none"]
  <1>1. link[l] = "pending" /\ link' = [link EXCEPT ![l] = "gone"]
        /\ call[c] = Idle /\ Set(c, n)
    BY DEF Verify, UseLink, Begin
  <1>2. n \in Request
    BY AccountsAssumption DEF Request, Abilities
  <1>3. /\ n.op = "verify" /\ n.step = "identify" /\ n.link = l /\ n.user = None
        /\ n.stage = "converge" /\ n.loop = "none" /\ n.tries = 0 /\ n.ptr = None
        /\ n.owned = {} /\ n.answer = "none"
    OBVIOUS
  <1> HIDE DEF n
  <1>4. Tables' /\ Grows /\ link'[l] = "gone"
    BY <1>1, LinkChangeKeeps DEF Verify, AccountsInv, Tables, TablesTypeOK
  <1>5. Sound(n)'
    BY <1>3, <1>4 DEF Sound, WellFormed, Faithful, Verifying
  <1>6. /\ call' \in [Calls -> Request \cup {Idle}]
        /\ \A d \in Calls : call'[d] = IF d = c THEN n ELSE call[d]
    BY <1>1, <1>2 DEF AccountsInv, Set
  <1>7. \A d \in Calls : Sound(call[d])'
    BY <1>3, <1>4, <1>5, <1>6, OthersStaySound DEF Tables
  <1>8. SessionInv' /\ UNCHANGED <<session, capabilities>>
    BY <1>4, SessionsGrow DEF AccountsInv, Verify
  <1>9. EarningsDiffer'
    <2>1. \A s \in Sessions : session[s] # None => session[s].link # l
      BY <1>1 DEF AccountsInv, SessionInv
    <2>2. \A d \in Calls : Earning(call[d]) => call[d].link # l
      BY <1>1 DEF AccountsInv, Sound, Faithful, Earning
    <2> QED BY <1>3, <1>6, <1>8, <2>1, <2>2 DEF AccountsInv, EarningsDiffer, Earning, Verifying
  <1>10. LocksExclude'
    BY <1>3, <1>6, <1>8 DEF AccountsInv, LocksExclude, At
  <1> QED BY <1>4, <1>6, <1>7, <1>8, <1>9, <1>10 DEF AccountsInv

LEMMA SessionRequestKeeps ==
    ASSUME AccountsInv, NEW c \in Calls, NEW s \in Sessions,
           \/ Me(c, s)
           \/ \E w \in Workspaces, wish \in Wishes : SubmitIntent(c, s, w, wish)
    PROVE  AccountsInv'
  <1>1. session[s].user \in Users /\ Settled(session[s].user)
    BY DEF Me, SubmitIntent, AccountsInv, SessionInv, Session
  <1>2. PICK op \in {"me", "intent"}, w \in Workspaces \cup {None}, wish \in Wishes \cup {None} :
           /\ op = "intent" => w \in Workspaces /\ wish \in Wishes
           /\ Begin(c, op, None, session[s].user, w, wish, "pointer")
    BY DEF Me, SubmitIntent
  <1> DEFINE n == [op |-> op, step |-> "pointer", link |-> None, user |-> session[s].user,
                   stage |-> "converge", loop |-> "none", tries |-> 0, ptr |-> None,
                   owned |-> {}, target |-> w, wish |-> wish, seen |-> {},
                   answer |-> "none"]
  <1>3. n \in Request
    BY <1>1, AccountsAssumption DEF Request, Abilities
  <1>4. /\ n.op = op /\ n.step = "pointer" /\ n.user = session[s].user
        /\ n.stage = "converge" /\ n.loop = "none" /\ n.tries = 0 /\ n.ptr = None
        /\ n.owned = {} /\ n.target = w /\ n.wish = wish /\ n.answer = "none"
    OBVIOUS
  <1>5. Set(c, n) /\ Quiet
    BY <1>2 DEF Begin, Me, SubmitIntent
  <1> HIDE DEF n
  <1>6. Sound(n) /\ ~Earning(n)
    BY <1>1, <1>2, <1>4 DEF Sound, WellFormed, Faithful, Verifying, Earning
  <1> QED BY <1>3, <1>4, <1>5, <1>6, CallMovesQuietly
-----------------------------------------------------------------------------
(* The statements of a sign-in.                                             *)
LEMMA FindIdentityKeeps ==
    ASSUME AccountsInv, NEW c \in Calls, FindIdentity(c)
    PROVE  AccountsInv'
  <1>1. /\ call[c] \in Request /\ call[c].step = "identify" /\ call[c] # Idle
        /\ WellFormed(call[c]) /\ Faithful(call[c]) /\ Quiet
    BY AtIsBusy DEF FindIdentity
  <1>2. /\ call[c].op = "verify" /\ call[c].stage = "converge" /\ call[c].loop = "none"
        /\ call[c].ptr = None /\ call[c].owned = {} /\ call[c].link \in Links
        /\ call[c].tries = 0 /\ call[c].answer = "none" /\ link[call[c].link] = "gone"
        /\ (call[c].user # None =>
              [user |-> call[c].user, email |-> Mail(call[c])] \in accounts)
    BY <1>1 DEF WellFormed, Faithful, Verifying
  <1>3. Identity(c) \in Identities /\ Mail(call[c]) = EmailOf[Identity(c)]
        /\ Mail(call[c]) = Email(c)
    BY <1>2, AccountsAssumption DEF Identity, Mail, Email
  <1>4. ASSUME NEW n \in Request, Set(c, n), n.op = "verify", n.link = call[c].link,
               n.stage = "converge", n.loop = "none", n.tries = 0, n.ptr = None,
               n.owned = {}, n.answer = "none", n.step \in {"insert", "pointer"},
               n.step = "pointer" => n.user \in Users,
               n.user # None => [user |-> n.user, email |-> Mail(call[c])] \in accounts
        PROVE  AccountsInv'
    <2>1. Sound(n)
      BY <1>2, <1>4 DEF Sound, WellFormed, Faithful, Verifying, Mail
    <2>2. Earning(call[c])
      BY <1>1, <1>2 DEF Earning, Verifying
    <2> QED BY <1>1, <1>4, <2>1, <2>2, CallMovesQuietly
  <1>5. CASE mapping[Identity(c)] # None /\ Known(c, mapping[Identity(c)])
    <2> DEFINE n == [call[c] EXCEPT !.user = mapping[Identity(c)], !.step = "pointer"]
    <2>1. mapping[Identity(c)] \in Users
          /\ [user |-> mapping[Identity(c)], email |-> Mail(call[c])] \in accounts
      BY <1>3, <1>5 DEF AccountsInv, Tables, TablesTypeOK, PeopleInv
    <2>2. n \in Request
      BY <1>1, <2>1 DEF Request
    <2>3. /\ n.op = call[c].op /\ n.link = call[c].link /\ n.stage = call[c].stage
          /\ n.loop = call[c].loop /\ n.tries = call[c].tries /\ n.ptr = call[c].ptr
          /\ n.owned = call[c].owned /\ n.answer = call[c].answer /\ n.step = "pointer"
          /\ n.user = mapping[Identity(c)]
      BY <1>1 DEF Request
    <2>4. Set(c, n)
      BY <1>5 DEF Known
    <2> HIDE DEF n
    <2> QED BY <1>2, <1>4, <2>1, <2>2, <2>3, <2>4
  <1>6. CASE Go(c, "insert")
    <2> DEFINE n == [Told(c) EXCEPT !.step = "insert"]
    <2>1. n \in Request
      BY <1>1, AccountsAssumption DEF Request, Told
    <2>2. /\ n.op = call[c].op /\ n.link = call[c].link /\ n.stage = call[c].stage
          /\ n.loop = call[c].loop /\ n.tries = call[c].tries /\ n.ptr = None
          /\ n.owned = {} /\ n.answer = call[c].answer /\ n.step = "insert"
          /\ n.user = call[c].user
      BY <1>1 DEF Request, Told
    <2>3. Set(c, n)
      BY <1>6 DEF Go
    <2> HIDE DEF n
    <2> QED BY <1>2, <1>4, <2>1, <2>2, <2>3
  <1>7. ASSUME NEW a \in accounts, a.email = Email(c),
               Set(c, [call[c] EXCEPT !.step = "insert", !.user = a.user])
        PROVE  AccountsInv'
    <2> DEFINE n == [call[c] EXCEPT !.step = "insert", !.user = a.user]
    <2>1. a.user \in Users /\ a = [user |-> a.user, email |-> a.email]
      BY <1>7 DEF AccountsInv, Tables, TablesTypeOK, Account
    <2>2. n \in Request
      BY <1>1, <2>1 DEF Request
    <2>3. /\ n.op = call[c].op /\ n.link = call[c].link /\ n.stage = call[c].stage
          /\ n.loop = call[c].loop /\ n.tries = call[c].tries /\ n.ptr = call[c].ptr
          /\ n.owned = call[c].owned /\ n.answer = call[c].answer /\ n.step = "insert"
          /\ n.user = a.user
      BY <1>1 DEF Request
    <2>4. Set(c, n)
      BY <1>7
    <2>5. [user |-> n.user, email |-> Mail(call[c])] \in accounts
      BY <1>3, <1>7, <2>1, <2>3
    <2> HIDE DEF n
    <2> QED BY <1>2, <1>4, <2>2, <2>3, <2>4, <2>5
  <1> QED BY <1>5, <1>6, <1>7 DEF FindIdentity

LEMMA InsertIdentityKeeps ==
    ASSUME AccountsInv, NEW c \in Calls, InsertIdentity(c)
    PROVE  AccountsInv'
  <1>1. /\ call[c] \in Request /\ call[c].step = "insert" /\ call[c] # Idle
        /\ WellFormed(call[c]) /\ Faithful(call[c])
        /\ UNCHANGED <<places, capabilities, link, session>>
    BY AtIsBusy DEF InsertIdentity
  <1>2. /\ call[c].op = "verify" /\ call[c].stage = "converge" /\ call[c].loop = "none"
        /\ call[c].ptr = None /\ call[c].owned = {} /\ call[c].link \in Links
        /\ call[c].tries = 0 /\ call[c].answer = "none" /\ link[call[c].link] = "gone"
        /\ (call[c].user # None =>
              [user |-> call[c].user, email |-> Mail(call[c])] \in accounts)
    BY <1>1 DEF WellFormed, Faithful, Verifying
  <1>3. Identity(c) \in Identities /\ Mail(call[c]) = EmailOf[Identity(c)]
        /\ Mail(call[c]) = Email(c) /\ Email(c) \in Emails
    BY <1>2, AccountsAssumption DEF Identity, Mail, Email
  <1>4. PICK u : /\ u \in IF call[c].user # None THEN {call[c].user}
                          ELSE Fresh({v \in Users : \A a \in accounts : a.user # v})
                 /\ accounts' = IF call[c].user # None THEN accounts
                                ELSE accounts \cup {[user |-> u, email |-> Email(c)]}
                 /\ mapping' = [mapping EXCEPT ![Identity(c)] = u]
                 /\ Known(c, u)
    BY DEF InsertIdentity
  <1>6. /\ u \in Users
        /\ (call[c].user = None => \A a \in accounts : a.user # u /\ a.email # Email(c))
        /\ (call[c].user # None => u = call[c].user)
    <2>1. CASE call[c].user # None
      BY <1>1, <1>4, <2>1 DEF Request
    <2>2. CASE call[c].user = None
      <3>1. u \in {v \in Users : \A a \in accounts : a.user # v}
        BY <1>4, <2>2, FreshIsOne
      <3> QED BY <2>2, <3>1 DEF InsertIdentity, InsertFits
    <2> QED BY <2>1, <2>2
  <1>7. /\ accounts \subseteq accounts' /\ accounts' \subseteq Account
        /\ [user |-> u, email |-> Mail(call[c])] \in accounts'
        /\ \A a, b \in accounts' : a.email = b.email \/ a.user = b.user => a = b
    <2>1. CASE call[c].user # None
      BY <1>2, <1>4, <1>6, <2>1 DEF AccountsInv, Tables, TablesTypeOK, PeopleInv
    <2>2. CASE call[c].user = None
      BY <1>3, <1>4, <1>6, <2>2 DEF AccountsInv, Tables, TablesTypeOK, PeopleInv, Account
    <2> QED BY <2>1, <2>2
  <1>8. Grows
    BY <1>1, <1>7 DEF Grows, places
  <1>9. Tables'
    <2>1. /\ mapping' \in [Identities -> Users \cup {None}]
          /\ \A i \in Identities : mapping'[i] = IF i = Identity(c) THEN u ELSE mapping[i]
      BY <1>3, <1>4, <1>6 DEF AccountsInv, Tables, TablesTypeOK
    <2>2. PeopleInv'
      BY <1>3, <1>7, <2>1 DEF AccountsInv, Tables, PeopleInv
    <2> QED BY <1>1, <1>7, <2>1, <2>2 DEF AccountsInv, Tables, TablesTypeOK, PlacesInv,
               OnePersonalWorkspace, places
  <1>5. PICK n \in Request :
           /\ n.op = call[c].op /\ n.link = call[c].link /\ n.stage = call[c].stage
           /\ n.loop = call[c].loop /\ n.tries = call[c].tries /\ n.ptr = call[c].ptr
           /\ n.owned = call[c].owned /\ n.answer = call[c].answer /\ n.step = "pointer"
           /\ n.user = u /\ Set(c, n)
    <2> DEFINE m == [call[c] EXCEPT !.user = u, !.step = "pointer"]
    <2>1. m \in Request
      BY <1>1, <1>6 DEF Request
    <2>2. /\ m.op = call[c].op /\ m.link = call[c].link /\ m.stage = call[c].stage
          /\ m.loop = call[c].loop /\ m.tries = call[c].tries /\ m.ptr = call[c].ptr
          /\ m.owned = call[c].owned /\ m.answer = call[c].answer /\ m.step = "pointer"
          /\ m.user = u
      BY <1>1 DEF Request
    <2>3. Set(c, m)
      BY <1>4 DEF Known
    <2> HIDE DEF m
    <2> QED BY <2>1, <2>2, <2>3
  <1>10. /\ link'[n.link] = "gone" /\ [user |-> n.user, email |-> Mail(n)] \in accounts'
    BY <1>1, <1>2, <1>5, <1>7 DEF Mail
  <1>13. Sound(n)'
    BY <1>2, <1>5, <1>6, <1>10 DEF Sound, WellFormed, Faithful, Verifying, Mail
  <1>14. Earning(call[c])
    BY <1>1, <1>2 DEF Earning, Verifying
  <1> QED BY <1>1, <1>5, <1>8, <1>9, <1>13, <1>14, CallMoves

(* Sessions are issued to who has settled, one to a link.                   *)
LEMMA CreateSessionKeeps ==
    ASSUME AccountsInv, NEW c \in Calls, CreateSession(c)
    PROVE  AccountsInv'
  <1>1. /\ call[c] \in Request /\ call[c].step = "session" /\ call[c] # Idle
        /\ WellFormed(call[c]) /\ Faithful(call[c])
        /\ UNCHANGED <<people, places, capabilities, link>>
    BY AtIsBusy DEF CreateSession
  <1>2. /\ call[c].op = "verify" /\ call[c].stage = "converge" /\ call[c].loop = "none"
        /\ call[c].link \in Links /\ link[call[c].link] = "gone" /\ call[c].tries = 0
        /\ call[c].user \in Users /\ Settled(call[c].user) /\ call[c].answer = "none"
        /\ [user |-> call[c].user, email |-> Mail(call[c])] \in accounts
    BY <1>1, AccountsAssumption DEF WellFormed, Faithful, Verifying
  <1>3. PICK s \in Sessions : session' = [session EXCEPT ![s] =
                [user |-> call[c].user, link |-> call[c].link, live |-> TRUE]]
    BY FreshIsOne DEF CreateSession
  <1>4. Tables' /\ Grows
    BY <1>1 DEF AccountsInv, people, places, Tables, TablesTypeOK, PeopleInv, PlacesInv,
                OnePersonalWorkspace, Grows
  <1>5. PICK n \in Request :
           /\ n.op = call[c].op /\ n.link = call[c].link /\ n.stage = "setup"
           /\ n.loop = call[c].loop /\ n.tries = call[c].tries /\ n.ptr = call[c].ptr
           /\ n.owned = call[c].owned /\ n.answer = call[c].answer /\ n.step = "pointer"
           /\ n.user = call[c].user /\ n.target = call[c].target /\ Set(c, n)
    <2> DEFINE m == [call[c] EXCEPT !.step = "pointer", !.stage = "setup"]
    <2>1. m \in Request
      BY <1>1 DEF Request
    <2>2. /\ m.op = call[c].op /\ m.link = call[c].link /\ m.stage = "setup"
          /\ m.loop = call[c].loop /\ m.tries = call[c].tries /\ m.ptr = call[c].ptr
          /\ m.owned = call[c].owned /\ m.answer = call[c].answer /\ m.step = "pointer"
          /\ m.user = call[c].user /\ m.target = call[c].target
      BY <1>1 DEF Request
    <2>3. Set(c, m)
      BY DEF CreateSession
    <2> HIDE DEF m
    <2> QED BY <2>1, <2>2, <2>3
  <1>6. PICK new \in Session : /\ session' = [session EXCEPT ![s] = new]
                               /\ new.user = n.user /\ new.link = n.link
    <2> DEFINE it == [user |-> call[c].user, link |-> call[c].link, live |-> TRUE]
    <2>1. it \in Session /\ it.user = n.user /\ it.link = n.link
      BY <1>2, <1>5 DEF Session
    <2> HIDE DEF it
    <2> QED BY <1>3, <2>1 DEF it
  <1>7. /\ session' \in [Sessions -> Session \cup {None}]
        /\ \A t \in Sessions : session'[t] = IF t = s THEN new ELSE session[t]
    BY <1>6 DEF AccountsInv, SessionInv
  <1>8. Earning(call[c]) /\ ~Earning(n) /\ n # Idle
    BY <1>1, <1>2, <1>5 DEF Earning, Verifying, Idle
  <1>9. \A t \in Sessions : session[t] # None => session[t].link # new.link
    BY <1>5, <1>6, <1>8 DEF AccountsInv, EarningsDiffer
  <1>10. SessionInv'
    <2>1. ASSUME NEW t \in Sessions, session'[t] # None
          PROVE  /\ link'[session'[t].link] = "gone"
                 /\ [user |-> session'[t].user,
                     email |-> EmailOf[IdentityOf[session'[t].link]]] \in accounts'
                 /\ Settled(session[t].user)'
      <3>1. PICK v \in Users : v = session'[t].user
        BY <1>7, <2>1 DEF Session
      <3>2. /\ link[session'[t].link] = "gone" /\ Settled(v)
            /\ [user |-> v, email |-> EmailOf[IdentityOf[session'[t].link]]] \in accounts
        <4>1. CASE t = s
          BY <1>2, <1>5, <1>6, <1>7, <3>1, <4>1 DEF Mail
        <4>2. CASE t # s
          BY <1>7, <2>1, <3>1, <4>2 DEF AccountsInv, SessionInv, Mail
        <4> QED BY <4>1, <4>2
      <3>3. Settled(v)'
        BY <1>4, <3>2, SettledGrows DEF AccountsInv, Tables
      <3>4. Settled(session[t].user)'
        BY <3>1, <3>3 DEF Settled, TrulyContradictory, OwnedBy
      <3> QED BY <1>1, <3>1, <3>2, <3>4 DEF people
    <2>2. \A x, y \in Sessions : session'[x] # None /\ session'[y] # None /\ x # y =>
             session'[x].link # session'[y].link
      BY <1>7, <1>9 DEF AccountsInv, SessionInv
    <2> QED BY <1>7, <2>1, <2>2 DEF SessionInv, Mail
  <1>11. /\ call' \in [Calls -> Request \cup {Idle}]
         /\ \A d \in Calls : call'[d] = IF d = c THEN n ELSE call[d]
    BY <1>5 DEF AccountsInv, Set
  <1>12. /\ link'[n.link] = "gone" /\ [user |-> n.user, email |-> Mail(n)] \in accounts'
         /\ \A w \in n.owned : role'[n.user][w] = "Owner"
         /\ (n.ptr # None => pointer'[n.user] = n.ptr)
    BY <1>1, <1>2, <1>5 DEF people, places, Mail, Faithful
  <1>13. Sound(n)'
    BY <1>2, <1>5, <1>12 DEF Sound, WellFormed, Faithful, Verifying, Mail
  <1>14. \A d \in Calls : Sound(call[d])'
    BY <1>4, <1>11, <1>13, OthersStaySound DEF Tables
  <1>15. EarningsDiffer'
    BY <1>5, <1>6, <1>7, <1>8, <1>11 DEF AccountsInv, EarningsDiffer
  <1>16. LocksExclude'
    BY <1>1, <1>5, <1>11 DEF AccountsInv, LocksExclude, At
  <1> QED BY <1>1, <1>4, <1>10, <1>11, <1>14, <1>15, <1>16 DEF AccountsInv
-----------------------------------------------------------------------------
(* The three statements of a classification.                                *)
LEMMA ReadPointerKeeps ==
    ASSUME AccountsInv, NEW c \in Calls, ReadPointer(c)
    PROVE  AccountsInv'
  <1>1. /\ call[c] \in Request /\ call[c].step = "pointer" /\ call[c] # Idle
        /\ WellFormed(call[c]) /\ Faithful(call[c]) /\ Quiet
    BY AtIsBusy DEF ReadPointer
  <1>2. PICK u \in Users : u = call[c].user
    BY <1>1 DEF WellFormed
  <1>3. pointer[u] \in Workspaces \cup {None}
    BY DEF AccountsInv, Tables, TablesTypeOK
  <1>4. PICK n \in Request :
           /\ n.op = call[c].op /\ n.link = call[c].link /\ n.stage = call[c].stage
           /\ n.loop = call[c].loop /\ n.tries = call[c].tries /\ n.ptr = pointer[u]
           /\ n.owned = call[c].owned /\ n.answer = call[c].answer /\ n.step = "owned"
           /\ n.user = u /\ n.target = call[c].target /\ n.wish = call[c].wish /\ Set(c, n)
    <2> DEFINE m == [call[c] EXCEPT !.ptr = pointer[u], !.step = "owned"]
    <2>1. m \in Request
      BY <1>1, <1>3 DEF Request
    <2>2. /\ m.op = call[c].op /\ m.link = call[c].link /\ m.stage = call[c].stage
          /\ m.loop = call[c].loop /\ m.tries = call[c].tries /\ m.ptr = pointer[u]
          /\ m.owned = call[c].owned /\ m.answer = call[c].answer /\ m.step = "owned"
          /\ m.user = u /\ m.target = call[c].target /\ m.wish = call[c].wish
      BY <1>1, <1>2 DEF Request
    <2>3. Set(c, m)
      BY <1>2 DEF ReadPointer
    <2> HIDE DEF m
    <2> QED BY <2>1, <2>2, <2>3
  <1>5. n.op # "verify" /\ n.ptr = None => Tangled(OwnedBy(u), u)
    <2> SUFFICES ASSUME n.op # "verify", n.ptr = None PROVE Tangled(OwnedBy(u), u)
      OBVIOUS
    <2>1. TrulyContradictory(u) /\ pointer[u] = None
      BY <1>1, <1>2, <1>4 DEF Faithful, Settled
    <2> QED BY <2>1 DEF TrulyContradictory, Tangled, Shared, OwnedBy
  <1>6. WellFormed(n)
    BY <1>1, <1>2, <1>4 DEF WellFormed, Verifying
  <1>7. Faithful(n)
    BY <1>1, <1>2, <1>4, <1>5 DEF Faithful, Verifying, Mail
  <1>8. Earning(n) => Earning(call[c]) /\ n.link = call[c].link
    BY <1>1, <1>4 DEF Earning, Verifying
  <1> QED BY <1>1, <1>4, <1>6, <1>7, <1>8, CallMovesQuietly DEF Sound

LEMMA ReadOwnedKeeps ==
    ASSUME AccountsInv, NEW c \in Calls, ReadOwned(c)
    PROVE  AccountsInv'
  <1>1. /\ call[c] \in Request /\ call[c].step = "owned" /\ call[c] # Idle
        /\ WellFormed(call[c]) /\ Faithful(call[c]) /\ Quiet
    BY AtIsBusy DEF ReadOwned
  <1>2. PICK u \in Users : u = call[c].user
    BY <1>1 DEF WellFormed
  <1>4. PICK n \in Request :
           /\ n.op = call[c].op /\ n.link = call[c].link /\ n.stage = call[c].stage
           /\ n.loop = call[c].loop /\ n.tries = call[c].tries /\ n.ptr = call[c].ptr
           /\ n.owned = OwnedBy(u) /\ n.answer = call[c].answer /\ n.step = "owners"
           /\ n.user = u /\ n.target = call[c].target /\ n.wish = call[c].wish /\ Set(c, n)
    <2> DEFINE m == [call[c] EXCEPT !.owned = OwnedBy(u), !.step = "owners"]
    <2>1. m \in Request
      BY <1>1 DEF Request, OwnedBy
    <2>2. /\ m.op = call[c].op /\ m.link = call[c].link /\ m.stage = call[c].stage
          /\ m.loop = call[c].loop /\ m.tries = call[c].tries /\ m.ptr = call[c].ptr
          /\ m.owned = OwnedBy(u) /\ m.answer = call[c].answer /\ m.step = "owners"
          /\ m.user = u /\ m.target = call[c].target /\ m.wish = call[c].wish
      BY <1>1, <1>2 DEF Request
    <2>3. Set(c, m)
      BY <1>2 DEF ReadOwned
    <2> HIDE DEF m
    <2> QED BY <2>1, <2>2, <2>3
  <1>5. n.op # "verify" /\ n.ptr = None => Tangled(n.owned, u)
    BY <1>1, <1>2, <1>4 DEF Faithful
  <1>6. WellFormed(n)
    BY <1>1, <1>2, <1>4 DEF WellFormed, Verifying
  <1>7. n.ptr \in Workspaces \cup {None} /\ \A w \in Workspaces : role[u][w] = "Owner" <=> w \in n.owned
    BY <1>4 DEF Request, OwnedBy
  <1>8. Faithful(n)
    BY <1>1, <1>2, <1>4, <1>5, <1>7 DEF Faithful, Verifying, Mail, Request
  <1>9. Earning(n) => Earning(call[c]) /\ n.link = call[c].link
    BY <1>1, <1>4 DEF Earning, Verifying
  <1> QED BY <1>1, <1>4, <1>6, <1>8, <1>9, CallMovesQuietly DEF Sound

(* What the classification means at the moment of the last statement.       *)
LEMMA Classified ==
    ASSUME AccountsInv, NEW c \in Calls, At(c, "owners"), NEW u \in Users, u = call[c].user
    PROVE  LET r == call[c] IN
           /\ Classify(c) \in Kind
           /\ Classify(c) = "recovery" => TrulyContradictory(u)
           /\ Classify(c) = "converged" => r.ptr # None /\ pointer[u] = r.ptr
           /\ Classify(c) = "none" => r.owned = {}
           /\ Classify(c) = "attachable" => r.ptr = None /\ r.owned # {}
                                            /\ \A w \in r.owned : ~Shared(w, u)
           /\ r.op # "verify" => Classify(c) \in {"converged", "recovery"}
  <1>1. /\ call[c] \in Request /\ call[c].step = "owners"
        /\ WellFormed(call[c]) /\ Faithful(call[c])
    BY AtIsBusy
  <1>2. call[c].owned \subseteq OwnedBy(u) /\ call[c].ptr \in Workspaces \cup {None}
    BY <1>1 DEF Faithful, OwnedBy, Request
  <1> DEFINE bad == Contradictory(call[c].ptr, call[c].owned, u)
  <1>3. ASSUME bad PROVE TrulyContradictory(u)
    <2>1. CASE \E v, w \in call[c].owned : v # w
      BY <1>2, <2>1 DEF TrulyContradictory
    <2>2. CASE \E w \in call[c].owned : Shared(w, u)
      BY <1>2, <2>2 DEF TrulyContradictory, Shared, OwnedBy
    <2>3. CASE call[c].ptr # None /\ call[c].ptr \notin call[c].owned
      BY <1>1, <1>2, <2>3 DEF TrulyContradictory, Faithful, OwnedBy
    <2> QED BY <1>3, <2>1, <2>2, <2>3 DEF Contradictory
  <1>4. /\ bad => Classify(c) = "recovery"
        /\ ~bad /\ call[c].ptr # None => Classify(c) = "converged"
        /\ ~bad /\ call[c].ptr = None /\ call[c].owned = {} => Classify(c) = "none"
        /\ ~bad /\ call[c].ptr = None /\ call[c].owned # {} => Classify(c) = "attachable"
    <2>1. bad = Contradictory(call[c].ptr, call[c].owned, call[c].user) /\ bad \in BOOLEAN
      BY DEF Contradictory
    <2>4. bad => ~(call[c].owned = {} /\ call[c].ptr = None)
      BY DEF Contradictory
    <2> HIDE DEF bad
    <2>2. CASE bad
      BY <2>1, <2>2, <2>4 DEF Classify
    <2>3. CASE ~bad
      BY <2>1, <2>3 DEF Classify
    <2> QED BY <2>2, <2>3
  <1>5. call[c].op # "verify" /\ call[c].ptr = None => bad
    BY <1>1 DEF Faithful, Tangled, Contradictory
  <1>6. ~bad => \A w \in call[c].owned : ~Shared(w, u)
    BY DEF Contradictory
  <1>7. call[c].ptr # None => pointer[u] = call[c].ptr
    BY <1>1 DEF Faithful
  <1> HIDE DEF bad
  <1> QED BY <1>3, <1>4, <1>5, <1>6, <1>7 DEF Kind
-----------------------------------------------------------------------------
(* What a call does with it.                                                *)
LEMMA AnswerKeeps ==
    ASSUME AccountsInv, NEW c \in Calls, At(c, "owners"), call[c].loop = "none",
           NEW value \in {"converged", "recovery"}, Answer(c, value), Quiet,
           value = "recovery" => TrulyContradictory(call[c].user)
    PROVE  AccountsInv'
  <1>1. /\ call[c] \in Request /\ call[c].step = "owners" /\ call[c] # Idle
        /\ WellFormed(call[c]) /\ Faithful(call[c])
    BY AtIsBusy
  <1>2. PICK n \in Request :
           /\ n.op = call[c].op /\ n.stage = "converge" /\ n.loop = "none"
           /\ n.tries = call[c].tries /\ n.ptr = None /\ n.owned = {}
           /\ n.answer = value /\ n.step = "done" /\ n.user = call[c].user /\ Set(c, n)
    <2> DEFINE m == [Told(c) EXCEPT !.step = "done", !.answer = value, !.stage = "converge",
                                    !.link = None, !.target = None, !.wish = None, !.seen = {}]
    <2>1. m \in Request
      BY <1>1, AccountsAssumption DEF Request, Told
    <2>2. /\ m.op = call[c].op /\ m.stage = "converge" /\ m.loop = "none"
          /\ m.tries = call[c].tries /\ m.ptr = None /\ m.owned = {}
          /\ m.answer = value /\ m.step = "done" /\ m.user = call[c].user
      BY <1>1 DEF Request, Told
    <2>3. Set(c, m)
      BY DEF Answer
    <2> HIDE DEF m
    <2> QED BY <2>1, <2>2, <2>3
  <1>3. WellFormed(n) /\ ~Earning(n)
    BY <1>1, <1>2 DEF WellFormed, Verifying, Earning
  <1>4. Faithful(n)
    BY <1>1, <1>2 DEF Faithful, Verifying
  <1> QED BY <1>2, <1>3, <1>4, CallMovesQuietly DEF Sound

(* The reads are used up and the call takes the step s.                     *)
LEMMA GoKeeps ==
    ASSUME AccountsInv, NEW c \in Calls, At(c, "owners"), Go(c, "session") \/ Go(c, "lock")
           \/ (Go(c, call[c].loop) /\ call[c].loop # "none" /\ ~Spent(c)), Quiet,
           Go(c, "session") => /\ call[c].op = "verify" /\ call[c].stage = "converge"
                               /\ call[c].loop = "none" /\ Settled(call[c].user),
           Go(c, "lock") => call[c].op = "intent" /\ pointer[call[c].user] = call[c].target
    PROVE  AccountsInv'
  <1>1. /\ call[c] \in Request /\ call[c].step = "owners" /\ call[c] # Idle
        /\ WellFormed(call[c]) /\ Faithful(call[c])
    BY AtIsBusy
  <1>2. PICK s \in {"session", "lock", "create", "attach"} :
           /\ Go(c, s)
           /\ s \in {"create", "attach"} => s = call[c].loop /\ ~Spent(c)
    BY <1>1 DEF Request
  <1>3. PICK n \in Request :
           /\ n.op = call[c].op /\ n.link = call[c].link /\ n.stage = call[c].stage
           /\ n.loop = call[c].loop /\ n.tries = call[c].tries /\ n.ptr = None /\ n.owned = {}
           /\ n.answer = call[c].answer /\ n.step = s /\ n.user = call[c].user
           /\ n.target = call[c].target /\ n.wish = call[c].wish /\ Set(c, n)
    <2> DEFINE m == [Told(c) EXCEPT !.step = s]
    <2>1. m \in Request
      BY <1>1, AccountsAssumption DEF Request, Told
    <2>2. /\ m.op = call[c].op /\ m.link = call[c].link /\ m.stage = call[c].stage
          /\ m.loop = call[c].loop /\ m.tries = call[c].tries /\ m.ptr = None /\ m.owned = {}
          /\ m.answer = call[c].answer /\ m.step = s /\ m.user = call[c].user
          /\ m.target = call[c].target /\ m.wish = call[c].wish
      BY <1>1 DEF Request, Told
    <2>3. Set(c, m)
      BY <1>2 DEF Go
    <2> HIDE DEF m
    <2> QED BY <2>1, <2>2, <2>3
  <1>4. s \in {"create", "attach"} => call[c].tries < Budget
    BY <1>1, <1>2, AccountsAssumption DEF Spent, Request
  <1>5. WellFormed(n)
    BY <1>1, <1>2, <1>3, <1>4 DEF WellFormed, Verifying
  <1>6. Faithful(n)
    BY <1>1, <1>2, <1>3 DEF Faithful, Verifying, Mail
  <1>7. Earning(n) => Earning(call[c]) /\ n.link = call[c].link
    BY <1>1, <1>3 DEF Earning, Verifying
  <1> QED BY <1>2, <1>3, <1>5, <1>6, <1>7, CallMovesQuietly DEF Sound

LEMMA RetryKeeps ==
    ASSUME AccountsInv, NEW c \in Calls, At(c, "owners"), call[c].loop # "none", Retry(c), Quiet
    PROVE  AccountsInv'
  <1>1. /\ call[c] \in Request /\ call[c].step = "owners" /\ call[c] # Idle
        /\ WellFormed(call[c]) /\ Faithful(call[c])
    BY AtIsBusy
  <1>2. CASE End(c)
    BY <1>2, CallEnds
  <1>3. CASE ~Spent(c) /\ Go(c, call[c].loop)
    <2> DEFINE s == call[c].loop
    <2>1. call'[c].step = s /\ s \in {"create", "attach"}
      BY <1>1, <1>3 DEF Go, Set, Told, Request, AccountsInv
    <2>2. ~Go(c, "session") /\ ~Go(c, "lock")
      BY <1>1, <2>1 DEF Go, Set, Told, Request, AccountsInv
    <2> QED BY <1>3, <2>2, GoKeeps
  <1> QED BY <1>2, <1>3 DEF Retry

(* A convergence returns once its user has settled.                         *)
LEMMA ReturnKeeps ==
    ASSUME AccountsInv, NEW c \in Calls, NEW u \in Users, u = call[c].user,
           call[c].step \in {"owners", "create", "attach"}, call[c].op = "verify",
           Return(c), Tables', Grows, UNCHANGED <<session, capabilities>>, Settled(u)'
    PROVE  AccountsInv'
  <1>1. /\ call[c] \in Request /\ call[c] # Idle
        /\ WellFormed(call[c]) /\ Faithful(call[c])
    <2>1. call[c] # Idle
      BY DEF Idle
    <2> QED BY <2>1, CallKnown
  <1>2. PICK n \in Request :
           /\ n.op = "verify" /\ n.link = call[c].link /\ n.loop = "none" /\ n.tries = 0
           /\ n.ptr = None /\ n.owned = {} /\ n.answer = call[c].answer /\ n.user = u
           /\ n.step \in {"session", "pointer"}
           /\ n.step = "session" => n.stage = "converge" /\ call[c].stage = "converge"
           /\ n.step = "pointer" => n.stage = "final"
           /\ Set(c, n)
    <2> DEFINE m == IF call[c].stage = "converge"
           THEN [Told(c) EXCEPT !.step = "session", !.loop = "none", !.tries = 0]
           ELSE [Told(c) EXCEPT !.step = "pointer", !.loop = "none", !.tries = 0,
                                !.stage = "final"]
    <2>1. m \in Request
      <3>1. 0 \in 0..Budget
        BY AccountsAssumption
      <3>2. CASE call[c].stage = "converge"
        BY <1>1, <3>1, <3>2, AccountsAssumption DEF Request, Told
      <3>3. CASE call[c].stage # "converge"
        BY <1>1, <3>1, <3>3, AccountsAssumption DEF Request, Told
      <3> QED BY <3>2, <3>3
    <2>2. /\ m.op = "verify" /\ m.link = call[c].link /\ m.loop = "none" /\ m.tries = 0
          /\ m.ptr = None /\ m.owned = {} /\ m.answer = call[c].answer /\ m.user = u
          /\ m.step \in {"session", "pointer"}
          /\ m.step = "session" => m.stage = "converge" /\ call[c].stage = "converge"
          /\ m.step = "pointer" => m.stage = "final"
      BY <1>1 DEF Request, Told
    <2>3. Set(c, m)
      BY DEF Return
    <2> HIDE DEF m
    <2> QED BY <2>1, <2>2, <2>3
  <1>3. WellFormed(n)
    BY <1>1, <1>2 DEF WellFormed, Verifying
  <1>4. /\ link'[n.link] = "gone" /\ [user |-> n.user, email |-> Mail(n)] \in accounts'
    <2>1. n.link \in Links /\ link[n.link] = "gone"
          /\ [user |-> n.user, email |-> Mail(n)] \in accounts
      BY <1>1, <1>2, AccountsAssumption DEF WellFormed, Faithful, Verifying, Mail
    <2> QED BY <2>1 DEF Grows
  <1>5. Faithful(n)'
    BY <1>1, <1>2, <1>3, <1>4 DEF WellFormed, Faithful, Verifying, Mail
  <1>6. Sound(n)'
    BY <1>3, <1>5 DEF Sound, WellFormed, Verifying
  <1>7. Earning(n) => Earning(call[c]) /\ n.link = call[c].link
    BY <1>1, <1>2 DEF Earning, Verifying
  <1> QED BY <1>2, <1>6, <1>7, CallMoves

LEMMA OfVerifyKeeps ==
    ASSUME AccountsInv, NEW c \in Calls, At(c, "owners"), Quiet,
           call[c].op = "verify", call[c].loop = "none", OfVerify(c, Classify(c))
    PROVE  AccountsInv'
  <1>1. /\ call[c] \in Request /\ call[c].step = "owners" /\ call[c] # Idle
        /\ WellFormed(call[c]) /\ Faithful(call[c])
    BY AtIsBusy
  <1>2. PICK u \in Users : u = call[c].user
    BY <1>1 DEF WellFormed
  <1> DEFINE kind == Classify(c)
  <1>3. /\ kind \in Kind
        /\ kind = "recovery" => TrulyContradictory(u)
        /\ kind = "converged" => pointer[u] # None
        /\ kind = "attachable" => call[c].owned # {} /\ \A w \in call[c].owned : ~Shared(w, u)
    BY <1>2, Classified
  <1> HIDE DEF kind
  <1>4. CASE kind \in {"converged", "recovery"}
    <2>1. CASE call[c].stage = "converge"
      <3>1. Go(c, "session")
        BY <1>4, <2>1 DEF OfVerify, kind
      <3>2. Settled(call[c].user)
        BY <1>2, <1>3, <1>4 DEF Settled
      <3>3. ~Go(c, "lock")
        BY <1>1, <3>1 DEF Go, Set, Told, Request, AccountsInv
      <3> QED BY <2>1, <3>1, <3>2, <3>3, GoKeeps
    <2>2. CASE call[c].stage # "converge"
      <3>1. Answer(c, kind)
        BY <1>4, <2>2 DEF OfVerify, kind
      <3> QED BY <1>2, <1>3, <1>4, <3>1, AnswerKeeps
    <2> QED BY <2>1, <2>2
  <1>5. CASE kind \in {"none", "attachable"} /\ call[c].stage = "final"
    BY <1>5, CallEnds DEF OfVerify, kind
  <1>6. CASE kind \in {"none", "attachable"} /\ call[c].stage # "final"
    <2>1. PICK next \in {"create", "attach"}, target \in Workspaces \cup {None} :
             /\ Set(c, [Told(c) EXCEPT !.loop = next, !.step = next, !.target = target])
             /\ next = "attach" => kind = "attachable" /\ target \in call[c].owned
      <3>1. CASE kind = "none"
        BY <1>6, <3>1 DEF OfVerify, kind
      <3>2. CASE kind = "attachable"
        <4>1. (CHOOSE w \in call[c].owned : TRUE) \in call[c].owned
          BY <1>3, <3>2
        <4>2. call[c].owned \subseteq Workspaces
          BY <1>1 DEF Request
        <4>3. Set(c, [Told(c) EXCEPT !.loop = "attach", !.step = "attach",
                                     !.target = CHOOSE w \in call[c].owned : TRUE])
          BY <1>6, <3>2 DEF OfVerify, kind
        <4> QED BY <3>2, <4>1, <4>2, <4>3
      <3> QED BY <1>6, <3>1, <3>2
    <2>2. PICK n \in Request :
             /\ n.op = "verify" /\ n.link = call[c].link /\ n.stage = call[c].stage
             /\ n.loop = next /\ n.tries = 0 /\ n.ptr = None /\ n.owned = {}
             /\ n.answer = "none" /\ n.step = next /\ n.user = u
             /\ n.target = target /\ Set(c, n)
      <3> DEFINE m == [Told(c) EXCEPT !.loop = next, !.step = next, !.target = target]
      <3>1. m \in Request
        BY <1>1, AccountsAssumption DEF Request, Told
      <3>2. /\ m.op = call[c].op /\ m.link = call[c].link /\ m.stage = call[c].stage
            /\ m.loop = next /\ m.tries = call[c].tries /\ m.ptr = None /\ m.owned = {}
            /\ m.answer = call[c].answer /\ m.step = next /\ m.user = call[c].user
            /\ m.target = target
        BY <1>1 DEF Request, Told
      <3>3. Set(c, m) /\ call[c].tries = 0 /\ call[c].answer = "none"
        BY <1>1, <2>1 DEF WellFormed
      <3> HIDE DEF m
      <3> QED BY <1>2, <3>1, <3>2, <3>3
    <2>3. WellFormed(n)
      BY <1>1, <2>2, AccountsAssumption DEF WellFormed, Verifying
    <2>4. next = "attach" =>
             /\ target \in Workspaces /\ role[u][target] = "Owner"
             /\ target \in Legacy \/ pointer[u] # None
      <3> SUFFICES ASSUME next = "attach"
                   PROVE  /\ target \in Workspaces /\ role[u][target] = "Owner"
                          /\ target \in Legacy \/ pointer[u] # None
        OBVIOUS
      <3>1. target \in call[c].owned /\ target \in Workspaces /\ ~Shared(target, u)
        BY <1>1, <1>3, <2>1 DEF Request
      <3>2. role[u][target] = "Owner"
        BY <1>1, <1>2, <3>1 DEF Faithful
      <3>3. CASE target \in created
        <4>1. PICK v \in Users : pointer[v] = target /\ role[v][target] = "Owner"
          BY <3>3 DEF AccountsInv, Tables, OnePersonalWorkspace
        <4>2. v = u
          BY <3>1, <4>1 DEF Shared
        <4> QED BY <3>1, <3>2, <4>1, <4>2, AccountsAssumption
      <3> QED BY <3>1, <3>2, <3>3 DEF AccountsInv, Tables, PlacesInv
    <2>5. /\ link[n.link] = "gone" /\ [user |-> n.user, email |-> Mail(n)] \in accounts
      BY <1>1, <1>2, <2>2, AccountsAssumption DEF Faithful, Verifying, Mail
    <2>6. Faithful(n)
      BY <2>2, <2>4, <2>5 DEF Faithful, Verifying
    <2>7. Earning(n) => Earning(call[c]) /\ n.link = call[c].link
      BY <1>1, <2>2 DEF Earning, Verifying
    <2> QED BY <2>2, <2>3, <2>6, <2>7, CallMovesQuietly DEF Sound
  <1> QED BY <1>3, <1>4, <1>5, <1>6 DEF Kind

LEMMA ReadOwnersKeeps ==
    ASSUME AccountsInv, NEW c \in Calls, ReadOwners(c)
    PROVE  AccountsInv'
  <1>1. /\ call[c] \in Request /\ call[c].step = "owners" /\ call[c] # Idle
        /\ WellFormed(call[c]) /\ Faithful(call[c]) /\ Quiet /\ At(c, "owners")
    BY AtIsBusy DEF ReadOwners
  <1>2. PICK u \in Users : u = call[c].user
    BY <1>1 DEF WellFormed
  <1> DEFINE kind == Classify(c)
  <1>3. /\ kind \in Kind
        /\ kind = "recovery" => TrulyContradictory(u)
        /\ kind = "converged" => call[c].ptr # None /\ pointer[u] = call[c].ptr
        /\ kind = "none" => call[c].owned = {}
        /\ call[c].op # "verify" => kind \in {"converged", "recovery"}
    BY <1>1, <1>2, Classified
  <1>4. /\ Continue(c, kind) /\ call[c].op \in {"verify", "me", "intent"}
        /\ call[c].loop \in {"none", "create", "attach"}
        /\ call[c].op # "verify" => call[c].loop = "none"
    BY <1>1 DEF ReadOwners, Request, WellFormed
  <1> HIDE DEF kind
  <1>5. CASE call[c].op = "me"
    <2>1. OfMe(c, kind)
      BY <1>4, <1>5 DEF Continue
    <2>2. PICK value \in {"converged", "recovery"} :
             Answer(c, value) /\ (value = "recovery" => TrulyContradictory(u))
      BY <1>3, <1>5, <2>1 DEF OfMe
    <2> QED BY <1>1, <1>2, <1>5, <2>2, AnswerKeeps DEF WellFormed
  <1>6. CASE call[c].op = "intent"
    <2>1. OfIntent(c, kind)
      BY <1>4, <1>6 DEF Continue
    <2>2. CASE End(c)
      BY <1>1, <2>2, CallEnds
    <2>3. CASE Go(c, "lock") /\ ~End(c)
      <3>1. kind = "converged" /\ call[c].target = call[c].ptr
        BY <1>3, <1>6, <2>1, <2>3 DEF OfIntent
      <3>2. ~Go(c, "session")
        BY <1>1, <2>3 DEF Go, Set, Told, Request, AccountsInv
      <3> QED BY <1>1, <1>2, <1>3, <1>6, <2>3, <3>1, <3>2, GoKeeps
    <2> QED BY <2>1, <2>2, <2>3 DEF OfIntent
  <1>7. ASSUME call[c].op = "verify", Return(c), Settled(u)
        PROVE  AccountsInv'
    <2>1. Tables' /\ Grows /\ UNCHANGED <<session, capabilities>>
      BY <1>1, QuietGrows DEF Quiet
    <2>2. Settled(u)'
      BY <1>7, <2>1, SettledGrows DEF AccountsInv, Tables
    <2> QED BY <1>1, <1>2, <1>7, <2>1, <2>2, ReturnKeeps
  <1>8. CASE call[c].op = "verify" /\ call[c].loop = "create"
    <2>1. OfCreate(c, kind)
      BY <1>4, <1>8 DEF Continue
    <2>2. kind = "converged" => Settled(u)
      BY <1>3, AccountsAssumption DEF Settled
    <2> QED BY <1>1, <1>7, <1>8, <2>1, <2>2, RetryKeeps DEF OfCreate
  <1>9. CASE call[c].op = "verify" /\ call[c].loop = "attach"
    <2>1. OfAttach(c, kind)
      BY <1>4, <1>9 DEF Continue
    <2>2. kind # "none"
      BY <1>1, <1>3, <1>9 DEF Faithful
    <2>3. kind # "attachable" => Settled(u)
      BY <1>3, <2>2, AccountsAssumption DEF Settled, Kind
    <2> QED BY <1>1, <1>7, <1>9, <2>1, <2>3, RetryKeeps DEF OfAttach
  <1>10. CASE call[c].op = "verify" /\ call[c].loop = "none"
    <2>1. OfVerify(c, kind)
      BY <1>4, <1>10 DEF Continue
    <2> QED BY <1>1, <1>10, <2>1, OfVerifyKeeps DEF kind
  <1> QED BY <1>4, <1>5, <1>6, <1>8, <1>9, <1>10
-----------------------------------------------------------------------------
(* The transactions of convergence.                                         *)
LEMMA LostKeeps ==
    ASSUME AccountsInv, NEW c \in Calls, At(c, "create") \/ At(c, "attach"), Lost(c), Quiet
    PROVE  AccountsInv'
  <1>1. /\ call[c] \in Request /\ call[c].step \in {"create", "attach"} /\ call[c] # Idle
        /\ WellFormed(call[c]) /\ Faithful(call[c])
    BY AtIsBusy
  <1>2. call[c].tries + 1 \in 0..Budget
    BY <1>1, AccountsAssumption DEF WellFormed, Request
  <1>3. PICK n \in Request :
           /\ n.op = call[c].op /\ n.link = call[c].link /\ n.stage = call[c].stage
           /\ n.loop = call[c].loop /\ n.tries = call[c].tries + 1 /\ n.ptr = call[c].ptr
           /\ n.owned = call[c].owned /\ n.answer = call[c].answer /\ n.step = "pointer"
           /\ n.user = call[c].user /\ n.target = call[c].target /\ n.wish = call[c].wish
           /\ Set(c, n)
    <2> DEFINE m == [call[c] EXCEPT !.step = "pointer", !.tries = @ + 1]
    <2>1. m \in Request
      BY <1>1, <1>2 DEF Request
    <2>2. /\ m.op = call[c].op /\ m.link = call[c].link /\ m.stage = call[c].stage
          /\ m.loop = call[c].loop /\ m.tries = call[c].tries + 1 /\ m.ptr = call[c].ptr
          /\ m.owned = call[c].owned /\ m.answer = call[c].answer /\ m.step = "pointer"
          /\ m.user = call[c].user /\ m.target = call[c].target /\ m.wish = call[c].wish
      BY <1>1 DEF Request
    <2>3. Set(c, m)
      BY DEF Lost
    <2> HIDE DEF m
    <2> QED BY <2>1, <2>2, <2>3
  <1>4. WellFormed(n)
    BY <1>1, <1>3 DEF WellFormed, Verifying
  <1>5. Faithful(n)
    BY <1>1, <1>3, <1>4 DEF WellFormed, Faithful, Verifying, Mail
  <1>6. Earning(n) => Earning(call[c]) /\ n.link = call[c].link
    BY <1>1, <1>3 DEF Earning, Verifying
  <1> QED BY <1>3, <1>4, <1>5, <1>6, CallMovesQuietly DEF Sound

LEMMA CreateKeeps ==
    ASSUME AccountsInv, NEW c \in Calls, Create(c)
    PROVE  AccountsInv'
  <1>1. /\ call[c] \in Request /\ call[c].step = "create" /\ call[c] # Idle
        /\ WellFormed(call[c]) /\ Faithful(call[c]) /\ At(c, "create")
        /\ UNCHANGED <<people, capabilities, link, session>>
    BY AtIsBusy DEF Create
  <1>2. PICK u \in Users : u = call[c].user
    BY <1>1 DEF WellFormed
  <1>3. CASE Lost(c) /\ UNCHANGED places
    BY <1>1, <1>3, LostKeeps DEF Quiet
  <1>4. CASE PointerFree(u) /\ Return(c) /\ ~UNCHANGED places
    <2>1. PICK w \in Workspaces \ (Legacy \cup created) :
             /\ created' = created \cup {w}
             /\ role' = [role EXCEPT ![u][w] = "Owner"]
             /\ pointer' = [pointer EXCEPT ![u] = w]
      BY <1>2, <1>4, FreshIsOne DEF Create
    <2>2. /\ role' \in [Users -> [Workspaces -> Roles]]
          /\ \A v \in Users, x \in Workspaces :
                role'[v][x] = IF v = u /\ x = w THEN "Owner" ELSE role[v][x]
      <3> DEFINE row == [role[u] EXCEPT ![w] = "Owner"]
      <3>1. row \in [Workspaces -> Roles]
            /\ \A x \in Workspaces : row[x] = IF x = w THEN "Owner" ELSE role[u][x]
        BY DEF AccountsInv, Tables, TablesTypeOK, Roles
      <3>2. role' = [role EXCEPT ![u] = row]
        BY <2>1
      <3> HIDE DEF row
      <3> QED BY <3>1, <3>2 DEF AccountsInv, Tables, TablesTypeOK
    <2>3. /\ pointer' \in [Users -> Workspaces \cup {None}]
          /\ \A v \in Users : pointer'[v] = IF v = u THEN w ELSE pointer[v]
      BY <2>1 DEF AccountsInv, Tables, TablesTypeOK
    <2>4. pointer[u] = None /\ w # None
      BY <1>4, AccountsAssumption DEF PointerFree
    <2>5. \A v \in Users : pointer[v] # w
      BY <2>4 DEF AccountsInv, Tables, PlacesInv
    <2>6. Grows
      <3>1. \A v \in Users : pointer[v] # None =>
               v # u /\ pointer'[v] = pointer[v] /\ pointer[v] \in Workspaces
        BY <2>3, <2>4 DEF AccountsInv, Tables, TablesTypeOK
      <3> QED BY <1>1, <2>2, <3>1 DEF Grows, people
    <2>7. OnePersonalWorkspace'
      <3> SUFFICES ASSUME NEW x \in created'
                   PROVE  \E v \in Users : /\ pointer'[v] = x /\ role'[v][x] = "Owner"
                                           /\ \A y \in Users : pointer'[y] = x => y = v
        BY DEF OnePersonalWorkspace
      <3>1. CASE x = w
        BY <2>2, <2>3, <2>5, <3>1
      <3>2. CASE x # w
        <4>1. x \in created /\ x \in Workspaces
          BY <2>1, <3>2 DEF AccountsInv, Tables, TablesTypeOK
        <4>2. PICK v \in Users : /\ pointer[v] = x /\ role[v][x] = "Owner"
                                 /\ \A y \in Users : pointer[y] = x => y = v
          BY <4>1 DEF AccountsInv, Tables, OnePersonalWorkspace
        <4>3. v # u
          BY <2>4, <4>1, <4>2, AccountsAssumption
        <4> QED BY <2>2, <2>3, <3>2, <4>1, <4>2, <4>3
      <3> QED BY <3>1, <3>2
    <2>8. Tables'
      BY <1>1, <2>1, <2>2, <2>3, <2>7
         DEF AccountsInv, Tables, TablesTypeOK, PeopleInv, PlacesInv, people
    <2>9. Settled(u)'
      BY <2>3, <2>4 DEF Settled
    <2>10. call[c].op = "verify"
      BY <1>1 DEF WellFormed
    <2> QED BY <1>1, <1>2, <1>4, <2>6, <2>8, <2>9, <2>10, ReturnKeeps
  <1>5. \/ Lost(c) /\ UNCHANGED places
        \/ PointerFree(u) /\ Return(c) /\ ~UNCHANGED places
    <2>1. CASE ~PointerFree(u)
      BY <1>2, <2>1 DEF Create
    <2>2. CASE PointerFree(u)
      <3>1. PICK w \in Workspaces \ (Legacy \cup created) :
               created' = created \cup {w} /\ Return(c)
        BY <1>2, <2>2, FreshIsOne DEF Create
      <3> QED BY <2>2, <3>1 DEF places
    <2> QED BY <2>1, <2>2
  <1> QED BY <1>3, <1>4, <1>5

LEMMA AttachKeeps ==
    ASSUME AccountsInv, NEW c \in Calls, Attach(c)
    PROVE  AccountsInv'
  <1>1. /\ call[c] \in Request /\ call[c].step = "attach" /\ call[c] # Idle
        /\ WellFormed(call[c]) /\ Faithful(call[c]) /\ At(c, "attach")
        /\ UNCHANGED <<people, role, created, capabilities, link, session>>
    BY AtIsBusy DEF Attach
  <1>2. PICK u \in Users : u = call[c].user
    BY <1>1 DEF WellFormed
  <1>3. CASE ~PointerFree(u)
    BY <1>1, <1>2, <1>3, LostKeeps DEF Attach, Quiet, places
  <1>4. CASE PointerFree(u)
    <2>1. PICK w : w = call[c].target
      OBVIOUS
    <2>2. w \in Legacy /\ w \in Workspaces /\ w # None /\ role[u][w] = "Owner"
      BY <1>1, <1>2, <1>4, <2>1, AccountsAssumption DEF WellFormed, Faithful, PointerFree
    <2>3. pointer' = [pointer EXCEPT ![u] = w] /\ Return(c)
      BY <1>2, <1>4, <2>1 DEF Attach
    <2>4. /\ pointer' \in [Users -> Workspaces \cup {None}]
          /\ \A v \in Users : pointer'[v] = IF v = u THEN w ELSE pointer[v]
      BY <2>2, <2>3 DEF AccountsInv, Tables, TablesTypeOK
    <2>5. Grows
      BY <1>1, <1>4, <2>4 DEF Grows, people, PointerFree
    <2>6. OnePersonalWorkspace'
      <3> SUFFICES ASSUME NEW x \in created
                   PROVE  \E v \in Users : /\ pointer'[v] = x /\ role[v][x] = "Owner"
                                           /\ \A y \in Users : pointer'[y] = x => y = v
        BY <1>1 DEF OnePersonalWorkspace
      <3>1. x # w /\ x # None
        BY <2>2, AccountsAssumption DEF AccountsInv, Tables, TablesTypeOK
      <3>2. PICK v \in Users : /\ pointer[v] = x /\ role[v][x] = "Owner"
                               /\ \A y \in Users : pointer[y] = x => y = v
        BY DEF AccountsInv, Tables, OnePersonalWorkspace
      <3> QED BY <1>4, <2>4, <3>1, <3>2 DEF PointerFree
    <2>7. Tables'
      BY <1>1, <2>2, <2>4, <2>6
         DEF AccountsInv, Tables, TablesTypeOK, PeopleInv, PlacesInv, people
    <2>8. Settled(u)' /\ call[c].op = "verify"
      BY <1>1, <2>2, <2>4 DEF Settled, WellFormed
    <2> QED BY <1>1, <1>2, <2>3, <2>5, <2>7, <2>8, ReturnKeeps
  <1> QED BY <1>3, <1>4
-----------------------------------------------------------------------------
(* The lock of an intent.                                                   *)
LEMMA LockAndReadKeeps ==
    ASSUME AccountsInv, NEW c \in Calls, LockAndRead(c)
    PROVE  AccountsInv'
  <1>1. /\ call[c] \in Request /\ call[c].step = "lock" /\ call[c] # Idle
        /\ WellFormed(call[c]) /\ Faithful(call[c]) /\ Quiet
    BY AtIsBusy DEF LockAndRead
  <1>2. call[c].target \in Workspaces /\ call[c].op = "intent"
    BY <1>1 DEF WellFormed
  <1>3. PICK n \in Request :
           /\ n.op = call[c].op /\ n.link = call[c].link /\ n.stage = call[c].stage
           /\ n.loop = call[c].loop /\ n.tries = call[c].tries /\ n.ptr = call[c].ptr
           /\ n.owned = call[c].owned /\ n.answer = call[c].answer /\ n.step = "write"
           /\ n.user = call[c].user /\ n.target = call[c].target /\ n.wish = call[c].wish
           /\ n.seen = capabilities[call[c].target] /\ Set(c, n)
    <2> DEFINE m == [call[c] EXCEPT !.step = "write", !.seen = capabilities[call[c].target]]
    <2>1. m \in Request
      BY <1>1, <1>2 DEF Request, AccountsInv
    <2>2. /\ m.op = call[c].op /\ m.link = call[c].link /\ m.stage = call[c].stage
          /\ m.loop = call[c].loop /\ m.tries = call[c].tries /\ m.ptr = call[c].ptr
          /\ m.owned = call[c].owned /\ m.answer = call[c].answer /\ m.step = "write"
          /\ m.user = call[c].user /\ m.target = call[c].target /\ m.wish = call[c].wish
          /\ m.seen = capabilities[call[c].target]
      BY <1>1 DEF Request
    <2>3. Set(c, m)
      BY DEF LockAndRead
    <2> HIDE DEF m
    <2> QED BY <2>1, <2>2, <2>3
  <1>4. Tables' /\ Grows
    BY <1>1, QuietGrows
  <1>5. WellFormed(n)
    BY <1>1, <1>3 DEF WellFormed, Verifying
  <1>6. Faithful(n)
    BY <1>1, <1>2, <1>3 DEF Faithful, Verifying, Mail
  <1>7. Sound(n)'
    BY <1>4, <1>5, <1>6, SoundGrows DEF AccountsInv, Tables, Sound
  <1>8. /\ call' \in [Calls -> Request \cup {Idle}]
        /\ \A d \in Calls : call'[d] = IF d = c THEN n ELSE call[d]
    BY <1>3 DEF AccountsInv, Set
  <1>9. \A d \in Calls : Sound(call[d])'
    BY <1>4, <1>7, <1>8, OthersStaySound DEF Tables
  <1>10. SessionInv' /\ UNCHANGED <<session, capabilities>>
    BY <1>1, <1>4, SessionsGrow DEF AccountsInv, Quiet
  <1>11. EarningsDiffer'
    BY <1>2, <1>3, <1>8, <1>10 DEF AccountsInv, EarningsDiffer, Earning, Verifying
  <1>12. LocksExclude'
    <2>1. \A d \in Calls : At(d, "write") => call[d].target # call[c].target
      BY DEF LockAndRead, LockFree
    <2> QED BY <1>3, <1>8, <1>10, <2>1 DEF AccountsInv, LocksExclude, At
  <1> QED BY <1>4, <1>8, <1>9, <1>10, <1>11, <1>12 DEF AccountsInv

LEMMA WriteKeeps ==
    ASSUME AccountsInv, NEW c \in Calls, Write(c)
    PROVE  /\ AccountsInv'
           /\ \A w \in Workspaces : capabilities'[w] # capabilities[w] =>
                 WrittenAsExpected(c, w)
  <1>1. /\ call[c] \in Request /\ call[c].step = "write" /\ call[c] # Idle
        /\ WellFormed(call[c]) /\ Faithful(call[c]) /\ At(c, "write")
        /\ UNCHANGED <<people, places, link, session>>
    BY AtIsBusy DEF Write
  <1>2. /\ call[c].target \in Workspaces /\ pointer[call[c].user] = call[c].target
        /\ call[c].wish \in Wishes /\ call[c].wish.chosen \subseteq Abilities
        /\ call[c].seen = capabilities[call[c].target]
    BY <1>1, AccountsAssumption
       DEF WellFormed, Faithful, AccountsInv, LocksExclude, Wish
  <1>3. \/ UNCHANGED capabilities
        \/ /\ call[c].seen = call[c].wish.expected
           /\ capabilities' = [capabilities EXCEPT ![call[c].target] =
                                  @ \cup call[c].wish.chosen]
    BY DEF Write
  <1>4. /\ capabilities' \in [Workspaces -> SUBSET Abilities]
        /\ \A w \in Workspaces : w # call[c].target => capabilities'[w] = capabilities[w]
        /\ \A w \in Workspaces : capabilities'[w] # capabilities[w] =>
              WrittenAsExpected(c, w)
    <2>1. CASE UNCHANGED capabilities
      BY <2>1 DEF AccountsInv
    <2>2. CASE /\ call[c].seen = call[c].wish.expected
               /\ capabilities' = [capabilities EXCEPT ![call[c].target] =
                                      @ \cup call[c].wish.chosen]
      BY <1>1, <1>2, <2>2 DEF AccountsInv, WrittenAsExpected
    <2> QED BY <1>3, <2>1, <2>2
  <1>5. /\ call' \in [Calls -> Request \cup {Idle}]
        /\ \A d \in Calls : call'[d] = IF d = c THEN Idle ELSE call[d]
    BY DEF Write, End, AccountsInv, Set
  <1>6. Tables' /\ Grows
    BY <1>1 DEF AccountsInv, people, places, Tables, TablesTypeOK, PeopleInv, PlacesInv,
                OnePersonalWorkspace, Grows
  <1>7. \A d \in Calls : Sound(call[d])'
    <2>1. Sound(Idle)'
      BY DEF Sound
    <2> QED BY <1>5, <1>6, <2>1, OthersStaySound DEF Tables
  <1>8. SessionInv'
    BY <1>1, <1>6, SessionsGrow DEF AccountsInv
  <1>9. EarningsDiffer'
    BY <1>1, <1>5 DEF AccountsInv, EarningsDiffer, Earning, Verifying
  <1>10. LocksExclude'
    <2> SUFFICES ASSUME NEW d \in Calls, At(d, "write")'
                 PROVE  /\ call'[d].seen = capabilities'[call'[d].target]
                        /\ \A e \in Calls : e # d /\ At(e, "write")' =>
                              call'[e].target # call'[d].target
      BY DEF LocksExclude, At
    <2>1. d # c /\ call'[d] = call[d] /\ At(d, "write")
      BY <1>5 DEF At, Idle
    <2>2. call[d].target # call[c].target /\ call[d].target \in Workspaces
      BY <1>1, <2>1, AtIsBusy DEF AccountsInv, LocksExclude, WellFormed
    <2>3. call[d].seen = capabilities'[call[d].target]
      BY <1>4, <2>1, <2>2 DEF AccountsInv, LocksExclude
    <2>4. \A e \in Calls : At(e, "write")' => call'[e] = call[e] /\ At(e, "write")
      BY <1>5 DEF At, Idle
    <2> QED BY <2>1, <2>3, <2>4 DEF AccountsInv, LocksExclude
  <1> QED BY <1>4, <1>5, <1>6, <1>7, <1>8, <1>9, <1>10 DEF AccountsInv
-----------------------------------------------------------------------------
LEMMA AccountsStep == AccountsInv /\ [Next]_vars => AccountsInv'
  <1> SUFFICES ASSUME AccountsInv, [Next]_vars PROVE AccountsInv'
    OBVIOUS
  <1>1. CASE UNCHANGED vars
    <2>1. Quiet /\ UNCHANGED <<call, session, capabilities>>
      BY <1>1 DEF vars, Quiet
    <2>2. Tables' /\ Grows
      BY <2>1, QuietGrows
    <2>3. SessionInv'
      BY <2>1, <2>2, SessionsGrow DEF AccountsInv
    <2> QED BY <2>1, <2>2, <2>3, CallsRest
  <1>2. ASSUME NEW c \in Calls, Fail(c) \/ Progress(c)
        PROVE  AccountsInv'
    BY <1>2, EndKeeps, FindIdentityKeeps, InsertIdentityKeeps, CreateSessionKeeps,
       ReadPointerKeeps, ReadOwnedKeeps, ReadOwnersKeeps, CreateKeeps, AttachKeeps,
       LockAndReadKeeps, WriteKeeps DEF Progress
  <1>3. ASSUME NEW c \in Calls,
               \/ \E l \in Links : Verify(c, l)
               \/ \E s \in Sessions : Me(c, s)
               \/ \E s \in Sessions, w \in Workspaces, wish \in Wishes :
                     SubmitIntent(c, s, w, wish)
        PROVE  AccountsInv'
    BY <1>3, VerifyKeeps, SessionRequestKeeps
  <1> QED BY <1>1, <1>2, <1>3, LinkStepKeeps, EndSessionKeeps, GrantOwnerKeeps, RestartKeeps
          DEF Next

THEOREM AccountsInvariant == Spec => []AccountsInv
  BY InitInv, AccountsStep, PTL DEF Spec

(* The type of every table and call (AccountsTypeOK).                       *)
THEOREM AccountsTypeCorrect == Spec => []AccountsTypeOK
  <1>1. AccountsInv => AccountsTypeOK
    BY DEF AccountsInv, Tables, TablesTypeOK, SessionInv, AccountsTypeOK
  <1> QED BY <1>1, AccountsInvariant, PTL

(* One link, one session, and one account for an email                      *)
(* (SessionsAreEarned), however the sign-ins race.                          *)
THEOREM SessionsStayEarned == Spec => []SessionsAreEarned
  <1>1. AccountsInv => SessionsAreEarned
    <2> SUFFICES ASSUME AccountsInv, NEW s \in Sessions, NEW t \in Sessions,
                        session[s] # None, session[t] # None
                 PROVE  /\ s # t => session[s].link # session[t].link
                        /\ EmailOf[IdentityOf[session[s].link]]
                              = EmailOf[IdentityOf[session[t].link]]
                              => session[s].user = session[t].user
      BY DEF SessionsAreEarned
    <2>1. s # t => session[s].link # session[t].link
      BY DEF AccountsInv, SessionInv
    <2>2. /\ [user |-> session[s].user, email |-> Mail(session[s])] \in accounts
          /\ [user |-> session[t].user, email |-> Mail(session[t])] \in accounts
      BY DEF AccountsInv, SessionInv
    <2>3. Mail(session[s]) = Mail(session[t]) => session[s].user = session[t].user
      BY <2>2 DEF AccountsInv, Tables, PeopleInv
    <2> QED BY <2>1, <2>3 DEF Mail
  <1> QED BY <1>1, AccountsInvariant, PTL

(* What convergence makes is one account's (OnePersonalWorkspace).          *)
THEOREM WorkspacesStayPersonal == Spec => []OnePersonalWorkspace
  <1>1. AccountsInv => OnePersonalWorkspace
    BY DEF AccountsInv, Tables
  <1> QED BY <1>1, AccountsInvariant, PTL

(* "recovery" is never a mixture of two good states (NoFalseRecovery).      *)
THEOREM RecoveryIsReal == Spec => []NoFalseRecovery
  <1>1. AccountsInv => NoFalseRecovery
    BY DEF AccountsInv, Sound, Faithful, NoFalseRecovery
  <1> QED BY <1>1, AccountsInvariant, PTL

(* Two choices made from the same screen never add up (NoSilentUnion).      *)
THEOREM CapabilitiesAsExpected == Spec => NoSilentUnion
  <1> DEFINE Expected == \A w \in Workspaces : capabilities'[w] # capabilities[w] =>
                            \E c \in Calls : WrittenAsExpected(c, w)
  <1>1. AccountsInv /\ [Next]_vars => [Expected]_vars
    <2> SUFFICES ASSUME AccountsInv, Next PROVE Expected
      OBVIOUS
    <2>1. CASE UNCHANGED capabilities
      BY <2>1
    <2>2. ASSUME NEW c \in Calls, Write(c)
          PROVE  Expected
      BY <2>2, WriteKeeps
    <2>3. CASE \E c \in Calls : Progress(c)
      BY <2>1, <2>2, <2>3
         DEF Progress, FindIdentity, InsertIdentity, LoseInsert, CreateSession, ReadPointer,
             ReadOwned, ReadOwners, Create, Attach, LockAndRead, Deliver, Quiet
    <2> HIDE DEF Expected
    <2> QED BY <2>1, <2>3 DEF Next, RequestSignIn, ExpireLink, EndSession, GrantOwner, Restart,
               Verify, Me, SubmitIntent, Fail, Quiet
  <1> QED BY <1>1, AccountsInvariant, PTL DEF Spec, NoSilentUnion
-----------------------------------------------------------------------------
(* Requests implement PersonalHomes.  The mapping needs three more facts of *)
(* a call: whom its identity belongs to, that who sends an intent signed in,*)
(* and that the workspace it attaches is the home of no other owner.        *)
Attaching(r) == r # Idle /\ r.loop = "attach"

PersonKnown(r) ==
    r.op = "verify" /\ r.step \notin {"identify", "insert", "done"} =>
        mapping[IdentityOf[r.link]] = r.user

SignedIn(r) ==
    r.op = "intent" /\ r.step # "done" =>
        \E s \in Sessions : session[s] # None /\ session[s].user = r.user

NotTaken(r) ==
    r.loop = "attach" =>
        \A v \in Users \ {r.user} : role[v][r.target] = "Owner" => pointer[v] # r.target

Rooted(r) == r # Idle => PersonKnown(r) /\ SignedIn(r) /\ NotTaken(r)

AttachersDiffer ==
    \A c, d \in Calls : Attaching(call[c]) /\ Attaching(call[d]) /\ call[c].user # call[d].user =>
        call[c].target # call[d].target

HomesInv == AccountsInv /\ (\A c \in Calls : Rooted(call[c])) /\ AttachersDiffer

(* A step leaves these facts alone for the calls that do not take it.       *)
Stays ==
    /\ \A i \in Identities : mapping[i] # None => mapping'[i] = mapping[i]
    /\ \A s \in Sessions : session[s] # None =>
          session'[s] # None /\ session'[s].user = session[s].user
    /\ \A c \in Calls : Attaching(call[c]) =>
          \A v \in Users \ {call[c].user} :
             role'[v][call[c].target] = "Owner" => pointer'[v] # call[c].target

LEMMA QuietStays == ASSUME HomesInv, UNCHANGED <<mapping, session, pointer, role>> PROVE Stays
  BY DEF Stays, HomesInv, Rooted, Attaching, NotTaken

(* What a call knows stays known, as whatever call is served next.          *)
LEMMA RootedStays ==
    ASSUME HomesInv, Stays, NEW c \in Calls, call[c] # Idle, call'[c] = call[c]
    PROVE  PersonKnown(call[c])' /\ SignedIn(call[c])' /\ NotTaken(call[c])'
  <1>1. /\ PersonKnown(call[c]) /\ SignedIn(call[c]) /\ NotTaken(call[c])
        /\ WellFormed(call[c])
    BY CallKnown DEF HomesInv, Rooted
  <1>2. PersonKnown(call[c])'
    <2> SUFFICES ASSUME call[c].op = "verify", call[c].step \notin {"identify", "insert", "done"}
                 PROVE  mapping'[IdentityOf[call[c].link]] = call[c].user
      BY DEF PersonKnown
    <2>1. IdentityOf[call[c].link] \in Identities /\ call[c].user # None
      BY <1>1, AccountsAssumption DEF WellFormed, Verifying
    <2> QED BY <1>1, <2>1 DEF PersonKnown, Stays
  <1>3. SignedIn(call[c])'
    BY <1>1 DEF SignedIn, Stays
  <1>4. NotTaken(call[c])'
    BY DEF NotTaken, Stays, Attaching
  <1> QED BY <1>2, <1>3, <1>4

(* One call takes a step.                                                   *)
LEMMA RootsKeep ==
    ASSUME HomesInv, AccountsInv', Stays, NEW c \in Calls,
           \A d \in Calls \ {c} : call'[d] = call[d],
           Rooted(call[c])',
           \A d \in Calls \ {c} :
              Attaching(call'[c]) /\ Attaching(call[d]) /\ call'[c].user # call[d].user =>
                 call'[c].target # call[d].target
    PROVE  HomesInv'
  <1>1. \A d \in Calls : Rooted(call[d])'
    BY RootedStays DEF Rooted
  <1>2. AttachersDiffer'
    <2> SUFFICES ASSUME NEW d \in Calls, NEW e \in Calls, Attaching(call'[d]),
                        Attaching(call'[e]), call'[d].user # call'[e].user
                 PROVE  call'[d].target # call'[e].target
      BY DEF AttachersDiffer, Attaching
    <2>1. CASE d # c /\ e # c
      BY <2>1 DEF HomesInv, AttachersDiffer
    <2>2. CASE d = c /\ e # c
      BY <2>2
    <2>3. CASE d # c /\ e = c
      BY <2>3
    <2> QED BY <2>1, <2>2, <2>3
  <1> QED BY <1>1, <1>2 DEF HomesInv

(* A call that goes on, without having found another workspace to attach.   *)
Follows(c) ==
    \/ call'[c] = Idle
    \/ /\ call[c].step \notin {"identify", "insert", "done"}
       /\ call'[c].op = call[c].op /\ call'[c].user = call[c].user
       /\ call'[c].step # "done" => call'[c].link = call[c].link
       /\ call'[c].loop = "attach" => call[c].loop = "attach" /\ call'[c].target = call[c].target

LEMMA FollowersKeep ==
    ASSUME HomesInv, AccountsInv', Stays, NEW c \in Calls, call[c] # Idle,
           \A d \in Calls \ {c} : call'[d] = call[d], Follows(c)
    PROVE  HomesInv'
  <1>1. CASE call'[c] = Idle
    BY <1>1, RootsKeep DEF Rooted, Attaching
  <1>2. CASE call'[c] # Idle
    <2>1. /\ call[c].step \notin {"identify", "insert", "done"}
          /\ call'[c].op = call[c].op /\ call'[c].user = call[c].user
          /\ call'[c].step # "done" => call'[c].link = call[c].link
          /\ call'[c].loop = "attach" =>
                call[c].loop = "attach" /\ call'[c].target = call[c].target
          /\ WellFormed(call[c]) /\ PersonKnown(call[c]) /\ SignedIn(call[c])
      BY <1>2, CallKnown DEF Follows, HomesInv, Rooted
    <2>2. PersonKnown(call[c])'
      <3> SUFFICES ASSUME call'[c].op = "verify",
                          call'[c].step \notin {"identify", "insert", "done"}
                   PROVE  mapping'[IdentityOf[call'[c].link]] = call'[c].user
        BY DEF PersonKnown
      <3>1. IdentityOf[call[c].link] \in Identities /\ call[c].user # None
        BY <2>1, AccountsAssumption DEF WellFormed, Verifying
      <3> QED BY <2>1, <3>1 DEF PersonKnown, Stays
    <2>3. SignedIn(call[c])'
      BY <2>1 DEF SignedIn, Stays
    <2>4. NotTaken(call[c])'
      BY <2>1 DEF NotTaken, Stays, Attaching
    <2> QED BY <2>1, <2>2, <2>3, <2>4, RootsKeep
            DEF Rooted, Attaching, HomesInv, AttachersDiffer
  <1> QED BY <1>1, <1>2
-----------------------------------------------------------------------------
(* What the steps of a call do to the call.                                 *)
LEMMA CallsOthers ==
    ASSUME AccountsInv, NEW c \in Calls, NEW n, Set(c, n)
    PROVE  call'[c] = n /\ \A d \in Calls \ {c} : call'[d] = call[d]
  BY DEF AccountsInv, Set

LEMMA PlainStepFollows ==
    ASSUME AccountsInv, NEW c \in Calls,
           CreateSession(c) \/ ReadPointer(c) \/ ReadOwned(c) \/ LockAndRead(c)
    PROVE  Follows(c)
  <1>1. call[c] \in Request /\ call[c].step \in {"session", "pointer", "owned", "lock"}
    BY AtIsBusy DEF CreateSession, ReadPointer, ReadOwned, LockAndRead
  <1>2. CASE CreateSession(c)
    <2> DEFINE m == [call[c] EXCEPT !.step = "pointer", !.stage = "setup"]
    <2>1. /\ m.op = call[c].op /\ m.user = call[c].user /\ m.link = call[c].link
          /\ m.loop = call[c].loop /\ m.target = call[c].target
      BY <1>1 DEF Request
    <2>2. Set(c, m)
      BY <1>2 DEF CreateSession
    <2> HIDE DEF m
    <2> QED BY <1>1, <2>1, <2>2, CallsOthers DEF Follows
  <1>3. CASE ReadPointer(c)
    <2> DEFINE m == [call[c] EXCEPT !.ptr = pointer[call[c].user], !.step = "owned"]
    <2>1. /\ m.op = call[c].op /\ m.user = call[c].user /\ m.link = call[c].link
          /\ m.loop = call[c].loop /\ m.target = call[c].target
      BY <1>1 DEF Request
    <2>2. Set(c, m)
      BY <1>3 DEF ReadPointer
    <2> HIDE DEF m
    <2> QED BY <1>1, <2>1, <2>2, CallsOthers DEF Follows
  <1>4. CASE ReadOwned(c)
    <2> DEFINE m == [call[c] EXCEPT !.owned = OwnedBy(call[c].user), !.step = "owners"]
    <2>1. /\ m.op = call[c].op /\ m.user = call[c].user /\ m.link = call[c].link
          /\ m.loop = call[c].loop /\ m.target = call[c].target
      BY <1>1 DEF Request
    <2>2. Set(c, m)
      BY <1>4 DEF ReadOwned
    <2> HIDE DEF m
    <2> QED BY <1>1, <2>1, <2>2, CallsOthers DEF Follows
  <1>5. CASE LockAndRead(c)
    <2> DEFINE m == [call[c] EXCEPT !.step = "write", !.seen = capabilities[call[c].target]]
    <2>1. /\ m.op = call[c].op /\ m.user = call[c].user /\ m.link = call[c].link
          /\ m.loop = call[c].loop /\ m.target = call[c].target
      BY <1>1 DEF Request
    <2>2. Set(c, m)
      BY <1>5 DEF LockAndRead
    <2> HIDE DEF m
    <2> QED BY <1>1, <2>1, <2>2, CallsOthers DEF Follows
  <1> QED BY <1>2, <1>3, <1>4, <1>5

LEMMA GoFollows ==
    ASSUME AccountsInv, NEW c \in Calls, call[c] # Idle,
           call[c].step \notin {"identify", "insert", "done"},
           NEW s \in {"session", "create", "attach", "lock"}, Go(c, s)
    PROVE  Follows(c)
  <1>1. call[c] \in Request
    BY CallKnown
  <1> DEFINE t == Told(c)  m == [t EXCEPT !.step = s]
  <1>2. /\ t.op = call[c].op /\ t.user = call[c].user /\ t.link = call[c].link
        /\ t.loop = call[c].loop /\ t.target = call[c].target
        /\ DOMAIN t = DOMAIN call[c]
    BY <1>1 DEF Told, Request
  <1> HIDE DEF t
  <1>3. /\ m.op = call[c].op /\ m.user = call[c].user /\ m.link = call[c].link
        /\ m.loop = call[c].loop /\ m.target = call[c].target
    BY <1>2
  <1>4. call'[c] = m
    BY CallsOthers DEF Go, t
  <1> QED BY <1>3, <1>4 DEF Follows

LEMMA AnswerFollows ==
    ASSUME AccountsInv, NEW c \in Calls, call[c].loop = "none", call[c] # Idle,
           call[c].step \notin {"identify", "insert", "done"},
           NEW value, Answer(c, value)
    PROVE  Follows(c)
  <1>1. call[c] \in Request
    BY CallKnown
  <1> DEFINE t == Told(c)
             m == [t EXCEPT !.step = "done", !.answer = value, !.stage = "converge",
                            !.link = None, !.target = None, !.wish = None, !.seen = {}]
  <1>2. /\ t.op = call[c].op /\ t.user = call[c].user /\ t.loop = call[c].loop
        /\ DOMAIN t = DOMAIN call[c]
    BY <1>1 DEF Told, Request
  <1>3. DOMAIN t = {"op", "step", "link", "user", "stage", "loop", "tries", "ptr", "owned",
                    "target", "wish", "seen", "answer"}
    BY <1>1, <1>2 DEF Request
  <1> HIDE DEF t
  <1>4. /\ m.op = call[c].op /\ m.user = call[c].user /\ m.loop = "none" /\ m.step = "done"
    BY <1>2, <1>3
  <1>5. call'[c] = m
    BY CallsOthers DEF Answer, t
  <1> QED BY <1>4, <1>5 DEF Follows

LEMMA ReturnFollows ==
    ASSUME AccountsInv, NEW c \in Calls, call[c] # Idle,
           call[c].step \notin {"identify", "insert", "done"}, Return(c)
    PROVE  Follows(c) /\ call'[c] # Idle /\ call'[c].loop = "none"
  <1>1. call[c] \in Request
    BY CallKnown
  <1> DEFINE t == Told(c)
             m == [t EXCEPT !.step = "session", !.loop = "none", !.tries = 0]
             k == [t EXCEPT !.step = "pointer", !.loop = "none", !.tries = 0,
                            !.stage = "final"]
  <1>2. /\ t.op = call[c].op /\ t.user = call[c].user /\ t.link = call[c].link
        /\ DOMAIN t = DOMAIN call[c]
    BY <1>1 DEF Told, Request
  <1>3. DOMAIN t = {"op", "step", "link", "user", "stage", "loop", "tries", "ptr", "owned",
                    "target", "wish", "seen", "answer"}
    BY <1>1, <1>2 DEF Request
  <1> HIDE DEF t
  <1>4. /\ m.op = call[c].op /\ m.user = call[c].user /\ m.link = call[c].link
        /\ m.loop = "none" /\ m.step = "session"
    BY <1>2, <1>3
  <1>5. /\ k.op = call[c].op /\ k.user = call[c].user /\ k.link = call[c].link
        /\ k.loop = "none" /\ k.step = "pointer"
    BY <1>2, <1>3
  <1>6. call'[c] = m \/ call'[c] = k
    BY CallsOthers DEF Return, t
  <1> HIDE DEF m, k
  <1> QED BY <1>4, <1>5, <1>6 DEF Follows, Idle

LEMMA LostFollows ==
    ASSUME AccountsInv, NEW c \in Calls, call[c] # Idle,
           call[c].step \notin {"identify", "insert", "done"}, Lost(c)
    PROVE  Follows(c)
  <1>1. call[c] \in Request
    BY CallKnown
  <1>2. call'[c] = [call[c] EXCEPT !.step = "pointer", !.tries = @ + 1]
    BY CallsOthers DEF Lost
  <1> QED BY <1>1, <1>2 DEF Follows, Request
-----------------------------------------------------------------------------
(* Every step keeps HomesInv.                                               *)
LEMMA RestRooted ==
    ASSUME HomesInv, AccountsInv', Stays, UNCHANGED call
    PROVE  HomesInv'
  <1>1. \A c \in Calls : Rooted(call[c])'
    BY RootedStays DEF Rooted
  <1> QED BY <1>1 DEF HomesInv, AttachersDiffer, Attaching

LEMMA GrantStays ==
    ASSUME HomesInv, NEW u \in Users, NEW w \in Workspaces, GrantOwner(u, w)
    PROVE  Stays
  <1>1. \A v \in Users, x \in Workspaces :
           role'[v][x] = "Owner" => role[v][x] = "Owner" \/ (v = u /\ x = w)
    BY DEF HomesInv, AccountsInv, Tables, TablesTypeOK, GrantOwner
  <1>2. \A c \in Calls : Attaching(call[c]) =>
           call[c].target \in Workspaces /\ NotTaken(call[c])
    BY CallKnown DEF HomesInv, Attaching, Rooted, Faithful
  <1> QED BY <1>1, <1>2 DEF Stays, GrantOwner, people, NotTaken, Attaching

LEMMA TableStepRooted ==
    ASSUME HomesInv, AccountsInv',
           \/ \E l \in Links : RequestSignIn(l) \/ ExpireLink(l)
           \/ \E s \in Sessions : EndSession(s)
           \/ \E u \in Users, w \in Workspaces : GrantOwner(u, w)
    PROVE  HomesInv'
  <1>1. CASE \E l \in Links : RequestSignIn(l) \/ ExpireLink(l)
    BY <1>1, QuietStays, RestRooted DEF RequestSignIn, ExpireLink, people, places
  <1>2. ASSUME NEW s \in Sessions, EndSession(s) PROVE HomesInv'
    <2>1. session[s] \in Session /\ session \in [Sessions -> Session \cup {None}]
      BY <1>2 DEF EndSession, HomesInv, AccountsInv, SessionInv
    <2> DEFINE n == [session[s] EXCEPT !.live = FALSE]
    <2>2. n \in Session /\ n.user = session[s].user
      BY <2>1 DEF Session
    <2>3. n # None
      BY <2>2, AccountsAssumption
    <2>4. session' = [session EXCEPT ![s] = n]
      BY <1>2 DEF EndSession
    <2> HIDE DEF n
    <2>5. \A t \in Sessions : session[t] # None =>
             session'[t] # None /\ session'[t].user = session[t].user
      BY <2>1, <2>2, <2>3, <2>4
    <2>6. UNCHANGED <<mapping, pointer, role, call>>
      BY <1>2 DEF EndSession, people, places
    <2>7. Stays
      BY <2>5, <2>6 DEF Stays, HomesInv, Rooted, NotTaken, Attaching
    <2> QED BY <2>6, <2>7, RestRooted
  <1>3. ASSUME NEW u \in Users, NEW w \in Workspaces, GrantOwner(u, w) PROVE HomesInv'
    BY <1>3, GrantStays, RestRooted DEF GrantOwner
  <1> QED BY <1>1, <1>2, <1>3

LEMMA RestartRooted ==
    ASSUME HomesInv, AccountsInv', Restart
    PROVE  HomesInv'
  BY DEF Restart, HomesInv, Rooted, AttachersDiffer, Attaching
-----------------------------------------------------------------------------
LEMMA VerifyRooted ==
    ASSUME HomesInv, AccountsInv', NEW c \in Calls, NEW l \in Links, Verify(c, l)
    PROVE  HomesInv'
  <1> DEFINE n == [op |-> "verify", step |-> "identify", link |-> l, user |-> None,
                   stage |-> "converge", loop |-> "none", tries |-> 0, ptr |-> None,
                   owned |-> {}, target |-> None, wish |-> None, seen |-> {},
                   answer |-> "none"]
  <1>1. n.op = "verify" /\ n.step = "identify" /\ n.loop = "none"
    OBVIOUS
  <1>2. Set(c, n) /\ UNCHANGED <<mapping, session, pointer, role>>
    BY DEF Verify, Begin, people, places
  <1> HIDE DEF n
  <1>3. call'[c] = n /\ \A d \in Calls \ {c} : call'[d] = call[d]
    BY <1>2, CallsOthers DEF HomesInv
  <1>4. Rooted(call[c])' /\ ~Attaching(call'[c])
    BY <1>1, <1>3 DEF Rooted, PersonKnown, SignedIn, NotTaken, Attaching
  <1> QED BY <1>2, <1>3, <1>4, QuietStays, RootsKeep

LEMMA SessionRequestRooted ==
    ASSUME HomesInv, AccountsInv', NEW c \in Calls, NEW s \in Sessions,
           \/ Me(c, s)
           \/ \E w \in Workspaces, wish \in Wishes : SubmitIntent(c, s, w, wish)
    PROVE  HomesInv'
  <1>0. session[s] # None
    BY DEF Me, SubmitIntent
  <1>1. PICK op \in {"me", "intent"} :
           \E w, wish : Begin(c, op, None, session[s].user, w, wish, "pointer")
    BY DEF Me, SubmitIntent
  <1>2. PICK w, wish : Begin(c, op, None, session[s].user, w, wish, "pointer")
    BY <1>1
  <1> DEFINE n == [op |-> op, step |-> "pointer", link |-> None, user |-> session[s].user,
                   stage |-> "converge", loop |-> "none", tries |-> 0, ptr |-> None,
                   owned |-> {}, target |-> w, wish |-> wish, seen |-> {},
                   answer |-> "none"]
  <1>3. n.op = op /\ n.user = session[s].user /\ n.loop = "none"
    OBVIOUS
  <1>4. Set(c, n) /\ UNCHANGED <<mapping, session, pointer, role>>
    BY <1>2 DEF Begin, Me, SubmitIntent, Quiet, people, places
  <1> HIDE DEF n
  <1>5. call'[c] = n /\ \A d \in Calls \ {c} : call'[d] = call[d]
    BY <1>4, CallsOthers DEF HomesInv
  <1>6. Rooted(call[c])' /\ ~Attaching(call'[c])
    BY <1>0, <1>2, <1>3, <1>4, <1>5 DEF Rooted, PersonKnown, SignedIn, NotTaken, Attaching
  <1> QED BY <1>4, <1>5, <1>6, QuietStays, RootsKeep

LEMMA FindIdentityRooted ==
    ASSUME HomesInv, AccountsInv', NEW c \in Calls, FindIdentity(c)
    PROVE  HomesInv'
  <1>1. /\ call[c] \in Request /\ call[c].step = "identify"
        /\ call[c].op = "verify" /\ call[c].loop = "none"
    BY AtIsBusy DEF FindIdentity, HomesInv, WellFormed
  <1>2. UNCHANGED <<mapping, session, pointer, role>>
    BY DEF FindIdentity, Quiet, people, places
  <1>3. ASSUME NEW n, Set(c, n), n.op = "verify", n.loop = "none", n.link = call[c].link,
               n.step = "insert" \/ n.user = mapping[Identity(c)]
        PROVE  HomesInv'
    <2>1. call'[c] = n /\ \A d \in Calls \ {c} : call'[d] = call[d]
      BY <1>3, CallsOthers DEF HomesInv
    <2>2. Rooted(call[c])' /\ ~Attaching(call'[c])
      BY <1>2, <1>3, <2>1
         DEF Rooted, PersonKnown, SignedIn, NotTaken, Attaching, Identity
    <2> QED BY <1>2, <2>1, <2>2, QuietStays, RootsKeep
  <1>4. CASE Known(c, mapping[Identity(c)])
    <2> DEFINE n == [call[c] EXCEPT !.user = mapping[Identity(c)], !.step = "pointer"]
    <2>1. n.op = call[c].op /\ n.loop = call[c].loop /\ n.link = call[c].link
          /\ n.user = mapping[Identity(c)]
      BY <1>1 DEF Request
    <2>2. Set(c, n)
      BY <1>4 DEF Known
    <2> HIDE DEF n
    <2> QED BY <1>1, <1>3, <2>1, <2>2
  <1>5. CASE Go(c, "insert")
    <2> DEFINE n == [Told(c) EXCEPT !.step = "insert"]
    <2>1. n.op = call[c].op /\ n.loop = call[c].loop /\ n.link = call[c].link
          /\ n.step = "insert"
      BY <1>1 DEF Request, Told
    <2>2. Set(c, n)
      BY <1>5 DEF Go
    <2> HIDE DEF n
    <2> QED BY <1>1, <1>3, <2>1, <2>2
  <1>6. ASSUME NEW u, Set(c, [call[c] EXCEPT !.step = "insert", !.user = u])
        PROVE  HomesInv'
    <2> DEFINE n == [call[c] EXCEPT !.step = "insert", !.user = u]
    <2>1. n.op = call[c].op /\ n.loop = call[c].loop /\ n.link = call[c].link
          /\ n.step = "insert"
      BY <1>1 DEF Request
    <2>2. Set(c, n)
      BY <1>6
    <2> HIDE DEF n
    <2> QED BY <1>1, <1>3, <2>1, <2>2
  <1> QED BY <1>4, <1>5, <1>6 DEF FindIdentity

(* The user u that the transaction of a new identity gives it.              *)
LEMMA Inserted ==
    ASSUME AccountsInv, NEW c \in Calls, InsertIdentity(c)
    PROVE  \E u \in Users :
              /\ \/ /\ accounts' = accounts
                    /\ [user |-> u, email |-> Email(c)] \in accounts
                 \/ /\ accounts' = accounts \cup {[user |-> u, email |-> Email(c)]}
                    /\ \A a \in accounts : a.email # Email(c) /\ a.user # u
              /\ mapping[Identity(c)] = None /\ Identity(c) \in Identities
              /\ mapping' = [mapping EXCEPT ![Identity(c)] = u]
              /\ Known(c, u)
  <1>1. /\ call[c] \in Request /\ call[c].step = "insert" /\ WellFormed(call[c])
        /\ Faithful(call[c])
    BY AtIsBusy DEF InsertIdentity
  <1>2. /\ Identity(c) \in Identities /\ Mail(call[c]) = Email(c)
        /\ call[c].user # None => [user |-> call[c].user, email |-> Email(c)] \in accounts
    BY <1>1, AccountsAssumption DEF WellFormed, Faithful, Verifying, Identity, Mail, Email
  <1>3. CASE call[c].user # None
    BY <1>1, <1>2, <1>3 DEF InsertIdentity, InsertFits, Request
  <1>4. CASE call[c].user = None
    <2>1. PICK u \in {v \in Users : \A a \in accounts : a.user # v} :
             /\ accounts' = accounts \cup {[user |-> u, email |-> Email(c)]}
             /\ mapping' = [mapping EXCEPT ![Identity(c)] = u]
             /\ Known(c, u)
      BY <1>4, FreshIsOne DEF InsertIdentity
    <2> QED BY <1>2, <1>4, <2>1 DEF InsertIdentity, InsertFits
  <1> QED BY <1>3, <1>4

LEMMA InsertIdentityRooted ==
    ASSUME HomesInv, AccountsInv', NEW c \in Calls, InsertIdentity(c)
    PROVE  HomesInv'
  <1>1. PICK u \in Users :
           /\ mapping[Identity(c)] = None /\ Identity(c) \in Identities
           /\ mapping' = [mapping EXCEPT ![Identity(c)] = u]
           /\ Known(c, u)
    BY Inserted DEF HomesInv
  <1>2. /\ call[c] \in Request /\ call[c].step = "insert"
        /\ call[c].op = "verify" /\ call[c].loop = "none"
        /\ UNCHANGED <<session, pointer, role>>
    BY AtIsBusy DEF InsertIdentity, HomesInv, WellFormed, places
  <1>3. Stays
    BY <1>1, <1>2
       DEF Stays, HomesInv, AccountsInv, Tables, TablesTypeOK, Rooted, NotTaken, Attaching
  <1>4. mapping'[Identity(c)] = u
    BY <1>1 DEF HomesInv, AccountsInv, Tables, TablesTypeOK
  <1> DEFINE n == [call[c] EXCEPT !.user = u, !.step = "pointer"]
  <1>5. n.op = call[c].op /\ n.loop = call[c].loop /\ n.link = call[c].link /\ n.user = u
    BY <1>2 DEF Request
  <1>6. Set(c, n)
    BY <1>1 DEF Known
  <1> HIDE DEF n
  <1>7. call'[c] = n /\ \A d \in Calls \ {c} : call'[d] = call[d]
    BY <1>6, CallsOthers DEF HomesInv
  <1>8. Rooted(call[c])' /\ ~Attaching(call'[c])
    BY <1>2, <1>4, <1>5, <1>7
       DEF Rooted, PersonKnown, SignedIn, NotTaken, Attaching, Identity
  <1> QED BY <1>3, <1>7, <1>8, RootsKeep

(* Only a sign-in that found a lone workspace with one owner attaches it.   *)
LEMMA ReadOwnersOutcome ==
    ASSUME AccountsInv, NEW c \in Calls, ReadOwners(c)
    PROVE  \/ Follows(c)
           \/ \E w \in call[c].owned :
                 /\ ~Shared(w, call[c].user) /\ role[call[c].user][w] = "Owner"
                 /\ call[c].op = "verify" /\ call'[c].op = "verify"
                 /\ call'[c].user = call[c].user /\ call'[c].link = call[c].link
                 /\ call'[c].target = w
  <1>1. /\ call[c] \in Request /\ call[c].step = "owners" /\ call[c] # Idle
        /\ WellFormed(call[c]) /\ Faithful(call[c]) /\ At(c, "owners")
    BY AtIsBusy DEF ReadOwners
  <1>2. PICK u \in Users : u = call[c].user
    BY <1>1 DEF WellFormed
  <1> DEFINE kind == Classify(c)
  <1>3. /\ kind \in Kind
        /\ kind = "attachable" => call[c].owned # {} /\ \A w \in call[c].owned : ~Shared(w, u)
    BY <1>1, <1>2, Classified
  <1>4. /\ Continue(c, kind) /\ call[c].op \in {"verify", "me", "intent"}
        /\ call[c].loop \in {"none", "create", "attach"}
        /\ call[c].op # "verify" => call[c].loop = "none"
    BY <1>1 DEF ReadOwners, Request, WellFormed
  <1> HIDE DEF kind
  <1>5. End(c) => Follows(c)
    BY CallsOthers DEF End, Follows
  <1>6. CASE call[c].op = "me"
    BY <1>1, <1>4, <1>6, AnswerFollows DEF Continue, OfMe
  <1>7. CASE call[c].op = "intent"
    BY <1>1, <1>4, <1>5, <1>7, GoFollows DEF Continue, OfIntent
  <1>8. Retry(c) /\ call[c].loop \in {"create", "attach"} => Follows(c)
    BY <1>1, <1>5, GoFollows DEF Retry
  <1>9. CASE call[c].op = "verify" /\ call[c].loop = "create"
    BY <1>1, <1>4, <1>8, <1>9, ReturnFollows DEF Continue, OfCreate
  <1>10. CASE call[c].op = "verify" /\ call[c].loop = "attach"
    BY <1>1, <1>4, <1>8, <1>10, ReturnFollows DEF Continue, OfAttach
  <1>11. CASE call[c].op = "verify" /\ call[c].loop = "none"
    <2>1. OfVerify(c, kind)
      BY <1>4, <1>11 DEF Continue
    <2>2. CASE kind \in {"converged", "recovery"}
      BY <1>1, <1>11, <2>1, <2>2, GoFollows, AnswerFollows DEF OfVerify
    <2>3. CASE kind \notin {"converged", "recovery"} /\ call[c].stage = "final"
      BY <1>5, <2>1, <2>3 DEF OfVerify
    <2>4. CASE kind \in {"none", "attachable"} /\ call[c].stage # "final"
      <3>1. PICK next \in {"create", "attach"} :
               \E target :
                  /\ Set(c, [Told(c) EXCEPT !.loop = next, !.step = next, !.target = target])
                  /\ next = "attach" => kind = "attachable" /\ target \in call[c].owned
        <4>1. CASE kind = "none"
          BY <2>1, <2>4, <4>1 DEF OfVerify
        <4>2. CASE kind = "attachable"
          <5>1. Set(c, [Told(c) EXCEPT !.loop = "attach", !.step = "attach",
                                       !.target = CHOOSE w \in call[c].owned : TRUE])
            BY <2>1, <2>4, <4>2 DEF OfVerify
          <5>2. (CHOOSE w \in call[c].owned : TRUE) \in call[c].owned
            BY <1>3, <4>2
          <5> QED BY <4>2, <5>1, <5>2
        <4> QED BY <2>4, <4>1, <4>2
      <3>2. PICK target :
               /\ Set(c, [Told(c) EXCEPT !.loop = next, !.step = next, !.target = target])
               /\ next = "attach" => kind = "attachable" /\ target \in call[c].owned
        BY <3>1
      <3> DEFINE m == [Told(c) EXCEPT !.loop = next, !.step = next, !.target = target]
      <3>3. /\ m.op = call[c].op /\ m.user = call[c].user /\ m.link = call[c].link
            /\ m.loop = next /\ m.target = target /\ m.step = next
        BY <1>1 DEF Request, Told
      <3>4. Set(c, m)
        BY <3>2
      <3> HIDE DEF m
      <3>5. call'[c] = m
        BY <3>4, CallsOthers
      <3>6. CASE next = "create"
        BY <1>1, <3>3, <3>5, <3>6 DEF Follows
      <3>7. CASE next = "attach"
        <4>1. target \in call[c].owned /\ ~Shared(target, u)
          BY <1>3, <3>2, <3>7
        <4>2. role[u][target] = "Owner"
          BY <1>1, <1>2, <4>1 DEF Faithful
        <4> QED BY <1>2, <1>11, <3>3, <3>5, <4>1, <4>2
      <3> QED BY <3>2, <3>6, <3>7
    <2> QED BY <1>3, <2>2, <2>3, <2>4 DEF Kind
  <1> QED BY <1>4, <1>6, <1>7, <1>9, <1>10, <1>11

LEMMA ReadOwnersRooted ==
    ASSUME HomesInv, AccountsInv', NEW c \in Calls, ReadOwners(c)
    PROVE  HomesInv'
  <1>1. /\ call[c] \in Request /\ call[c].step = "owners" /\ call[c] # Idle
        /\ WellFormed(call[c]) /\ Faithful(call[c]) /\ PersonKnown(call[c])
    BY AtIsBusy DEF ReadOwners, HomesInv, Rooted
  <1>2. UNCHANGED <<mapping, session, pointer, role>> /\ AccountsInv
    BY DEF ReadOwners, Quiet, people, places, HomesInv
  <1>3. \A d \in Calls \ {c} : call'[d] = call[d]
    <2>1. PICK n : Set(c, n)
      BY DEF ReadOwners, Continue, OfMe, OfIntent, OfCreate, OfAttach, OfVerify, Return, Retry,
             Go, Answer, End
    <2> QED BY <1>2, <2>1, CallsOthers
  <1>4. CASE Follows(c)
    BY <1>1, <1>2, <1>3, <1>4, QuietStays, FollowersKeep
  <1>5. CASE ~Follows(c)
    <2>1. PICK w \in call[c].owned :
             /\ ~Shared(w, call[c].user) /\ role[call[c].user][w] = "Owner"
             /\ call[c].op = "verify" /\ call'[c].op = "verify"
             /\ call'[c].user = call[c].user /\ call'[c].link = call[c].link
             /\ call'[c].target = w
      BY <1>2, <1>5, ReadOwnersOutcome
    <2>2. \A v \in Users \ {call[c].user} : role[v][w] # "Owner"
      BY <2>1 DEF Shared
    <2>3. Rooted(call[c])'
      BY <1>1, <1>2, <2>1, <2>2 DEF Rooted, PersonKnown, SignedIn, NotTaken
    <2>4. ASSUME NEW d \in Calls \ {c}, Attaching(call[d]), call[d].user # call[c].user
          PROVE  call[d].target # w
      <3>1. role[call[d].user][call[d].target] = "Owner" /\ call[d].user \in Users
        BY <1>2, <2>4, CallKnown DEF Attaching, Faithful, WellFormed
      <3> QED BY <2>2, <2>4, <3>1
    <2> QED BY <1>2, <1>3, <2>1, <2>3, <2>4, QuietStays, RootsKeep
  <1> QED BY <1>4, <1>5
-----------------------------------------------------------------------------
(* What the two transactions of convergence do to the tables.               *)
LEMMA Created ==
    ASSUME AccountsInv, NEW c \in Calls, Create(c)
    PROVE  /\ call[c].user \in Users
           /\ \/ UNCHANGED <<pointer, role, created>> /\ Lost(c)
              \/ /\ pointer[call[c].user] = None /\ Return(c)
                 /\ \E w \in Workspaces \ (Legacy \cup created) :
                       /\ role' = [role EXCEPT ![call[c].user][w] = "Owner"]
                       /\ pointer' = [pointer EXCEPT ![call[c].user] = w]
                       /\ \A v \in Users, x \in Workspaces :
                             role'[v][x] = IF v = call[c].user /\ x = w THEN "Owner"
                                           ELSE role[v][x]
                       /\ \A v \in Users :
                             pointer'[v] = IF v = call[c].user THEN w ELSE pointer[v]
  <1>1. call[c].user \in Users
    BY AtIsBusy DEF Create, WellFormed
  <1>2. CASE ~PointerFree(call[c].user)
    BY <1>1, <1>2 DEF Create, places
  <1>3. CASE PointerFree(call[c].user)
    <2>1. PICK w \in Workspaces \ (Legacy \cup created) :
             /\ role' = [role EXCEPT ![call[c].user][w] = "Owner"]
             /\ pointer' = [pointer EXCEPT ![call[c].user] = w]
      BY <1>3, FreshIsOne DEF Create
    <2>2. Return(c)
      BY <1>3 DEF Create
    <2> DEFINE u == call[c].user
    <2>3. role[u] \in [Workspaces -> Roles] /\ role \in [Users -> [Workspaces -> Roles]]
          /\ pointer \in [Users -> Workspaces \cup {None}]
      BY <1>1 DEF AccountsInv, Tables, TablesTypeOK
    <2>4. \A v \in Users, x \in Workspaces :
             role'[v][x] = IF v = u /\ x = w THEN "Owner" ELSE role[v][x]
      BY <2>1, <2>3
    <2>5. \A v \in Users : pointer'[v] = IF v = u THEN w ELSE pointer[v]
      BY <2>1, <2>3
    <2> QED BY <1>1, <1>3, <2>1, <2>2, <2>4, <2>5 DEF PointerFree
  <1> QED BY <1>2, <1>3

LEMMA Attached ==
    ASSUME AccountsInv, NEW c \in Calls, Attach(c)
    PROVE  /\ call[c].user \in Users /\ call[c].loop = "attach"
           /\ call[c].target \in Workspaces
           /\ role[call[c].user][call[c].target] = "Owner"
           /\ \/ UNCHANGED <<pointer, role>> /\ Lost(c)
              \/ /\ pointer[call[c].user] = None /\ Return(c) /\ UNCHANGED role
                 /\ call[c].target \in Legacy
                 /\ pointer' = [pointer EXCEPT ![call[c].user] = call[c].target]
  <1>1. /\ call[c].user \in Users /\ call[c].loop = "attach" /\ call[c].target \in Workspaces
        /\ role[call[c].user][call[c].target] = "Owner"
        /\ call[c].target \in Legacy \/ pointer[call[c].user] # None
    <2>1. call[c].step = "attach" /\ WellFormed(call[c]) /\ Faithful(call[c])
      BY AtIsBusy DEF Attach
    <2>2. call[c].user \in Users /\ call[c].loop = "attach"
      BY <2>1 DEF WellFormed
    <2> QED BY <2>1, <2>2 DEF Faithful
  <1> QED BY <1>1 DEF Attach, PointerFree

LEMMA ConvergenceRooted ==
    ASSUME HomesInv, AccountsInv', NEW c \in Calls, Create(c) \/ Attach(c)
    PROVE  HomesInv'
  <1>1. /\ call[c] # Idle /\ call[c].step \in {"create", "attach"} /\ AccountsInv
        /\ UNCHANGED <<mapping, session>>
    BY AtIsBusy DEF Create, Attach, HomesInv, people
  <1>2. ASSUME NEW d \in Calls, Attaching(call[d])
        PROVE  /\ call[d].user \in Users /\ call[d].target \in Workspaces
               /\ role[call[d].user][call[d].target] = "Owner" /\ NotTaken(call[d])
    BY <1>2, CallKnown DEF HomesInv, Attaching, Rooted, Faithful, WellFormed
  <1>3. Stays
    <2>1. CASE Create(c)
      <3>1. CASE UNCHANGED <<pointer, role>>
        BY <1>1, <3>1, QuietStays
      <3>2. ASSUME NEW w \in Workspaces \ (Legacy \cup created),
                   \A v \in Users, x \in Workspaces :
                      role'[v][x] = IF v = call[c].user /\ x = w THEN "Owner" ELSE role[v][x],
                   \A v \in Users : pointer'[v] = IF v = call[c].user THEN w ELSE pointer[v]
            PROVE  Stays
        <4>1. \A v \in Users : role[v][w] # "Owner"
          BY <3>2 DEF HomesInv, AccountsInv, Tables, PlacesInv
        <4> QED BY <1>1, <1>2, <3>2, <4>1 DEF Stays, NotTaken, Attaching
      <3> QED BY <1>1, <2>1, <3>1, <3>2, Created
    <2>2. CASE Attach(c)
      <3>1. CASE UNCHANGED <<pointer, role>>
        BY <1>1, <3>1, QuietStays
      <3>2. CASE /\ pointer' = [pointer EXCEPT ![call[c].user] = call[c].target]
                 /\ UNCHANGED role
        <4>1. \A v \in Users : pointer'[v] = IF v = call[c].user THEN call[c].target
                                             ELSE pointer[v]
          BY <3>2 DEF HomesInv, AccountsInv, Tables, TablesTypeOK
        <4>2. Attaching(call[c])
          BY <1>1, <2>2, Attached DEF Attaching
        <4> QED BY <1>1, <1>2, <3>2, <4>1, <4>2
                DEF Stays, NotTaken, Attaching, HomesInv, AttachersDiffer
      <3> QED BY <1>1, <2>2, <3>1, <3>2, Attached
    <2> QED BY <2>1, <2>2
  <1>4. Lost(c) \/ Return(c)
    BY <1>1, Created, Attached
  <1>5. Follows(c)
    BY <1>1, <1>4, LostFollows, ReturnFollows
  <1>6. \A d \in Calls \ {c} : call'[d] = call[d]
    BY <1>1, <1>4, CallsOthers DEF Lost, Return
  <1> QED BY <1>1, <1>3, <1>5, <1>6, FollowersKeep

LEMMA CreateSessionRooted ==
    ASSUME HomesInv, AccountsInv', NEW c \in Calls, CreateSession(c)
    PROVE  HomesInv'
  <1>1. call[c] # Idle /\ UNCHANGED <<mapping, pointer, role>> /\ AccountsInv
    BY AtIsBusy DEF CreateSession, HomesInv, people, places
  <1>2. PICK s, new : s \in Sessions /\ session[s] = None /\ session' = [session EXCEPT ![s] = new]
    BY FreshIsOne DEF CreateSession
  <1>3. Stays
    <2>1. \A t \in Sessions : session[t] # None => session'[t] = session[t]
      BY <1>2 DEF HomesInv, AccountsInv, SessionInv
    <2> QED BY <1>1, <2>1 DEF Stays, HomesInv, Rooted, NotTaken, Attaching
  <1>4. Follows(c) /\ \A d \in Calls \ {c} : call'[d] = call[d]
    BY <1>1, PlainStepFollows, CallsOthers DEF CreateSession
  <1> QED BY <1>1, <1>3, <1>4, FollowersKeep

LEMMA QuietStepRooted ==
    ASSUME HomesInv, AccountsInv', NEW c \in Calls,
           \/ Fail(c) \/ Deliver(c) \/ LoseInsert(c) \/ Write(c)
           \/ ReadPointer(c) \/ ReadOwned(c) \/ LockAndRead(c)
    PROVE  HomesInv'
  <1>1. /\ call[c] # Idle /\ AccountsInv /\ UNCHANGED <<mapping, session, pointer, role>>
    BY AtIsBusy DEF HomesInv, Fail, Deliver, LoseInsert, Write, ReadPointer, ReadOwned,
                    LockAndRead, Quiet, people, places
  <1>2. End(c) \/ ReadPointer(c) \/ ReadOwned(c) \/ LockAndRead(c)
    BY DEF Fail, Deliver, LoseInsert, Write
  <1>3. Follows(c)
    BY <1>1, <1>2, PlainStepFollows, CallsOthers DEF End, Follows
  <1>4. \A d \in Calls \ {c} : call'[d] = call[d]
    BY <1>1, <1>2, CallsOthers DEF End, ReadPointer, ReadOwned, LockAndRead
  <1> QED BY <1>1, <1>3, <1>4, QuietStays, FollowersKeep

LEMMA HomesStep == HomesInv /\ [Next]_vars => HomesInv'
  <1> SUFFICES ASSUME HomesInv, [Next]_vars PROVE HomesInv'
    OBVIOUS
  <1>1. AccountsInv'
    BY AccountsStep DEF HomesInv
  <1>2. CASE UNCHANGED vars
    BY <1>1, <1>2, QuietStays, RestRooted DEF vars, people, places
  <1>3. ASSUME NEW c \in Calls, Fail(c) \/ Progress(c)
        PROVE  HomesInv'
    BY <1>1, <1>3, QuietStepRooted, FindIdentityRooted, InsertIdentityRooted,
       CreateSessionRooted, ReadOwnersRooted, ConvergenceRooted DEF Progress
  <1>4. ASSUME NEW c \in Calls,
               \/ \E l \in Links : Verify(c, l)
               \/ \E s \in Sessions : Me(c, s)
               \/ \E s \in Sessions, w \in Workspaces, wish \in Wishes :
                     SubmitIntent(c, s, w, wish)
        PROVE  HomesInv'
    BY <1>1, <1>4, VerifyRooted, SessionRequestRooted
  <1> QED BY <1>1, <1>2, <1>3, <1>4, TableStepRooted, RestartRooted DEF Next

LEMMA HomesInvariant == Spec => []HomesInv
  <1>1. Init => HomesInv
    BY InitInv DEF Init, HomesInv, Rooted, AttachersDiffer, Attaching
  <1> QED BY <1>1, HomesStep, PTL DEF Spec
-----------------------------------------------------------------------------
(* Every step is a step of PersonalHomes or none.                           *)
LEMMA HomesInitMaps == Init => Homes!HomesInit
  <1> SUFFICES ASSUME Init PROVE Homes!HomesInit
    OBVIOUS
  <1>1. AccountsInv
    BY InitInv
  <1>2. PICK past \in Histories :
           accounts = past.accounts /\ role = past.role /\ pointer = past.pointer
    BY DEF Init
  <1>3. Plausible(past) /\ pointer \in [Users -> Workspaces \cup {None}]
    BY <1>1, <1>2, AccountsAssumption DEF AccountsInv, Tables, TablesTypeOK
  <1>4. pointer \in [Users -> Legacy \cup {None}]
    BY <1>2, <1>3 DEF Plausible
  <1>5. \A u \in Users : OwnedBy(u) \subseteq Legacy
    BY <1>2, <1>3 DEF Plausible, OwnedBy
  <1> QED BY <1>2, <1>3, <1>4, <1>5 DEF Homes!HomesInit, Plausible, Init

LEMMA StillHomes ==
    ASSUME UNCHANGED <<people, pointer, role, capabilities, session>>
    PROVE  UNCHANGED Homes!homesVars
  BY DEF Homes!homesVars, people, OwnedBy

LEMMA ExistsMeans ==
    ASSUME AccountsInv, NEW w \in Workspaces
    PROVE  Homes!Exists(w) <=> w \in Legacy \cup created
  <1>1. Homes!Exists(w) => w \in Legacy \cup created
    BY DEF Homes!Exists, OwnedBy, AccountsInv, Tables, PlacesInv
  <1>2. w \in created => \E u \in Users : role[u][w] = "Owner"
    BY DEF AccountsInv, Tables, OnePersonalWorkspace
  <1> QED BY <1>1, <1>2 DEF Homes!Exists, OwnedBy

LEMMA TornMeans ==
    ASSUME NEW u \in Users
    PROVE  Homes!Torn(u) <=> TrulyContradictory(u)
  BY DEF Homes!Torn, TrulyContradictory

(* One more Owner row, seen as one more workspace that is owned.            *)
LEMMA RowIsOwned ==
    ASSUME role \in [Users -> [Workspaces -> Roles]], NEW u \in Users, NEW w \in Workspaces,
           role' = [role EXCEPT ![u][w] = "Owner"]
    PROVE  [v \in Users |-> OwnedBy(v)']
              = [[v \in Users |-> OwnedBy(v)] EXCEPT ![u] = @ \cup {w}]
  <1>1. \A v \in Users, x \in Workspaces :
           role'[v][x] = IF v = u /\ x = w THEN "Owner" ELSE role[v][x]
    OBVIOUS
  <1>2. OwnedBy(u)' = OwnedBy(u) \cup {w}
    BY <1>1 DEF OwnedBy
  <1>3. \A v \in Users \ {u} : OwnedBy(v)' = OwnedBy(v)
    BY <1>1 DEF OwnedBy
  <1> QED BY <1>2, <1>3

LEMMA GrantMaps ==
    ASSUME AccountsInv, NEW u \in Users, NEW w \in Workspaces, GrantOwner(u, w)
    PROVE  Homes!Give(u, w)
  BY RowIsOwned, ExistsMeans
     DEF Homes!Give, GrantOwner, people, AccountsInv, Tables, TablesTypeOK

LEMMA EndSessionMaps ==
    ASSUME AccountsInv, NEW s \in Sessions, EndSession(s)
    PROVE  Homes!SignOut(s)
  BY DEF Homes!SignOut, EndSession, people, places, OwnedBy

LEMMA InsertMaps ==
    ASSUME AccountsInv, NEW c \in Calls, InsertIdentity(c)
    PROVE  \E i \in Identities, u \in Users : Homes!Recognise(i, u)
  <1>1. PICK u \in Users :
           /\ \/ /\ accounts' = accounts
                 /\ [user |-> u, email |-> Email(c)] \in accounts
              \/ /\ accounts' = accounts \cup {[user |-> u, email |-> Email(c)]}
                 /\ \A a \in accounts : a.email # Email(c) /\ a.user # u
           /\ mapping[Identity(c)] = None /\ Identity(c) \in Identities
           /\ mapping' = [mapping EXCEPT ![Identity(c)] = u]
    BY Inserted
  <1>2. UNCHANGED <<pointer, role, capabilities, session>>
    BY DEF InsertIdentity, places
  <1>3. Homes!Recognise(Identity(c), u)
    BY <1>1, <1>2 DEF Homes!Recognise, OwnedBy, Email
  <1> QED BY <1>1, <1>3

LEMMA SignInMaps ==
    ASSUME HomesInv, NEW c \in Calls, CreateSession(c)
    PROVE  \E s \in Sessions, l \in Links : Homes!SignIn(s, l)
  <1>1. /\ call[c] \in Request /\ call[c].step = "session" /\ call[c] # Idle
        /\ WellFormed(call[c]) /\ Faithful(call[c]) /\ PersonKnown(call[c])
        /\ UNCHANGED <<people, places, capabilities, link>>
    BY AtIsBusy DEF CreateSession, HomesInv, Rooted
  <1>2. /\ call[c].op = "verify" /\ call[c].stage = "converge" /\ call[c].link \in Links
        /\ call[c].user \in Users /\ Settled(call[c].user)
        /\ mapping[IdentityOf[call[c].link]] = call[c].user
    BY <1>1 DEF WellFormed, Faithful, Verifying, PersonKnown
  <1>3. PICK s \in Sessions :
           /\ session[s] = None
           /\ session' = [session EXCEPT ![s] =
                 [user |-> call[c].user, link |-> call[c].link, live |-> TRUE]]
    BY FreshIsOne DEF CreateSession
  <1>4. \A t \in Sessions : session[t] # None => session[t].link # call[c].link
    BY <1>1, <1>2 DEF HomesInv, AccountsInv, EarningsDiffer, Earning, Verifying
  <1>5. pointer[call[c].user] # None \/ Homes!Torn(call[c].user)
    BY <1>2, TornMeans DEF Settled
  <1>6. UNCHANGED <<accounts, mapping, pointer, role, capabilities>>
    BY <1>1 DEF people, places
  <1>7. call[c].user # None
    BY <1>2, AccountsAssumption
  <1>8. Homes!SignIn(s, call[c].link)
    BY <1>2, <1>3, <1>4, <1>5, <1>6, <1>7 DEF Homes!SignIn, OwnedBy
  <1> QED BY <1>2, <1>3, <1>8

LEMMA CreateMaps ==
    ASSUME AccountsInv, NEW c \in Calls, Create(c)
    PROVE  \/ UNCHANGED Homes!homesVars
           \/ \E u \in Users, w \in Workspaces : Homes!MoveIn(u, w)
  <1>1. UNCHANGED <<people, capabilities, session>>
    BY DEF Create
  <1>2. CASE UNCHANGED <<pointer, role>>
    BY <1>1, <1>2, StillHomes
  <1>3. ASSUME NEW u \in Users, NEW w \in Workspaces \ (Legacy \cup created),
               pointer[u] = None,
               role' = [role EXCEPT ![u][w] = "Owner"],
               pointer' = [pointer EXCEPT ![u] = w]
        PROVE  Homes!MoveIn(u, w)
    <2>1. ~Homes!Exists(w)
      BY <1>3, ExistsMeans
    <2>2. [v \in Users |-> OwnedBy(v)']
             = [[v \in Users |-> OwnedBy(v)] EXCEPT ![u] = @ \cup {w}]
      BY <1>3, RowIsOwned DEF AccountsInv, Tables, TablesTypeOK
    <2> QED BY <1>1, <1>3, <2>1, <2>2 DEF Homes!MoveIn, people
  <1> QED BY <1>2, <1>3, Created

LEMMA AttachMaps ==
    ASSUME HomesInv, NEW c \in Calls, Attach(c)
    PROVE  \/ UNCHANGED Homes!homesVars
           \/ \E u \in Users, w \in Workspaces : Homes!Adopt(u, w)
  <1>1. UNCHANGED <<people, capabilities, session>> /\ AccountsInv
    BY DEF Attach, HomesInv
  <1>2. CASE UNCHANGED <<pointer, role>>
    BY <1>1, <1>2, StillHomes
  <1> DEFINE u == call[c].user  w == call[c].target
  <1>3. ASSUME pointer[u] = None, UNCHANGED role, pointer' = [pointer EXCEPT ![u] = w],
               u \in Users, w \in Workspaces, w \in Legacy, role[u][w] = "Owner",
               call[c].loop = "attach"
        PROVE  Homes!Adopt(u, w)
    <2>1. NotTaken(call[c])
      BY <1>1, AtIsBusy DEF Attach, HomesInv, Rooted
    <2>2. \A v \in Users \ {u} : pointer[v] = w => w \notin OwnedBy(v)
      BY <1>3, <2>1 DEF NotTaken, OwnedBy
    <2>3. w \in OwnedBy(u) \cap Legacy
      BY <1>3 DEF OwnedBy
    <2> QED BY <1>1, <1>3, <2>2, <2>3 DEF Homes!Adopt, people, OwnedBy
  <1> QED BY <1>1, <1>2, <1>3, Attached

LEMMA WriteMaps ==
    ASSUME HomesInv, NEW c \in Calls, Write(c)
    PROVE  \/ UNCHANGED Homes!homesVars
           \/ \E u \in Users, w \in Workspaces, wish \in Wishes : Homes!Choose(u, w, wish)
  <1>1. /\ call[c] # Idle /\ call[c].step = "write" /\ AccountsInv
        /\ WellFormed(call[c]) /\ Faithful(call[c]) /\ SignedIn(call[c])
        /\ UNCHANGED <<people, places, link, session>>
    BY AtIsBusy DEF Write, HomesInv, Rooted
  <1>2. /\ call[c].op = "intent" /\ call[c].user \in Users /\ call[c].target \in Workspaces
        /\ call[c].wish \in Wishes /\ pointer[call[c].user] = call[c].target
    BY <1>1 DEF WellFormed, Faithful
  <1>3. call[c].seen = capabilities[call[c].target]
    BY <1>1 DEF AccountsInv, LocksExclude, At
  <1>4. CASE UNCHANGED capabilities
    BY <1>1, <1>4, StillHomes DEF places
  <1>5. CASE /\ call[c].seen = call[c].wish.expected
             /\ capabilities' = [capabilities EXCEPT ![call[c].target] =
                                    @ \cup call[c].wish.chosen]
    <2>1. \E s \in Sessions : session[s] # None /\ session[s].user = call[c].user
      BY <1>1, <1>2 DEF SignedIn
    <2>2. UNCHANGED <<accounts, mapping, pointer, role, session>>
      BY <1>1 DEF people, places
    <2>3. Homes!Choose(call[c].user, call[c].target, call[c].wish)
      BY <1>2, <1>3, <1>5, <2>1, <2>2 DEF Homes!Choose, OwnedBy
    <2> QED BY <1>2, <2>3
  <1> QED BY <1>4, <1>5 DEF Write

LEMMA QuietCallMaps ==
    ASSUME AccountsInv, NEW c \in Calls,
           \/ Fail(c) \/ Deliver(c) \/ LoseInsert(c) \/ FindIdentity(c)
           \/ ReadPointer(c) \/ ReadOwned(c) \/ ReadOwners(c) \/ LockAndRead(c)
           \/ \E l \in Links : Verify(c, l)
           \/ \E s \in Sessions : Me(c, s)
           \/ \E s \in Sessions, w \in Workspaces, wish \in Wishes : SubmitIntent(c, s, w, wish)
    PROVE  UNCHANGED Homes!homesVars
  <1>1. UNCHANGED <<people, places, capabilities, session>>
    BY DEF Fail, Deliver, LoseInsert, FindIdentity, ReadPointer, ReadOwned, ReadOwners,
           LockAndRead, Verify, Me, SubmitIntent, Quiet
  <1> QED BY <1>1, StillHomes DEF places

LEMMA HomesStepMaps == HomesInv /\ [Next]_vars => [Homes!HomesNext]_(Homes!homesVars)
  <1> SUFFICES ASSUME HomesInv, [Next]_vars
               PROVE  Homes!HomesNext \/ UNCHANGED Homes!homesVars
    OBVIOUS
  <1>1. AccountsInv
    BY DEF HomesInv
  <1>2. CASE \/ UNCHANGED vars \/ Restart
             \/ \E l \in Links : RequestSignIn(l) \/ ExpireLink(l)
    BY <1>2, StillHomes DEF vars, Restart, RequestSignIn, ExpireLink, places
  <1>3. CASE \E s \in Sessions : EndSession(s)
    BY <1>1, <1>3, EndSessionMaps DEF Homes!HomesNext
  <1>4. CASE \E u \in Users, w \in Workspaces : GrantOwner(u, w)
    BY <1>1, <1>4, GrantMaps DEF Homes!HomesNext
  <1>5. ASSUME NEW c \in Calls,
               \/ \E l \in Links : Verify(c, l)
               \/ \E s \in Sessions : Me(c, s)
               \/ \E s \in Sessions, w \in Workspaces, wish \in Wishes :
                     SubmitIntent(c, s, w, wish)
               \/ Fail(c) \/ Progress(c)
        PROVE  Homes!HomesNext \/ UNCHANGED Homes!homesVars
    <2>1. CASE InsertIdentity(c)
      BY <1>1, <2>1, InsertMaps DEF Homes!HomesNext
    <2>2. CASE CreateSession(c)
      BY <2>2, SignInMaps DEF Homes!HomesNext
    <2>3. CASE Create(c)
      BY <1>1, <2>3, CreateMaps DEF Homes!HomesNext
    <2>4. CASE Attach(c)
      BY <2>4, AttachMaps DEF Homes!HomesNext
    <2>5. CASE Write(c)
      BY <2>5, WriteMaps DEF Homes!HomesNext
    <2> QED BY <1>1, <1>5, <2>1, <2>2, <2>3, <2>4, <2>5, QuietCallMaps DEF Progress
  <1> QED BY <1>2, <1>3, <1>4, <1>5 DEF Next

(* The requests, with their statements interleaved, retried and crashed,    *)
(* implement the atomic decisions of PersonalHomes (ImplementsHomes): in    *)
(* particular a home is settled once, a lone workspace is adopted only when *)
(* it is the home of no other owner, and a session belongs to whom its      *)
(* link's identity is mapped to.                                            *)
THEOREM RequestsImplementHomes == Spec => ImplementsHomes
  BY HomesInitMaps, HomesInvariant, HomesStepMaps, PTL
     DEF Spec, ImplementsHomes, Homes!HomesSpec
-----------------------------------------------------------------------------
(* The safety half of CallsEnd: how many steps a call has left.  A stage    *)
(* has one pass that is no retry and Budget passes that are.                *)
StageRank(r) ==
    CASE r.stage = "converge" -> 2 * (Budget + 3)
      [] r.stage = "setup"    -> Budget + 3
      [] r.stage = "final"    -> 0

PassRank(r) ==
    IF r.step = "session" THEN 0
    ELSE IF r.loop = "none" THEN Budget + 2 ELSE Budget + 1 - r.tries

StepRank(s) ==
    CASE s = "identify" -> 7
      [] s = "insert"   -> 6
      [] s = "pointer"  -> 5
      [] s = "owned"    -> 4
      [] s = "owners"   -> 3
      [] s = "write"    -> 1
      [] OTHER          -> 2

Rank(r) ==
    IF r = Idle \/ r.step = "done" THEN 0
    ELSE 8 * (StageRank(r) + PassRank(r)) + StepRank(r.step)

(* The last classification is not retried.                                  *)
LastIsFinal(r) == r # Idle /\ r.stage = "final" => r.loop = "none"

RankInv == AccountsInv /\ \A c \in Calls : LastIsFinal(call[c])

(* A call ends, or comes closer to its end.                                 *)
Closer(n, r) == LastIsFinal(n) /\ (n = Idle \/ Rank(n) < Rank(r))

LEMMA StepRanks ==
    /\ StepRank("identify") = 7 /\ StepRank("insert") = 6 /\ StepRank("pointer") = 5
    /\ StepRank("owned") = 4 /\ StepRank("owners") = 3 /\ StepRank("write") = 1
    /\ StepRank("create") = 2 /\ StepRank("attach") = 2 /\ StepRank("lock") = 2
    /\ StepRank("session") = 2
  BY DEF StepRank

LEMMA Ranks ==
    ASSUME NEW r \in Request, r # Idle, r.step # "done"
    PROVE  /\ r.stage = "converge" => Rank(r) = 8 * (2 * Budget + 6 + PassRank(r)) + StepRank(r.step)
           /\ r.stage = "setup" => Rank(r) = 8 * (Budget + 3 + PassRank(r)) + StepRank(r.step)
           /\ r.stage = "final" => Rank(r) = 8 * PassRank(r) + StepRank(r.step)
           /\ PassRank(r) \in 0..(Budget + 2) /\ StepRank(r.step) \in 1..7
           /\ r.stage \in {"converge", "setup", "final"}
  <1>1. r.stage \in {"converge", "setup", "final"} /\ r.tries \in 0..Budget /\ Budget \in Nat
    BY AccountsAssumption DEF Request
  <1>2. StepRank(r.step) \in 1..7
    BY DEF StepRank
  <1>3. PassRank(r) \in 0..(Budget + 2)
    BY <1>1 DEF PassRank
  <1>4. /\ r.stage = "converge" => StageRank(r) = 2 * Budget + 6
        /\ r.stage = "setup" => StageRank(r) = Budget + 3
        /\ r.stage = "final" => StageRank(r) = 0
    BY <1>1 DEF StageRank
  <1> HIDE DEF StageRank
  <1> QED BY <1>1, <1>2, <1>3, <1>4 DEF Rank

(* No call has more steps than this left.                                   *)
LEMMA RankBounded ==
    ASSUME NEW r \in Request \cup {Idle}
    PROVE  Rank(r) \in 0..(8 * (3 * Budget + 8) + 7)
  <1>1. Budget \in Nat
    BY AccountsAssumption
  <1>2. CASE r = Idle \/ r.step = "done"
    BY <1>1, <1>2 DEF Rank
  <1>3. CASE r # Idle /\ r.step # "done"
    BY <1>1, <1>3, Ranks
  <1> QED BY <1>2, <1>3

(* The step of a pass, or the next pass.                                    *)
LEMMA SamePassIsCloser ==
    ASSUME NEW r \in Request, NEW n \in Request, r # Idle, LastIsFinal(r),
           r.step \notin {"done", "session"},
           n.stage = r.stage, n.loop = r.loop, n.tries = r.tries,
           StepRank(n.step) < StepRank(r.step)
    PROVE  Closer(n, r)
  <1>1. n # Idle /\ LastIsFinal(n) /\ Budget \in Nat
    BY AccountsAssumption DEF LastIsFinal, Idle, Request
  <1>2. CASE n.step = "done"
    BY <1>1, <1>2, Ranks DEF Closer, Rank
  <1>3. CASE n.step # "done"
    <2>1. PassRank(n) =< PassRank(r)
      BY <1>1 DEF PassRank, Request
    <2> QED BY <1>1, <1>3, <2>1, Ranks DEF Closer
  <1> QED BY <1>2, <1>3

LEMMA NextPassIsCloser ==
    ASSUME NEW r \in Request, NEW n \in Request, r # Idle, LastIsFinal(r),
           r.step \notin {"done", "session"}, n.step # "done",
           n.stage = r.stage, r.stage = "final" => n.loop = "none",
           PassRank(n) < PassRank(r)
    PROVE  Closer(n, r)
  <1>1. n # Idle /\ LastIsFinal(n) /\ Budget \in Nat
    BY AccountsAssumption DEF LastIsFinal, Idle, Request
  <1> QED BY <1>1, Ranks DEF Closer

LEMMA NextStageIsCloser ==
    ASSUME NEW r \in Request, NEW n \in Request, r # Idle,
           r.step # "done", n.step # "done", n.loop = "none",
           \/ r.stage = "converge" /\ n.stage = "setup"
           \/ r.stage = "setup" /\ n.stage = "final"
    PROVE  Closer(n, r)
  <1>1. n # Idle /\ LastIsFinal(n) /\ Budget \in Nat
    BY AccountsAssumption DEF LastIsFinal, Idle, Request
  <1> QED BY <1>1, Ranks DEF Closer
-----------------------------------------------------------------------------
(* What is known of the call that takes a step and of the call it becomes.  *)
LEMMA RankKnown ==
    ASSUME RankInv, AccountsInv', NEW c \in Calls, call[c] # Idle
    PROVE  /\ call[c] \in Request /\ WellFormed(call[c]) /\ LastIsFinal(call[c])
           /\ call'[c] = Idle \/ call'[c] \in Request
  BY CallKnown DEF RankInv, AccountsInv

LEMMA EndIsCloser == ASSUME AccountsInv, NEW c \in Calls, End(c)
                     PROVE  Closer(call'[c], call[c])
  BY CallsOthers DEF End, Closer, LastIsFinal

LEMMA PlainIsCloser ==
    ASSUME RankInv, AccountsInv', NEW c \in Calls,
           CreateSession(c) \/ ReadPointer(c) \/ ReadOwned(c) \/ LockAndRead(c)
    PROVE  Closer(call'[c], call[c])
  <1>1. /\ call[c] \in Request /\ WellFormed(call[c]) /\ LastIsFinal(call[c])
        /\ call'[c] = Idle \/ call'[c] \in Request
        /\ AccountsInv /\ call[c] # Idle
    BY RankKnown, AtIsBusy DEF RankInv, CreateSession, ReadPointer, ReadOwned, LockAndRead
  <1>2. CASE CreateSession(c)
    <2> DEFINE m == [call[c] EXCEPT !.step = "pointer", !.stage = "setup"]
    <2>1. m.stage = "setup" /\ m.loop = call[c].loop /\ m.tries = call[c].tries
          /\ m.step = "pointer"
      BY <1>1 DEF Request
    <2>2. Set(c, m)
      BY <1>2 DEF CreateSession
    <2> HIDE DEF m
    <2>3. call[c].stage = "converge" /\ call[c].loop = "none"
      BY <1>1, <1>2 DEF CreateSession, At, WellFormed
    <2>4. call'[c] = m /\ m # Idle /\ call[c].step = "session"
      BY <1>1, <1>2, <2>1, <2>2, CallsOthers DEF CreateSession, At, Idle
    <2> QED BY <1>1, <2>1, <2>3, <2>4, NextStageIsCloser
  <1>3. CASE ReadPointer(c)
    <2> DEFINE m == [call[c] EXCEPT !.ptr = pointer[call[c].user], !.step = "owned"]
    <2>1. m.stage = call[c].stage /\ m.loop = call[c].loop /\ m.tries = call[c].tries
          /\ m.step = "owned"
      BY <1>1 DEF Request
    <2>2. Set(c, m)
      BY <1>3 DEF ReadPointer
    <2> HIDE DEF m
    <2>4. call'[c] = m /\ m # Idle /\ call[c].step = "pointer"
      BY <1>1, <1>3, <2>1, <2>2, CallsOthers DEF ReadPointer, At, Idle
    <2> QED BY <1>1, <2>1, <2>4, SamePassIsCloser, StepRanks
  <1>4. CASE ReadOwned(c)
    <2> DEFINE m == [call[c] EXCEPT !.owned = OwnedBy(call[c].user), !.step = "owners"]
    <2>1. m.stage = call[c].stage /\ m.loop = call[c].loop /\ m.tries = call[c].tries
          /\ m.step = "owners"
      BY <1>1 DEF Request
    <2>2. Set(c, m)
      BY <1>4 DEF ReadOwned
    <2> HIDE DEF m
    <2>4. call'[c] = m /\ m # Idle /\ call[c].step = "owned"
      BY <1>1, <1>4, <2>1, <2>2, CallsOthers DEF ReadOwned, At, Idle
    <2> QED BY <1>1, <2>1, <2>4, SamePassIsCloser, StepRanks
  <1>5. CASE LockAndRead(c)
    <2> DEFINE m == [call[c] EXCEPT !.step = "write", !.seen = capabilities[call[c].target]]
    <2>1. m.stage = call[c].stage /\ m.loop = call[c].loop /\ m.tries = call[c].tries
          /\ m.step = "write"
      BY <1>1 DEF Request
    <2>2. Set(c, m)
      BY <1>5 DEF LockAndRead
    <2> HIDE DEF m
    <2>4. call'[c] = m /\ m # Idle /\ call[c].step = "lock"
      BY <1>1, <1>5, <2>1, <2>2, CallsOthers DEF LockAndRead, At, Idle
    <2> QED BY <1>1, <2>1, <2>4, SamePassIsCloser, StepRanks
  <1> QED BY <1>2, <1>3, <1>4, <1>5

LEMMA GoIsCloser ==
    ASSUME RankInv, AccountsInv', NEW c \in Calls, At(c, "owners"),
           NEW s \in {"session", "create", "attach", "lock"}, Go(c, s)
    PROVE  Closer(call'[c], call[c])
  <1>1. /\ call[c] \in Request /\ LastIsFinal(call[c])
        /\ call'[c] = Idle \/ call'[c] \in Request
        /\ AccountsInv /\ call[c] # Idle /\ call[c].step = "owners"
    BY RankKnown, AtIsBusy DEF RankInv
  <1> DEFINE t == Told(c)  m == [t EXCEPT !.step = s]
  <1>2. /\ t.stage = call[c].stage /\ t.loop = call[c].loop /\ t.tries = call[c].tries
        /\ DOMAIN t = DOMAIN call[c]
    BY <1>1 DEF Told, Request
  <1>3. "step" \in DOMAIN t
    BY <1>1, <1>2 DEF Request
  <1> HIDE DEF t
  <1>4. m.stage = call[c].stage /\ m.loop = call[c].loop /\ m.tries = call[c].tries /\ m.step = s
    BY <1>2, <1>3
  <1>5. call'[c] = m
    BY <1>1, CallsOthers DEF Go, t
  <1> HIDE DEF m
  <1>6. m # Idle
    BY <1>4 DEF Idle
  <1> QED BY <1>1, <1>4, <1>5, <1>6, SamePassIsCloser, StepRanks

LEMMA AnswerIsCloser ==
    ASSUME RankInv, AccountsInv', NEW c \in Calls, At(c, "owners"), NEW value, Answer(c, value)
    PROVE  Closer(call'[c], call[c])
  <1>1. /\ call[c] \in Request /\ AccountsInv /\ call[c] # Idle /\ call[c].step = "owners"
    BY AtIsBusy DEF RankInv
  <1> DEFINE t == Told(c)
             m == [t EXCEPT !.step = "done", !.answer = value, !.stage = "converge",
                            !.link = None, !.target = None, !.wish = None, !.seen = {}]
  <1>2. DOMAIN t = {"op", "step", "link", "user", "stage", "loop", "tries", "ptr", "owned",
                    "target", "wish", "seen", "answer"}
    BY <1>1 DEF Told, Request
  <1> HIDE DEF t
  <1>3. m.step = "done" /\ m.stage = "converge"
    BY <1>2
  <1>4. call'[c] = m
    BY <1>1, CallsOthers DEF Answer, t
  <1> HIDE DEF m
  <1>5. Rank(m) = 0 /\ LastIsFinal(m)
    BY <1>3 DEF Rank, LastIsFinal
  <1>6. Rank(call[c]) > 0
    BY <1>1, Ranks, AccountsAssumption
  <1> QED BY <1>4, <1>5, <1>6 DEF Closer

LEMMA ReturnIsCloser ==
    ASSUME RankInv, AccountsInv', NEW c \in Calls, call[c] # Idle,
           call[c].step \in {"owners", "create", "attach"},
           call[c].loop \in {"create", "attach"}, Return(c)
    PROVE  Closer(call'[c], call[c])
  <1>1. /\ call[c] \in Request /\ LastIsFinal(call[c]) /\ AccountsInv
        /\ call'[c] = Idle \/ call'[c] \in Request
    BY RankKnown DEF RankInv
  <1> DEFINE t == Told(c)
             m == [t EXCEPT !.step = "session", !.loop = "none", !.tries = 0]
             k == [t EXCEPT !.step = "pointer", !.loop = "none", !.tries = 0,
                            !.stage = "final"]
  <1>2. DOMAIN t = {"op", "step", "link", "user", "stage", "loop", "tries", "ptr", "owned",
                    "target", "wish", "seen", "answer"} /\ t.stage = call[c].stage
    BY <1>1 DEF Told, Request
  <1> HIDE DEF t
  <1>3. m.stage = call[c].stage /\ m.loop = "none" /\ m.tries = 0 /\ m.step = "session"
    BY <1>2
  <1>4. k.stage = "final" /\ k.loop = "none" /\ k.tries = 0 /\ k.step = "pointer"
    BY <1>2
  <1>5. call'[c] = IF call[c].stage = "converge" THEN m ELSE k
    BY <1>1, CallsOthers DEF Return, t
  <1> HIDE DEF m, k
  <1>6. m # Idle /\ k # Idle
    BY <1>3, <1>4 DEF Idle
  <1>7. CASE call[c].stage = "converge"
    <2>1. PassRank(m) < PassRank(call[c])
      BY <1>1, <1>3, AccountsAssumption DEF PassRank, Request
    <2> QED BY <1>1, <1>3, <1>5, <1>6, <1>7, <2>1, NextPassIsCloser
  <1>8. CASE call[c].stage # "converge"
    <2>1. call[c].stage = "setup"
      BY <1>1, <1>8 DEF LastIsFinal, Request
    <2> QED BY <1>1, <1>4, <1>5, <1>6, <1>8, <2>1, NextStageIsCloser
  <1> QED BY <1>7, <1>8

LEMMA LostIsCloser ==
    ASSUME RankInv, AccountsInv', NEW c \in Calls, At(c, "create") \/ At(c, "attach"), Lost(c)
    PROVE  Closer(call'[c], call[c])
  <1>1. /\ call[c] \in Request /\ LastIsFinal(call[c]) /\ AccountsInv /\ call[c] # Idle
        /\ call'[c] = Idle \/ call'[c] \in Request
        /\ call[c].step \in {"create", "attach"} /\ call[c].loop \in {"create", "attach"}
    BY RankKnown, AtIsBusy DEF RankInv, WellFormed
  <1> DEFINE m == [call[c] EXCEPT !.step = "pointer", !.tries = @ + 1]
  <1>2. m.stage = call[c].stage /\ m.loop = call[c].loop /\ m.tries = call[c].tries + 1
        /\ m.step = "pointer"
    BY <1>1 DEF Request
  <1>3. call'[c] = m
    BY <1>1, CallsOthers DEF Lost
  <1> HIDE DEF m
  <1>4. PassRank(m) < PassRank(call[c]) /\ m # Idle
    BY <1>1, <1>2, AccountsAssumption DEF PassRank, Request, Idle
  <1> QED BY <1>1, <1>2, <1>3, <1>4, NextPassIsCloser DEF LastIsFinal

LEMMA FindIsCloser ==
    ASSUME RankInv, AccountsInv', NEW c \in Calls, FindIdentity(c) \/ InsertIdentity(c)
    PROVE  Closer(call'[c], call[c])
  <1>1. /\ call[c] \in Request /\ LastIsFinal(call[c]) /\ AccountsInv /\ call[c] # Idle
        /\ call'[c] = Idle \/ call'[c] \in Request
        /\ call[c].step \in {"identify", "insert"}
        /\ InsertIdentity(c) => call[c].step = "insert"
        /\ FindIdentity(c) => call[c].step = "identify"
    BY RankKnown, AtIsBusy DEF RankInv, FindIdentity, InsertIdentity
  <1>2. ASSUME NEW n, Set(c, n), n.stage = call[c].stage, n.loop = call[c].loop,
               n.tries = call[c].tries, n.step \in {"insert", "pointer"},
               n.step = "insert" => call[c].step = "identify"
        PROVE  Closer(call'[c], call[c])
    <2>1. call'[c] = n /\ n # Idle
      BY <1>1, <1>2, CallsOthers DEF Idle
    <2>2. StepRank(n.step) < StepRank(call[c].step)
      BY <1>1, <1>2, StepRanks
    <2> QED BY <1>1, <1>2, <2>1, <2>2, SamePassIsCloser
  <1>3. ASSUME NEW u, Known(c, u) PROVE Closer(call'[c], call[c])
    <2> DEFINE n == [call[c] EXCEPT !.user = u, !.step = "pointer"]
    <2>1. n.stage = call[c].stage /\ n.loop = call[c].loop /\ n.tries = call[c].tries
          /\ n.step = "pointer"
      BY <1>1 DEF Request
    <2>2. Set(c, n)
      BY <1>3 DEF Known
    <2> HIDE DEF n
    <2> QED BY <1>2, <2>1, <2>2
  <1>4. ASSUME NEW u, call[c].step = "identify",
               Set(c, [call[c] EXCEPT !.step = "insert", !.user = u])
        PROVE  Closer(call'[c], call[c])
    <2> DEFINE n == [call[c] EXCEPT !.step = "insert", !.user = u]
    <2>1. n.stage = call[c].stage /\ n.loop = call[c].loop /\ n.tries = call[c].tries
          /\ n.step = "insert"
      BY <1>1 DEF Request
    <2>2. Set(c, n)
      BY <1>4
    <2> HIDE DEF n
    <2> QED BY <1>2, <1>4, <2>1, <2>2
  <1>5. CASE call[c].step = "identify" /\ Go(c, "insert")
    <2> DEFINE n == [Told(c) EXCEPT !.step = "insert"]
    <2>1. n.stage = call[c].stage /\ n.loop = call[c].loop /\ n.tries = call[c].tries
          /\ n.step = "insert"
      BY <1>1 DEF Request, Told
    <2>2. Set(c, n)
      BY <1>5 DEF Go
    <2> HIDE DEF n
    <2> QED BY <1>2, <1>5, <2>1, <2>2
  <1>6. CASE InsertIdentity(c)
    BY <1>3, <1>6 DEF InsertIdentity
  <1>7. CASE FindIdentity(c)
    BY <1>1, <1>3, <1>4, <1>5, <1>7 DEF FindIdentity
  <1> QED BY <1>6, <1>7

LEMMA ReadOwnersIsCloser ==
    ASSUME RankInv, AccountsInv', NEW c \in Calls, ReadOwners(c)
    PROVE  Closer(call'[c], call[c])
  <1>1. /\ call[c] \in Request /\ call[c].step = "owners" /\ call[c] # Idle
        /\ WellFormed(call[c]) /\ LastIsFinal(call[c]) /\ At(c, "owners") /\ AccountsInv
        /\ call'[c] = Idle \/ call'[c] \in Request
    BY RankKnown, AtIsBusy DEF ReadOwners, RankInv
  <1> DEFINE kind == Classify(c)
  <1>2. /\ Continue(c, kind) /\ call[c].op \in {"verify", "me", "intent"}
        /\ call[c].loop \in {"none", "create", "attach"}
        /\ call[c].op # "verify" => call[c].loop = "none"
    BY <1>1 DEF ReadOwners, Request, WellFormed
  <1> HIDE DEF kind
  <1>3. Retry(c) /\ call[c].loop \in {"create", "attach"} => Closer(call'[c], call[c])
    BY <1>1, GoIsCloser, EndIsCloser DEF Retry
  <1>4. CASE call[c].op = "me"
    BY <1>1, <1>2, <1>4, AnswerIsCloser DEF Continue, OfMe
  <1>5. CASE call[c].op = "intent"
    BY <1>1, <1>2, <1>5, EndIsCloser, GoIsCloser DEF Continue, OfIntent
  <1>6. CASE call[c].op = "verify" /\ call[c].loop = "create"
    BY <1>1, <1>2, <1>3, <1>6, ReturnIsCloser DEF Continue, OfCreate
  <1>7. CASE call[c].op = "verify" /\ call[c].loop = "attach"
    BY <1>1, <1>2, <1>3, <1>7, ReturnIsCloser DEF Continue, OfAttach
  <1>8. CASE call[c].op = "verify" /\ call[c].loop = "none"
    <2>1. OfVerify(c, kind)
      BY <1>2, <1>8 DEF Continue
    <2>2. CASE kind \in {"converged", "recovery"}
      BY <1>1, <2>1, <2>2, GoIsCloser, AnswerIsCloser DEF OfVerify
    <2>3. CASE kind \notin {"converged", "recovery"} /\ call[c].stage = "final"
      BY <1>1, <2>1, <2>3, EndIsCloser DEF OfVerify
    <2>4. CASE kind \notin {"converged", "recovery"} /\ call[c].stage # "final"
      <3>1. PICK next \in {"create", "attach"} :
               \E target : Set(c, [Told(c) EXCEPT !.loop = next, !.step = next, !.target = target])
        BY <2>1, <2>4 DEF OfVerify
      <3>2. PICK target : Set(c, [Told(c) EXCEPT !.loop = next, !.step = next, !.target = target])
        BY <3>1
      <3> DEFINE m == [Told(c) EXCEPT !.loop = next, !.step = next, !.target = target]
      <3>3. m.stage = call[c].stage /\ m.loop = next /\ m.step = next
            /\ m.tries = call[c].tries
        BY <1>1 DEF Request, Told
      <3>4. Set(c, m)
        BY <3>2
      <3> HIDE DEF m
      <3>5. call'[c] = m /\ m # Idle
        BY <1>1, <3>3, <3>4, CallsOthers DEF Idle
      <3>6. PassRank(m) < PassRank(call[c])
        <4>1. call[c].tries = 0 /\ Budget \in Nat
          BY <1>1, <1>8, AccountsAssumption DEF WellFormed
        <4> QED BY <1>1, <1>8, <3>3, <4>1 DEF PassRank
      <3> QED BY <1>1, <2>4, <3>3, <3>5, <3>6, NextPassIsCloser
    <2> QED BY <2>2, <2>3, <2>4
  <1> QED BY <1>2, <1>4, <1>5, <1>6, <1>7, <1>8

LEMMA ConvergenceIsCloser ==
    ASSUME RankInv, AccountsInv', NEW c \in Calls, Create(c) \/ Attach(c)
    PROVE  Closer(call'[c], call[c])
  <1>1. /\ call[c] # Idle /\ call[c].step \in {"create", "attach"} /\ AccountsInv
        /\ call[c].loop \in {"create", "attach"}
        /\ At(c, "create") \/ At(c, "attach")
    BY AtIsBusy DEF Create, Attach, RankInv, WellFormed
  <1>2. Lost(c) \/ Return(c)
    BY <1>1, Created, Attached
  <1> QED BY <1>1, <1>2, LostIsCloser, ReturnIsCloser

LEMMA StepIsCloser ==
    ASSUME RankInv, AccountsInv', NEW c \in Calls, Fail(c) \/ Progress(c)
    PROVE  Closer(call'[c], call[c])
  <1>1. End(c) => Closer(call'[c], call[c])
    BY EndIsCloser DEF RankInv
  <1> QED BY <1>1, PlainIsCloser, FindIsCloser, ReadOwnersIsCloser, ConvergenceIsCloser
          DEF Progress, Fail, Deliver, LoseInsert, Write

(* A step is taken by one call, by none, or by the process that ends.       *)
ClosesOrRests(c) ==
    call[c] # Idle => call'[c] = call[c] \/ Closer(call'[c], call[c])

LEMMA RankStep ==
    RankInv /\ [Next]_vars => RankInv' /\ \A c \in Calls : ClosesOrRests(c)
  <1> SUFFICES ASSUME RankInv, [Next]_vars
               PROVE  RankInv' /\ \A c \in Calls : ClosesOrRests(c)
    OBVIOUS
  <1>1. AccountsInv /\ AccountsInv'
    BY AccountsStep DEF RankInv
  <1>2. CASE UNCHANGED call
    BY <1>1, <1>2 DEF RankInv, ClosesOrRests, LastIsFinal
  <1>3. CASE Restart
    BY <1>1, <1>3 DEF Restart, RankInv, ClosesOrRests, Closer, LastIsFinal
  <1>4. ASSUME NEW c \in Calls, \A d \in Calls \ {c} : call'[d] = call[d],
               Closer(call'[c], call[c]) \/ (call[c] = Idle /\ LastIsFinal(call'[c]))
        PROVE  RankInv' /\ \A d \in Calls : ClosesOrRests(d)
    <2>1. \A d \in Calls : LastIsFinal(call[d])'
      BY <1>4 DEF RankInv, Closer, LastIsFinal
    <2> QED BY <1>1, <1>4, <2>1 DEF RankInv, ClosesOrRests
  <1>5. ASSUME NEW c \in Calls, Fail(c) \/ Progress(c)
        PROVE  RankInv' /\ \A d \in Calls : ClosesOrRests(d)
    <2>1. PICK n : Set(c, n)
      BY <1>5
         DEF Fail, Progress, FindIdentity, InsertIdentity, LoseInsert, CreateSession, ReadPointer,
             ReadOwned, ReadOwners, Create, Attach, LockAndRead, Write, Deliver, Continue, OfMe,
             OfIntent, OfCreate, OfAttach, OfVerify, Return, Retry, Lost, Go, Answer, End, Known
    <2> QED BY <1>1, <1>4, <1>5, <2>1, StepIsCloser, CallsOthers
  <1>6. ASSUME NEW c \in Calls, NEW op, NEW l, NEW u, NEW w, NEW wish, NEW s,
               Begin(c, op, l, u, w, wish, s)
        PROVE  RankInv' /\ \A d \in Calls : ClosesOrRests(d)
    <2> DEFINE n == [op |-> op, step |-> s, link |-> l, user |-> u, stage |-> "converge",
                     loop |-> "none", tries |-> 0, ptr |-> None, owned |-> {}, target |-> w,
                     wish |-> wish, seen |-> {}, answer |-> "none"]
    <2>1. n.loop = "none"
      OBVIOUS
    <2>2. Set(c, n) /\ call[c] = Idle
      BY <1>6 DEF Begin
    <2> HIDE DEF n
    <2> QED BY <1>1, <1>4, <2>1, <2>2, CallsOthers DEF LastIsFinal
  <1>7. CASE \E c \in Calls :
                \/ \E l \in Links : Verify(c, l)
                \/ \E s \in Sessions : Me(c, s)
                \/ \E s \in Sessions, w \in Workspaces, wish \in Wishes :
                      SubmitIntent(c, s, w, wish)
    BY <1>6, <1>7 DEF Verify, Me, SubmitIntent
  <1> QED BY <1>2, <1>3, <1>5, <1>7
          DEF Next, vars, RequestSignIn, ExpireLink, EndSession, GrantOwner

(* Races are retried a bounded number of times: a request that is served    *)
(* has at most 24 * Budget + 71 steps left, and each step it takes, of      *)
(* whatever kind and however often it loses, leaves it fewer.  CallsEnd     *)
(* fails, then, only if a call stops taking steps.                          *)
THEOREM RetriesAreBounded ==
    Spec => /\ [](\A c \in Calls : Rank(call[c]) \in 0..(24 * Budget + 71))
            /\ [][\A c \in Calls : call[c] # Idle =>
                     \/ call'[c] = call[c] \/ call'[c] = Idle
                     \/ Rank(call'[c]) < Rank(call[c])]_vars
  <1> DEFINE Bounded == \A c \in Calls : Rank(call[c]) \in 0..(24 * Budget + 71)
             Shrinks == \A c \in Calls : call[c] # Idle =>
                           \/ call'[c] = call[c] \/ call'[c] = Idle
                           \/ Rank(call'[c]) < Rank(call[c])
  <1>1. Init => RankInv
    BY InitInv DEF Init, RankInv, LastIsFinal
  <1>2. RankInv => Bounded
    <2>1. 8 * (3 * Budget + 8) + 7 = 24 * Budget + 71
      BY AccountsAssumption
    <2> QED BY <2>1, RankBounded DEF RankInv, AccountsInv
  <1>3. RankInv /\ [Next]_vars => RankInv' /\ [Shrinks]_vars
    BY RankStep DEF ClosesOrRests, Closer
  <1> HIDE DEF Bounded, Shrinks
  <1>4. Spec => []Bounded /\ [][Shrinks]_vars
    BY <1>1, <1>2, <1>3, PTL DEF Spec
  <1> QED BY <1>4 DEF Bounded, Shrinks
=============================================================================
