---------------------------- MODULE PersonalHomes ----------------------------
(* What sign-in promises about people and their personal workspaces, with   *)
(* neither requests nor the order of their statements: each step happens at *)
(* once.  An identity is recognised for ever; a person settles one home,    *)
(* a new workspace or one that was theirs, and keeps it; a session is earned *)
(* by one link, of a person who has a home or cannot be given one; and      *)
(* capabilities are chosen by a home's own person who sees what they are.   *)
EXTENDS Naturals

CONSTANTS Users, Identities, EmailOf, Links, IdentityOf, Workspaces, Legacy, Sessions, Wishes,
          None

VARIABLES
    accounts,       \* [user, email] of the people who are known
    mapping,        \* whom an identity belongs to
    home,           \* the personal workspace of each user
    owned,          \* the workspaces of each user
    capabilities,   \* of each workspace
    session         \* [user, link, live]

homesVars == <<accounts, mapping, home, owned, capabilities, session>>

HomesInit ==
    /\ \A a, b \in accounts : a.email = b.email \/ a.user = b.user => a = b
    /\ mapping = [i \in Identities |-> None]
    /\ home \in [Users -> Legacy \cup {None}]
    /\ \A u \in Users : owned[u] \subseteq Legacy
    /\ capabilities = [w \in Workspaces |-> {}]
    /\ session = [s \in Sessions |-> None]

Exists(w) == w \in Legacy \/ \E u \in Users : w \in owned[u]

(* Nobody can tell which workspace should be the home of u.                 *)
Torn(u) ==
    \/ \E v, w \in owned[u] : v # w
    \/ \E v \in Users \ {u} : owned[u] \cap owned[v] # {}
    \/ home[u] # None /\ home[u] \notin owned[u]

(* The one account of the email, or a new one for it.                       *)
Recognise(i, u) ==
    /\ mapping[i] = None
    /\ LET a == [user |-> u, email |-> EmailOf[i]] IN
       /\ a \in accounts \/ \A b \in accounts : b.email # a.email /\ b.user # u
       /\ accounts' = accounts \cup {a}
    /\ mapping' = [mapping EXCEPT ![i] = u]
    /\ UNCHANGED <<home, owned, capabilities, session>>

Give(u, w) ==
    /\ Exists(w) /\ home[u] # w
    /\ owned' = [owned EXCEPT ![u] = @ \cup {w}]
    /\ UNCHANGED <<accounts, mapping, home, capabilities, session>>

MoveIn(u, w) ==
    /\ home[u] = None /\ ~Exists(w)
    /\ home' = [home EXCEPT ![u] = w]
    /\ owned' = [owned EXCEPT ![u] = @ \cup {w}]
    /\ UNCHANGED <<accounts, mapping, capabilities, session>>

(* Never the home of another of its owners.                                 *)
Adopt(u, w) ==
    /\ home[u] = None /\ w \in owned[u] \cap Legacy
    /\ \A v \in Users \ {u} : home[v] = w => w \notin owned[v]
    /\ home' = [home EXCEPT ![u] = w]
    /\ UNCHANGED <<accounts, mapping, owned, capabilities, session>>

SignIn(s, l) ==
    LET u == mapping[IdentityOf[l]] IN
    /\ session[s] = None
    /\ \A t \in Sessions : session[t] # None => session[t].link # l
    /\ u # None /\ (home[u] # None \/ Torn(u))
    /\ session' = [session EXCEPT ![s] = [user |-> u, link |-> l, live |-> TRUE]]
    /\ UNCHANGED <<accounts, mapping, home, owned, capabilities>>

SignOut(s) ==
    /\ session[s] # None
    /\ session' = [session EXCEPT ![s].live = FALSE]
    /\ UNCHANGED <<accounts, mapping, home, owned, capabilities>>

Choose(u, w, wish) ==
    /\ home[u] = w /\ capabilities[w] = wish.expected
    /\ \E s \in Sessions : session[s] # None /\ session[s].user = u
    /\ capabilities' = [capabilities EXCEPT ![w] = @ \cup wish.chosen]
    /\ UNCHANGED <<accounts, mapping, home, owned, session>>

HomesNext ==
    \/ \E u \in Users :
          \/ \E i \in Identities : Recognise(i, u)
          \/ \E w \in Workspaces :
                Give(u, w) \/ MoveIn(u, w) \/ Adopt(u, w) \/ \E wish \in Wishes : Choose(u, w, wish)
    \/ \E s \in Sessions : SignOut(s) \/ \E l \in Links : SignIn(s, l)

HomesSpec == HomesInit /\ [][HomesNext]_homesVars
=============================================================================
