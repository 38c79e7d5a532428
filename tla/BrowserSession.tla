--------------------------- MODULE BrowserSession ---------------------------
(* Who a browser tab shows as signed in (SessionProvider.tsx): the session  *)
(* cookie, the requests that read or change it, and the generation counter  *)
(* that keeps a late answer from overwriting a newer one.                   *)
EXTENDS Naturals

CONSTANTS
    Sessions,    \* AuthSession ids
    Users,       \* UserAccount ids
    UserOf,      \* the user a session was issued to
    Requests,    \* the auth requests a tab may have in flight at once
    MaxGeneration,
    None

(* A request as the tab sent it, and what the server answered, if it did.   *)
(* The answer to an action reaches the browser as headers, which change the *)
(* cookie, before the tab has read its body.                                *)
Request ==
    [kind : {"me", "verify", "out"}, cookie : Sessions \cup {None},
     generation : 0..MaxGeneration, phase : {"sent", "served", "headers"},
     answer : Users \cup Sessions \cup {None}]

ASSUME BrowserAssumption ==
    /\ UserOf \in [Sessions -> Users] /\ MaxGeneration \in Nat \ {0}
    /\ None \notin Users \cup Sessions \cup Request

VARIABLES
    cookie,      \* the session cookie of the browser
    live,        \* the server's sessions that are neither revoked nor expired
    issued,      \* the sessions that were ever issued
    shown,       \* user, as every consumer of the provider renders it
    generation,  \* sessionOperationGeneration
    flight,      \* the requests that have no outcome yet
    unread       \* history: a cookie came with an answer whose body was lost,
                 \* and nothing was fetched since

browser == <<cookie, live, issued, shown, generation, flight, unread>>

BrowserTypeOK ==
    /\ cookie \in Sessions \cup {None} /\ live \subseteq issued /\ issued \subseteq Sessions
    /\ shown \in Users \cup {None} /\ generation \in 0..MaxGeneration
    /\ flight \in [Requests -> Request \cup {None}] /\ unread \in BOOLEAN

Sent(kind, sessionCookie, g) ==
    [kind |-> kind, cookie |-> sessionCookie, generation |-> g, phase |-> "sent", answer |-> None]

(* The mount-time fetch is the first of its kind.                           *)
BrowserInit ==
    /\ cookie = None /\ live = {} /\ issued = {} /\ shown = None /\ generation = 1
    /\ unread = FALSE
    /\ \E r \in Requests : flight = [q \in Requests |-> IF q = r THEN Sent("me", None, 1) ELSE None]

(* refresh: a new generation, and the session is fetched with the cookie of *)
(* the moment.                                                              *)
Fetch(r, sessionCookie) ==
    /\ generation < MaxGeneration
    /\ generation' = generation + 1
    /\ flight' = [flight EXCEPT ![r] = Sent("me", sessionCookie, generation')]
    /\ unread' = FALSE

Refresh(r) ==
    /\ flight[r] = None
    /\ Fetch(r, cookie)
    /\ UNCHANGED <<cookie, live, issued, shown>>

(* verifyAndRefresh and signOutAndRefresh, up to their first await.         *)
Begin(r, kind) ==
    /\ flight[r] = None
    /\ flight' = [flight EXCEPT ![r] = Sent(kind, cookie, 0)]
    /\ UNCHANGED <<cookie, live, issued, shown, generation, unread>>

(* The page is loaded anew: what was in flight finds nobody.                *)
Reload(r) ==
    /\ shown' = None /\ generation' = 1 /\ unread' = FALSE
    /\ flight' = [q \in Requests |-> IF q = r THEN Sent("me", cookie, 1) ELSE None]
    /\ UNCHANGED <<cookie, live, issued>>
-----------------------------------------------------------------------------
Unserved(r, kind) == flight[r] # None /\ flight[r].kind = kind /\ flight[r].phase = "sent"
Served(r, answer) ==
    flight' = [flight EXCEPT ![r].phase = "served", ![r].answer = answer]

(* Mutation: the answer names the session where its user belongs.           *)
ServeMeSession(r) ==
    /\ Unserved(r, "me")
    /\ Served(r, IF flight[r].cookie \in live THEN flight[r].cookie ELSE None)
    /\ UNCHANGED <<cookie, live, issued, shown, generation, unread>>

ServeMe(r) ==
    /\ Unserved(r, "me")
    /\ Served(r, IF flight[r].cookie \in live THEN UserOf[flight[r].cookie] ELSE None)
    /\ UNCHANGED <<cookie, live, issued, shown, generation, unread>>

ServeVerify(r) ==
    /\ Unserved(r, "verify")
    /\ \E s \in Sessions \ issued :
          /\ live' = live \cup {s} /\ issued' = issued \cup {s}
          /\ Served(r, s)
    /\ UNCHANGED <<cookie, shown, generation, unread>>

ServeSignOut(r) ==
    /\ Unserved(r, "out")
    /\ live' = live \ {flight[r].cookie}
    /\ Served(r, None)
    /\ UNCHANGED <<cookie, issued, shown, generation, unread>>

Expire(s) ==
    /\ s \in live
    /\ live' = live \ {s}
    /\ UNCHANGED <<cookie, issued, shown, generation, flight, unread>>
-----------------------------------------------------------------------------
(* Mutation: an answer counts although a newer operation has begun.         *)
AnyGeneration(r) == TRUE

Current(r) == flight[r].generation = generation

Settle(r, user) ==
    /\ shown' = IF Current(r) THEN user ELSE shown
    /\ flight' = [flight EXCEPT ![r] = None]

ReceiveMe(r) ==
    /\ flight[r] # None /\ flight[r].kind = "me" /\ flight[r].phase = "served"
    /\ Settle(r, flight[r].answer)
    /\ UNCHANGED <<cookie, live, issued, generation, unread>>

(* The headers of a verification's answer set the cookie, those of a        *)
(* sign-out's clear it; the tab has read nothing of the answer yet.         *)
ReceiveHeaders(r) ==
    /\ flight[r] # None /\ flight[r].kind # "me" /\ flight[r].phase = "served"
    /\ cookie' = flight[r].answer
    /\ flight' = [flight EXCEPT ![r].phase = "headers"]
    /\ UNCHANGED <<live, issued, shown, generation, unread>>

(* The awaited action resolves and is followed by a refresh, with whatever  *)
(* the cookie is by then.                                                   *)
RefreshAfter(r) ==
    /\ flight[r] # None /\ flight[r].phase = "headers"
    /\ Fetch(r, cookie)
    /\ UNCHANGED <<cookie, live, issued, shown>>

(* The request or its answer is lost: a fetch that failed shows nobody, an  *)
(* action that failed is followed by no refresh. A verification whose body  *)
(* is lost or does not parse has failed for the tab, and its cookie stays.  *)
Lose(r) ==
    /\ flight[r] # None
    /\ \/ flight[r].kind = "me" /\ Settle(r, None) /\ UNCHANGED unread
       \/ /\ flight[r].kind # "me"
          /\ flight[r].phase = "headers" => flight[r].kind = "verify"
          /\ flight' = [flight EXCEPT ![r] = None]
          /\ unread' = (unread \/ flight[r].phase = "headers")
          /\ UNCHANGED shown
    /\ UNCHANGED <<cookie, live, issued, generation>>

(* The steps that leave the page in place.                                  *)
BrowserNext ==
    \/ \E r \in Requests :
          \/ Refresh(r) \/ Begin(r, "verify") \/ Begin(r, "out")
          \/ ServeMe(r) \/ ServeVerify(r) \/ ServeSignOut(r)
          \/ ReceiveMe(r) \/ ReceiveHeaders(r) \/ RefreshAfter(r) \/ Lose(r)
    \/ \E s \in Sessions : Expire(s)
-----------------------------------------------------------------------------
LatestInFlight ==
    \E r \in Requests :
       flight[r] # None /\ flight[r].kind = "me" /\ flight[r].generation = generation

(* The cookie changed and the tab has fetched nothing since: the action that *)
(* changed it is not done, or failed when its body was read.                *)
CookieUnfollowed ==
    unread \/ \E r \in Requests : flight[r] # None /\ flight[r].phase = "headers"

(* Unless the latest fetch is still under way, or the tab has yet to follow *)
(* a change of the cookie, it shows nobody or the user whose session the    *)
(* cookie is: no late answer, of whatever earlier refresh, brings back a    *)
(* user who signed out, or the one before the one who signed in.            *)
ShownUserIsCurrent ==
    ~LatestInFlight /\ ~CookieUnfollowed =>
       shown = None \/ (cookie # None /\ shown = UserOf[cookie])
=============================================================================
