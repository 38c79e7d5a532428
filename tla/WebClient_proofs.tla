-------------------------- MODULE WebClient_proofs --------------------------
(* Proofs about a browser tab, for every number of requests, sessions and   *)
(* searches.                                                                *)
EXTENDS WebClient, TLAPS

LEMMA SentType ==
    ASSUME NEW kind \in {"me", "verify", "out"}, NEW c \in Sessions \cup {None},
           NEW g \in 0..MaxGeneration
    PROVE  Sent(kind, c, g) \in Request
  BY DEF Sent, Request

LEMMA FetchType ==
    ASSUME BrowserTypeOK, NEW r \in Requests, NEW c \in Sessions \cup {None}, Fetch(r, c)
    PROVE  /\ generation' = generation + 1 /\ generation' \in 0..MaxGeneration
           /\ flight' \in [Requests -> Request \cup {None}] /\ unread' = FALSE
  <1>1. generation' = generation + 1 /\ generation' \in 0..MaxGeneration
    BY BrowserAssumption DEF Fetch, BrowserTypeOK
  <1>2. Sent("me", c, generation') \in Request
    BY <1>1, SentType
  <1> QED BY <1>1, <1>2 DEF Fetch, BrowserTypeOK

LEMMA ServedType ==
    ASSUME BrowserTypeOK, NEW r \in Requests, flight[r] # None,
           NEW a \in Users \cup Sessions \cup {None}, Served(r, a)
    PROVE  flight' \in [Requests -> Request \cup {None}]
  <1>1. flight[r] \in Request
    BY DEF BrowserTypeOK
  <1>2. [flight[r] EXCEPT !.phase = "served", !.answer = a] \in Request
    BY <1>1 DEF Request
  <1>3. flight' = [flight EXCEPT ![r] = [flight[r] EXCEPT !.phase = "served", !.answer = a]]
    BY DEF Served, BrowserTypeOK
  <1> QED BY <1>2, <1>3 DEF BrowserTypeOK

LEMMA ReloadType ==
    ASSUME BrowserTypeOK, NEW r \in Requests, Reload(r)
    PROVE  BrowserTypeOK'
  <1>1. 1 \in 0..MaxGeneration
    BY BrowserAssumption
  <1>2. Sent("me", cookie, 1) \in Request
    BY <1>1, SentType DEF BrowserTypeOK
  <1> QED BY <1>1, <1>2 DEF Reload, BrowserTypeOK

(* What is known of a request f when the cookie is c, the generation g, and *)
(* a change of the cookie not followed yet or not (u). A fetch of the       *)
(* current generation was sent with the current cookie, unless the cookie   *)
(* changed and nothing was fetched since.                                   *)
RequestFits(f, c, g, u) ==
    /\ f.kind = "me" => f.generation <= g /\ f.phase # "headers"
    /\ f.kind = "me" /\ f.generation = g /\ ~u => f.cookie = c
    /\ f.kind = "me" /\ f.phase # "sent" =>
          f.answer = None \/ (f.cookie # None /\ f.answer = UserOf[f.cookie])
    /\ f.kind # "me" /\ f.phase # "sent" => f.answer \in Sessions \cup {None}

FlightFits ==
    \A r \in Requests : flight[r] # None =>
       RequestFits(flight[r], cookie, generation, CookieUnfollowed)

BrowserInv == BrowserTypeOK /\ FlightFits /\ ShownUserIsCurrent

LEMMA AnswersFit ==
    ASSUME BrowserTypeOK, FlightFits, NEW r \in Requests, flight[r] # None, flight[r].phase # "sent"
    PROVE  /\ flight[r].kind = "me" => flight[r].answer \in Users \cup {None}
           /\ flight[r].kind # "me" => flight[r].answer \in Sessions \cup {None}
  <1>1. flight[r] \in Request /\ RequestFits(flight[r], cookie, generation, CookieUnfollowed)
    BY DEF BrowserTypeOK, FlightFits
  <1>2. flight[r].cookie # None => UserOf[flight[r].cookie] \in Users
    BY <1>1, BrowserAssumption DEF Request
  <1> QED BY <1>1, <1>2 DEF RequestFits

LEMMA BrowserStepType ==
    ASSUME BrowserTypeOK, FlightFits, BrowserNext
    PROVE  BrowserTypeOK'
  <1>1. ASSUME NEW r \in Requests, Refresh(r)
        PROVE  BrowserTypeOK'
    <2>1. cookie \in Sessions \cup {None} /\ Fetch(r, cookie)
      BY <1>1 DEF Refresh, BrowserTypeOK
    <2> QED BY <1>1, <2>1, FetchType DEF Refresh, BrowserTypeOK
  <1>2. ASSUME NEW r \in Requests, NEW kind \in {"verify", "out"}, Begin(r, kind)
        PROVE  BrowserTypeOK'
    <2>1. 0 \in 0..MaxGeneration
      BY BrowserAssumption
    <2>2. Sent(kind, cookie, 0) \in Request
      BY <2>1, SentType DEF BrowserTypeOK
    <2> QED BY <1>2, <2>2 DEF Begin, BrowserTypeOK
  <1>3. ASSUME NEW r \in Requests, ServeMe(r)
        PROVE  BrowserTypeOK'
    <2>1. flight[r] # None /\ flight[r] \in Request
      BY <1>3 DEF ServeMe, Unserved, BrowserTypeOK
    <2>2. (IF flight[r].cookie \in live THEN UserOf[flight[r].cookie] ELSE None)
             \in Users \cup Sessions \cup {None}
      BY BrowserAssumption DEF BrowserTypeOK
    <2>3. flight' \in [Requests -> Request \cup {None}]
      BY <1>3, <2>1, <2>2, ServedType DEF ServeMe
    <2> QED BY <1>3, <2>3 DEF ServeMe, BrowserTypeOK
  <1>4. ASSUME NEW r \in Requests, ServeVerify(r)
        PROVE  BrowserTypeOK'
    <2>1. PICK s \in Sessions \ issued :
             live' = live \cup {s} /\ issued' = issued \cup {s} /\ Served(r, s)
      BY <1>4 DEF ServeVerify
    <2>2. flight[r] # None
      BY <1>4 DEF ServeVerify, Unserved
    <2>3. flight' \in [Requests -> Request \cup {None}]
      BY <2>1, <2>2, ServedType
    <2> QED BY <1>4, <2>1, <2>3 DEF ServeVerify, BrowserTypeOK
  <1>5. ASSUME NEW r \in Requests, ServeSignOut(r)
        PROVE  BrowserTypeOK'
    <2>1. flight[r] # None /\ Served(r, None)
      BY <1>5 DEF ServeSignOut, Unserved
    <2>2. flight' \in [Requests -> Request \cup {None}]
      BY <2>1, ServedType
    <2> QED BY <1>5, <2>2 DEF ServeSignOut, BrowserTypeOK
  <1>6. ASSUME NEW r \in Requests, ReceiveMe(r)
        PROVE  BrowserTypeOK'
    <2>1. flight[r].answer \in Users \cup {None}
      BY <1>6, AnswersFit DEF ReceiveMe
    <2> QED BY <1>6, <2>1 DEF ReceiveMe, Settle, BrowserTypeOK
  <1>7. ASSUME NEW r \in Requests, ReceiveHeaders(r)
        PROVE  BrowserTypeOK'
    <2>1. flight[r].answer \in Sessions \cup {None} /\ flight[r] \in Request
      BY <1>7, AnswersFit DEF ReceiveHeaders, BrowserTypeOK
    <2>2. [flight[r] EXCEPT !.phase = "headers"] \in Request
      BY <2>1 DEF Request
    <2>3. flight' \in [Requests -> Request \cup {None}]
      BY <1>7, <2>2 DEF ReceiveHeaders, BrowserTypeOK
    <2> QED BY <1>7, <2>1, <2>3 DEF ReceiveHeaders, BrowserTypeOK
  <1>7a. ASSUME NEW r \in Requests, RefreshAfter(r)
         PROVE  BrowserTypeOK'
    <2>1. cookie \in Sessions \cup {None} /\ Fetch(r, cookie)
      BY <1>7a DEF RefreshAfter, BrowserTypeOK
    <2> QED BY <1>7a, <2>1, FetchType DEF RefreshAfter, BrowserTypeOK
  <1>8. ASSUME NEW r \in Requests, Lose(r)
        PROVE  BrowserTypeOK'
    BY <1>8 DEF Lose, Settle, BrowserTypeOK
  <1>9. ASSUME NEW s \in Sessions, Expire(s)
        PROVE  BrowserTypeOK'
    BY <1>9 DEF Expire, BrowserTypeOK
  <1> QED
    BY <1>1, <1>2, <1>3, <1>4, <1>5, <1>6, <1>7, <1>7a, <1>8, <1>9 DEF BrowserNext

LEMMA BrowserInitInv == BrowserInit => BrowserInv
  <1> SUFFICES ASSUME BrowserInit PROVE BrowserInv
    OBVIOUS
  <1>1. 1 \in 0..MaxGeneration
    BY BrowserAssumption
  <1>2. Sent("me", None, 1) \in Request
    BY <1>1, SentType
  <1>3. BrowserTypeOK
    BY <1>1, <1>2 DEF BrowserInit, BrowserTypeOK
  <1>4. FlightFits
    BY DEF BrowserInit, FlightFits, RequestFits, Sent
  <1> QED BY <1>3, <1>4 DEF BrowserInv, BrowserInit, ShownUserIsCurrent
-----------------------------------------------------------------------------
(* A fetch that begins: it is the only one of the new generation.           *)
LEMMA FetchFits ==
    ASSUME BrowserTypeOK, FlightFits, NEW r \in Requests, Fetch(r, cookie), cookie' = cookie
    PROVE  FlightFits' /\ LatestInFlight'
  <1>0. cookie \in Sessions \cup {None}
    BY DEF BrowserTypeOK
  <1>1. generation \in Nat /\ generation' = generation + 1
    <2>1. generation \in Nat
      BY BrowserAssumption DEF BrowserTypeOK
    <2> QED BY <2>1 DEF Fetch
  <1>2. flight'[r] = Sent("me", cookie, generation')
    BY DEF Fetch, BrowserTypeOK
  <1>2a. flight'[r].kind = "me" /\ flight'[r].generation = generation'
    BY <1>2 DEF Sent
  <1>2b. flight'[r] # None
    <2>1. generation' \in 0..MaxGeneration
      BY <1>0, FetchType
    <2>2. flight'[r] \in Request
      BY <1>0, <1>2, <2>1, SentType
    <2> QED BY <2>2, BrowserAssumption
  <1>3. RequestFits(flight'[r], cookie', generation', CookieUnfollowed')
    BY <1>1, <1>2 DEF RequestFits, Sent
  <1>4. ASSUME NEW q \in Requests, q # r, flight'[q] # None
        PROVE  RequestFits(flight'[q], cookie', generation', CookieUnfollowed')
    <2>1. flight'[q] = flight[q] /\ flight[q] \in Request
      BY <1>4 DEF Fetch, BrowserTypeOK
    <2>2. flight[q].generation \in Nat
      BY <2>1, BrowserAssumption DEF Request
    <2>3. RequestFits(flight[q], cookie, generation, CookieUnfollowed)
      BY <1>4, <2>1 DEF FlightFits
    <2> QED BY <1>1, <2>1, <2>2, <2>3 DEF RequestFits
  <1>5. FlightFits'
    BY <1>3, <1>4 DEF FlightFits
  <1>6. LatestInFlight'
    BY <1>2a, <1>2b DEF LatestInFlight
  <1> QED BY <1>5, <1>6

(* A step of one request that is no fetch: the others still fit, as long as *)
(* a change of the cookie that waits to be followed goes on waiting.        *)
LEMMA OthersFit ==
    ASSUME FlightFits, NEW r \in Requests,
           \A q \in Requests : q # r => flight'[q] = flight[q],
           UNCHANGED generation, cookie' = cookie \/ CookieUnfollowed',
           CookieUnfollowed => CookieUnfollowed',
           flight'[r] # None => RequestFits(flight'[r], cookie', generation, CookieUnfollowed')
    PROVE  FlightFits'
  <1>1. ASSUME NEW q \in Requests, q # r, flight[q] # None
        PROVE  RequestFits(flight[q], cookie', generation, CookieUnfollowed')
    <2>1. RequestFits(flight[q], cookie, generation, CookieUnfollowed)
      BY <1>1 DEF FlightFits
    <2> QED BY <2>1 DEF RequestFits
  <1> QED BY <1>1 DEF FlightFits

(* A request leaves the tab's books: it waited for nothing, or what it left *)
(* behind is recorded.                                                      *)
LEMMA DropFits ==
    ASSUME BrowserTypeOK, FlightFits, NEW r \in Requests, flight[r] # None,
           flight' = [flight EXCEPT ![r] = None], UNCHANGED <<cookie, generation>>,
           unread => unread', flight[r].phase = "headers" => unread'
    PROVE  FlightFits' /\ (CookieUnfollowed => CookieUnfollowed')
  <1>1. flight'[r] = None /\ \A q \in Requests : q # r => flight'[q] = flight[q]
    BY DEF BrowserTypeOK
  <1>2. CookieUnfollowed => CookieUnfollowed'
    BY <1>1 DEF CookieUnfollowed
  <1> QED BY <1>1, <1>2, OthersFit

(* The server answers a request: nothing of it reaches the browser yet.     *)
LEMMA ServeFits ==
    ASSUME BrowserTypeOK, FlightFits, NEW r \in Requests, flight[r] # None,
           flight[r].phase = "sent",
           NEW a \in Users \cup Sessions \cup {None}, Served(r, a),
           UNCHANGED <<cookie, generation, unread>>,
           flight[r].kind = "me" =>
              a = None \/ (flight[r].cookie # None /\ a = UserOf[flight[r].cookie]),
           flight[r].kind # "me" => a \in Sessions \cup {None}
    PROVE  FlightFits' /\ (CookieUnfollowed => CookieUnfollowed') /\ (LatestInFlight => LatestInFlight')
  <1>1. flight[r] \in Request /\ RequestFits(flight[r], cookie, generation, CookieUnfollowed)
    BY DEF BrowserTypeOK, FlightFits
  <1>2. flight' = [flight EXCEPT ![r] = [flight[r] EXCEPT !.phase = "served", !.answer = a]]
    BY DEF Served, BrowserTypeOK
  <1> DEFINE f == [flight[r] EXCEPT !.phase = "served", !.answer = a]
  <1>3. flight'[r] = f /\ \A q \in Requests : q # r => flight'[q] = flight[q]
    BY <1>2 DEF BrowserTypeOK
  <1>4. /\ f.kind = flight[r].kind /\ f.cookie = flight[r].cookie
        /\ f.generation = flight[r].generation /\ f.phase = "served" /\ f.answer = a
    BY <1>1 DEF Request
  <1>5. f # None
    <2>1. f \in Request
      BY <1>1 DEF Request
    <2> QED BY <2>1, BrowserAssumption
  <1> HIDE DEF f
  <1>6. CookieUnfollowed => CookieUnfollowed'
    BY <1>3 DEF CookieUnfollowed
  <1>7. RequestFits(f, cookie, generation, CookieUnfollowed')
    BY <1>1, <1>4, <1>6 DEF RequestFits
  <1>8. FlightFits'
    BY <1>3, <1>6, <1>7, OthersFit
  <1>9. LatestInFlight => LatestInFlight'
    BY <1>3, <1>4, <1>5 DEF LatestInFlight
  <1> QED BY <1>6, <1>8, <1>9

LEMMA BrowserStepInv ==
    ASSUME BrowserInv, BrowserNext
    PROVE  BrowserInv'
  <1>0. BrowserTypeOK /\ FlightFits /\ ShownUserIsCurrent
    BY DEF BrowserInv
  <1>t. BrowserTypeOK'
    BY <1>0, BrowserStepType
  <1>f. ASSUME NEW r \in Requests, Fetch(r, cookie), cookie' = cookie
        PROVE  FlightFits' /\ ShownUserIsCurrent'
    BY <1>0, <1>f, FetchFits DEF ShownUserIsCurrent
  <1>1. ASSUME NEW r \in Requests, Refresh(r)
        PROVE  FlightFits' /\ ShownUserIsCurrent'
    BY <1>1, <1>f DEF Refresh
  <1>2. ASSUME NEW r \in Requests, NEW kind \in {"verify", "out"}, Begin(r, kind)
        PROVE  FlightFits' /\ ShownUserIsCurrent'
    <2>1. flight[r] = None /\ flight' = [flight EXCEPT ![r] = Sent(kind, cookie, 0)]
          /\ UNCHANGED <<cookie, shown, generation, unread>>
      BY <1>2 DEF Begin
    <2>2. flight'[r] = Sent(kind, cookie, 0) /\ \A q \in Requests : q # r => flight'[q] = flight[q]
      BY <1>0, <2>1 DEF BrowserTypeOK
    <2>3. RequestFits(Sent(kind, cookie, 0), cookie, generation, CookieUnfollowed')
      BY <1>2 DEF RequestFits, Sent
    <2>4. CookieUnfollowed => CookieUnfollowed'
      BY <2>1, <2>2 DEF CookieUnfollowed
    <2>5. FlightFits'
      BY <1>0, <2>1, <2>2, <2>3, <2>4, OthersFit
    <2>6. LatestInFlight => LatestInFlight'
      BY <2>1, <2>2 DEF LatestInFlight
    <2> QED BY <1>0, <2>1, <2>4, <2>5, <2>6 DEF ShownUserIsCurrent
  <1>3. ASSUME NEW r \in Requests, flight[r] # None, flight[r].phase = "sent",
               NEW a \in Users \cup Sessions \cup {None}, Served(r, a),
               UNCHANGED <<cookie, shown, generation, unread>>,
               flight[r].kind = "me" =>
                  a = None \/ (flight[r].cookie # None /\ a = UserOf[flight[r].cookie]),
               flight[r].kind # "me" => a \in Sessions \cup {None}
        PROVE  FlightFits' /\ ShownUserIsCurrent'
    <2>1. /\ FlightFits' /\ (CookieUnfollowed => CookieUnfollowed')
          /\ LatestInFlight => LatestInFlight'
      BY <1>0, <1>3, ServeFits
    <2> QED BY <1>0, <1>3, <2>1 DEF ShownUserIsCurrent
  <1>4. ASSUME NEW r \in Requests, ServeMe(r)
        PROVE  FlightFits' /\ ShownUserIsCurrent'
    <2> DEFINE a == IF flight[r].cookie \in live THEN UserOf[flight[r].cookie] ELSE None
    <2>1. /\ flight[r] # None /\ flight[r].kind = "me" /\ flight[r].phase = "sent" /\ Served(r, a)
          /\ UNCHANGED <<cookie, shown, generation, unread>>
      BY <1>4 DEF ServeMe, Unserved
    <2>2. a = None \/ (flight[r].cookie # None /\ a = UserOf[flight[r].cookie])
      BY <1>0, BrowserAssumption DEF BrowserTypeOK
    <2>3. a \in Users \cup Sessions \cup {None}
      BY <1>0, BrowserAssumption DEF BrowserTypeOK
    <2> HIDE DEF a
    <2> QED BY <1>3, <2>1, <2>2, <2>3
  <1>5. ASSUME NEW r \in Requests, ServeVerify(r)
        PROVE  FlightFits' /\ ShownUserIsCurrent'
    <2>1. PICK s \in Sessions : Served(r, s)
      BY <1>5 DEF ServeVerify
    <2> QED BY <1>3, <1>5, <2>1 DEF ServeVerify, Unserved
  <1>6. ASSUME NEW r \in Requests, ServeSignOut(r)
        PROVE  FlightFits' /\ ShownUserIsCurrent'
    BY <1>3, <1>6 DEF ServeSignOut, Unserved
  <1>7. ASSUME NEW r \in Requests, NEW user \in Users \cup {None},
               flight[r] # None, flight[r].kind = "me", Settle(r, user),
               UNCHANGED <<cookie, generation, unread>>,
               flight[r].generation = generation /\ ~CookieUnfollowed =>
                  user = None \/ (cookie # None /\ user = UserOf[cookie])
        PROVE  FlightFits' /\ ShownUserIsCurrent'
    <2>0. flight[r].phase # "headers"
      BY <1>0, <1>7 DEF FlightFits, RequestFits
    <2>1. FlightFits' /\ (CookieUnfollowed => CookieUnfollowed')
      BY <1>0, <1>7, <2>0, DropFits DEF Settle
    <2>2. CASE Current(r)
      BY <1>7, <2>1, <2>2 DEF Settle, Current, ShownUserIsCurrent
    <2>3. CASE ~Current(r)
      <3>1. LatestInFlight => LatestInFlight'
        BY <1>0, <1>7, <2>3 DEF LatestInFlight, Settle, Current, BrowserTypeOK
      <3>2. shown' = shown
        BY <1>7, <2>3 DEF Settle
      <3> QED BY <1>0, <1>7, <2>1, <3>1, <3>2 DEF ShownUserIsCurrent
    <2> QED BY <2>2, <2>3
  <1>8. ASSUME NEW r \in Requests, ReceiveMe(r)
        PROVE  FlightFits' /\ ShownUserIsCurrent'
    <2>1. /\ flight[r] # None /\ flight[r].kind = "me" /\ flight[r].phase # "sent"
          /\ Settle(r, flight[r].answer) /\ UNCHANGED <<cookie, generation, unread>>
      BY <1>8 DEF ReceiveMe
    <2>2. RequestFits(flight[r], cookie, generation, CookieUnfollowed)
      BY <1>0, <2>1 DEF FlightFits
    <2>3. flight[r].generation = generation /\ ~CookieUnfollowed =>
             flight[r].answer = None \/ (cookie # None /\ flight[r].answer = UserOf[cookie])
      BY <2>1, <2>2 DEF RequestFits
    <2>4. flight[r].answer \in Users \cup {None}
      BY <1>0, <2>1, AnswersFit
    <2> QED BY <1>7, <2>1, <2>3, <2>4
  <1>9. ASSUME NEW r \in Requests, ReceiveHeaders(r)
        PROVE  FlightFits' /\ ShownUserIsCurrent'
    <2>1. /\ flight[r] # None /\ flight[r].kind # "me" /\ flight[r].phase = "served"
          /\ flight[r] \in Request /\ UNCHANGED generation
          /\ flight' = [flight EXCEPT ![r] = [flight[r] EXCEPT !.phase = "headers"]]
      BY <1>0, <1>9 DEF ReceiveHeaders, BrowserTypeOK
    <2> DEFINE f == [flight[r] EXCEPT !.phase = "headers"]
    <2>2. /\ flight'[r] = f /\ \A q \in Requests : q # r => flight'[q] = flight[q]
          /\ f.kind = flight[r].kind /\ f.phase = "headers" /\ f.answer = flight[r].answer
      BY <1>0, <2>1 DEF BrowserTypeOK, Request
    <2>3. f \in Request
      BY <2>1 DEF Request
    <2>4. f # None
      BY <2>3, BrowserAssumption
    <2> HIDE DEF f
    <2>5. CookieUnfollowed'
      BY <2>2, <2>4 DEF CookieUnfollowed
    <2>6. RequestFits(f, cookie', generation, CookieUnfollowed')
      BY <1>0, <2>1, <2>2, AnswersFit DEF RequestFits
    <2>7. FlightFits'
      BY <1>0, <2>1, <2>2, <2>5, <2>6, OthersFit
    <2> QED BY <2>5, <2>7 DEF ShownUserIsCurrent
  <1>9a. ASSUME NEW r \in Requests, RefreshAfter(r)
         PROVE  FlightFits' /\ ShownUserIsCurrent'
    BY <1>9a, <1>f DEF RefreshAfter
  <1>10. ASSUME NEW r \in Requests, Lose(r)
         PROVE  FlightFits' /\ ShownUserIsCurrent'
    <2>1. CASE flight[r].kind = "me"
      BY <1>7, <1>10, <2>1 DEF Lose
    <2>2. CASE flight[r].kind # "me"
      <3>1. /\ flight[r] # None /\ flight' = [flight EXCEPT ![r] = None]
            /\ UNCHANGED <<cookie, shown, generation>>
            /\ unread => unread'
            /\ flight[r].phase = "headers" => unread'
        BY <1>10, <2>2 DEF Lose
      <3>2. FlightFits' /\ (CookieUnfollowed => CookieUnfollowed')
        BY <1>0, <3>1, DropFits
      <3>3. LatestInFlight => LatestInFlight'
        BY <1>0, <2>2, <3>1 DEF LatestInFlight, BrowserTypeOK
      <3> QED BY <1>0, <3>1, <3>2, <3>3 DEF ShownUserIsCurrent
    <2> QED BY <2>1, <2>2
  <1>11. ASSUME NEW s \in Sessions, Expire(s)
         PROVE  FlightFits' /\ ShownUserIsCurrent'
    BY <1>0, <1>11
       DEF Expire, FlightFits, ShownUserIsCurrent, LatestInFlight, CookieUnfollowed
  <1>12. FlightFits' /\ ShownUserIsCurrent'
    BY <1>1, <1>2, <1>4, <1>5, <1>6, <1>8, <1>9, <1>9a, <1>10, <1>11 DEF BrowserNext
  <1> QED BY <1>t, <1>12 DEF BrowserInv

LEMMA ReloadInv ==
    ASSUME BrowserInv, NEW r \in Requests, Reload(r)
    PROVE  BrowserInv'
  <1>0. BrowserTypeOK
    BY DEF BrowserInv
  <1>1. BrowserTypeOK'
    BY <1>0, ReloadType
  <1>2. RequestFits(Sent("me", cookie, 1), cookie, 1, CookieUnfollowed')
    BY DEF RequestFits, Sent
  <1>3. FlightFits'
    BY <1>2 DEF FlightFits, Reload
  <1>4. ShownUserIsCurrent'
    BY DEF Reload, ShownUserIsCurrent
  <1> QED BY <1>1, <1>3, <1>4 DEF BrowserInv
-----------------------------------------------------------------------------
(* No search is newer than the counter, and the latest one is not aborted:  *)
(* its request is the only one of its number.                               *)
AwaitedFit == \A a \in awaited : a.id <= counter /\ (a.id = counter => ~a.aborted)

(* A search under way has hidden the error of the one before.               *)
LoadingHidesError == loading => error = 0

SearchInv == SearchTypeOK /\ AwaitedFit /\ LoadingHidesError /\ ResultsMatchRequest

LEMMA SearchInitInv == SearchInit => SearchInv
  <1>1. 0 \in 0..MaxSearches
    BY SearchAssumption
  <1>2. SearchInit => SearchTypeOK /\ AwaitedFit /\ LoadingHidesError
    BY <1>1 DEF SearchInit, SearchTypeOK, AwaitedFit, LoadingHidesError
  <1>3. SearchInit => ResultsMatchRequest
    BY DEF SearchInit, ResultsMatchRequest
  <1> QED BY <1>2, <1>3 DEF SearchInv

LEMMA AbortedFits ==
    ASSUME SearchTypeOK, AwaitedFit
    PROVE  /\ Aborted \subseteq [id : Searches, aborted : BOOLEAN]
           /\ \A a \in Aborted : a.id <= counter
  BY DEF Aborted, SearchTypeOK, AwaitedFit

LEMMA SearchStepInv ==
    ASSUME SearchInv, SearchNext
    PROVE  SearchInv'
  <1>0. /\ SearchTypeOK /\ AwaitedFit /\ LoadingHidesError /\ ResultsMatchRequest
        /\ counter \in Nat /\ \A a \in awaited : a.id \in Nat
    BY SearchAssumption DEF SearchInv, SearchTypeOK, Searches
  <1>1. ASSUME Search PROVE SearchInv'
    <2>1. /\ counter' = counter + 1 /\ counter + 1 \in Searches /\ counter + 1 \in 0..MaxSearches
          /\ controller' = counter + 1 /\ UNCHANGED results
          /\ last' = TRUE /\ loading' = TRUE /\ error' = 0
      BY <1>0, <1>1, SearchAssumption DEF Search, Searches
    <2> DEFINE new == [id |-> counter + 1, aborted |-> FALSE]
    <2>2. awaited' = Aborted \cup {new}
      BY <1>1, <2>1 DEF Search
    <2>3. new \in [id : Searches, aborted : BOOLEAN] /\ new.id = counter + 1 /\ ~new.aborted
      BY <2>1
    <2> HIDE DEF new
    <2>4. /\ Aborted \subseteq [id : Searches, aborted : BOOLEAN]
          /\ \A a \in Aborted : a.id <= counter /\ a.id \in Nat
      BY <1>0, AbortedFits, SearchAssumption DEF Searches
    <2>5. SearchTypeOK'
      BY <1>0, <2>1, <2>2, <2>3, <2>4, SearchAssumption DEF SearchTypeOK
    <2>6. AwaitedFit'
      BY <1>0, <2>1, <2>2, <2>3, <2>4 DEF AwaitedFit
    <2>7. \E a \in awaited' : a.id = counter'
      BY <2>1, <2>2, <2>3
    <2>8. ResultsMatchRequest' /\ LoadingHidesError'
      BY <2>1, <2>7 DEF ResultsMatchRequest, LoadingHidesError
    <2> QED BY <2>5, <2>6, <2>8 DEF SearchInv
  <1>2. ASSUME ClearResults PROVE SearchInv'
    <2>1. /\ counter' = counter + 1 /\ counter + 1 \in 0..MaxSearches /\ controller' = 0
          /\ loading' = FALSE /\ results' = 0 /\ error' = 0 /\ UNCHANGED last
          /\ awaited' = Aborted
      BY <1>0, <1>2, SearchAssumption DEF ClearResults
    <2>2. /\ Aborted \subseteq [id : Searches, aborted : BOOLEAN]
          /\ \A a \in Aborted : a.id <= counter /\ a.id \in Nat
      BY <1>0, AbortedFits, SearchAssumption DEF Searches
    <2>3. SearchTypeOK'
      <3>1. 0 \in 0..MaxSearches /\ last' \in BOOLEAN
        BY <1>0, <2>1, SearchAssumption DEF SearchTypeOK
      <3>2. counter' \in 0..MaxSearches /\ awaited' \subseteq [id : Searches, aborted : BOOLEAN]
        BY <2>1, <2>2
      <3> QED BY <2>1, <3>1, <3>2 DEF SearchTypeOK
    <2>4. \A a \in awaited' : a.id < counter' /\ a.id \in Nat
      <3>1. counter \in Nat /\ counter' = counter + 1 /\ awaited' = Aborted
        BY <1>0, <2>1
      <3>2. ASSUME NEW a \in Aborted
            PROVE  a.id < counter + 1 /\ a.id \in Nat
        BY <2>2, <3>1
      <3> QED BY <3>1, <3>2
    <2>5. AwaitedFit'
      BY <1>0, <2>1, <2>4 DEF AwaitedFit
    <2>6. ~(\E a \in awaited' : a.id = counter')
      BY <1>0, <2>1, <2>4
    <2>7. ResultsMatchRequest' /\ LoadingHidesError'
      BY <2>1, <2>6 DEF ResultsMatchRequest, LoadingHidesError
    <2> QED BY <2>3, <2>5, <2>7 DEF SearchInv
  <1>3. ASSUME NEW a \in awaited, awaited' = awaited \ {a}, UNCHANGED <<counter, controller, last>>,
               loading' = IF IsStale(a) THEN loading ELSE FALSE,
               results' \in 0..MaxSearches, error' \in 0..MaxSearches,
               IsStale(a) => UNCHANGED <<results, error>>,
               ~IsStale(a) => results' \in {0, counter} /\ error' \in {0, counter}
                              /\ (results' = 0 \/ error' = 0)
        PROVE  SearchInv'
    <2>1. SearchTypeOK' /\ AwaitedFit'
      BY <1>0, <1>3 DEF SearchTypeOK, AwaitedFit
    <2>2. ASSUME NEW b \in awaited, b.id = counter, a.id = counter
          PROVE  b = a
      BY <1>0, <2>2 DEF SearchTypeOK, AwaitedFit
    <2>3. loading' <=> \E b \in awaited' : b.id = counter'
      BY <1>0, <1>3, <2>2 DEF IsStale, ResultsMatchRequest, SearchTypeOK
    <2>4. /\ ~loading' => results' \in {0, counter'} /\ error' \in {0, counter'}
          /\ results' = 0 \/ error' = 0
      BY <1>0, <1>3 DEF IsStale, ResultsMatchRequest
    <2>5. LoadingHidesError'
      BY <1>0, <1>3 DEF LoadingHidesError
    <2> QED BY <2>1, <2>3, <2>4, <2>5 DEF SearchInv, ResultsMatchRequest
  <1>4. ASSUME NEW a \in awaited
        PROVE  a.id \in 0..MaxSearches
    BY <1>0, <1>4, SearchAssumption DEF SearchTypeOK, Searches
  <1>5. ASSUME NEW a \in awaited, OnResults(a) PROVE SearchInv'
    <2>1. results' \in 0..MaxSearches /\ error' \in 0..MaxSearches
      BY <1>0, <1>4, <1>5 DEF OnResults, SearchTypeOK
    <2>2. ~IsStale(a) => error = 0
      BY <1>0, <1>5 DEF IsStale, ResultsMatchRequest, LoadingHidesError
    <2> QED BY <1>0, <1>3, <1>5, <2>1, <2>2 DEF OnResults, Outcome, IsStale
  <1>6. ASSUME NEW a \in awaited, OnError(a) PROVE SearchInv'
    <2>1. results' \in 0..MaxSearches /\ error' \in 0..MaxSearches
      BY <1>0, <1>4, <1>6, SearchAssumption DEF OnError, SearchTypeOK
    <2> QED BY <1>0, <1>3, <1>6, <2>1 DEF OnError, Outcome, IsStale
  <1>7. ASSUME NEW a \in awaited, OnAbort(a) PROVE SearchInv'
    <2>1. results' \in 0..MaxSearches /\ error' \in 0..MaxSearches /\ IsStale(a)
      BY <1>0, <1>7 DEF OnAbort, SearchTypeOK, AwaitedFit, IsStale
    <2> QED BY <1>3, <1>7, <2>1 DEF OnAbort, Outcome
  <1> QED BY <1>1, <1>2, <1>5, <1>6, <1>7 DEF SearchNext, Retry

LEMMA ForgetInv == ForgetSearch => SearchInv'
  <1>1. 0 \in 0..MaxSearches
    BY SearchAssumption
  <1>2. ForgetSearch => SearchTypeOK' /\ AwaitedFit' /\ LoadingHidesError'
    BY <1>1 DEF ForgetSearch, SearchTypeOK, AwaitedFit, LoadingHidesError
  <1>3. ForgetSearch => ResultsMatchRequest'
    BY DEF ForgetSearch, ResultsMatchRequest
  <1> QED BY <1>2, <1>3 DEF SearchInv
-----------------------------------------------------------------------------
Inv == BrowserInv /\ SearchInv

LEMMA StepInv ==
    ASSUME Inv, [Next]_<<browser, search>>
    PROVE  Inv'
  <1>0. BrowserInv /\ SearchInv
    BY DEF Inv
  <1>1. ASSUME UNCHANGED browser PROVE BrowserInv'
    BY <1>0, <1>1 DEF browser, BrowserInv, BrowserTypeOK, FlightFits, ShownUserIsCurrent,
          LatestInFlight, CookieUnfollowed
  <1>2. ASSUME UNCHANGED search PROVE SearchInv'
    BY <1>0, <1>2 DEF search, SearchInv, SearchTypeOK, AwaitedFit, LoadingHidesError, ResultsMatchRequest
  <1>3. CASE BrowserNext /\ UNCHANGED search
    BY <1>0, <1>2, <1>3, BrowserStepInv DEF Inv
  <1>4. CASE SearchNext /\ UNCHANGED browser
    BY <1>0, <1>1, <1>4, SearchStepInv DEF Inv
  <1>5. CASE \E r \in Requests : Reload(r) /\ ForgetSearch
    BY <1>0, <1>5, ReloadInv, ForgetInv DEF Inv
  <1>6. CASE UNCHANGED <<browser, search>>
    BY <1>1, <1>2, <1>6 DEF Inv
  <1> QED BY <1>3, <1>4, <1>5, <1>6 DEF Next

LEMMA AlwaysInv == Spec => []Inv
  <1>1. Init => Inv
    BY BrowserInitInv, SearchInitInv DEF Init, Inv
  <1> QED BY <1>1, StepInv, PTL DEF Spec

(* The cookie, the user and every request of the tab keep their types, and  *)
(* only issued sessions are live.                                           *)
THEOREM WebClientTypeCorrect == Spec => []WebClientTypeOK
  <1>1. Inv => WebClientTypeOK
    BY DEF Inv, BrowserInv, SearchInv, WebClientTypeOK
  <1> QED BY <1>1, AlwaysInv, PTL

(* However many requests race, no late answer shows a user other than the   *)
(* one whose session the cookie is, once the tab has followed the latest    *)
(* change of the cookie.                                                    *)
THEOREM ShownUserIsAlwaysCurrent == Spec => []ShownUserIsCurrent
  <1>1. Inv => ShownUserIsCurrent
    BY DEF Inv, BrowserInv
  <1> QED BY <1>1, AlwaysInv, PTL

(* However many searches are abandoned, what the tab shows once the         *)
(* indicator stops is the outcome of the latest one.                        *)
THEOREM ResultsAlwaysMatchRequest == Spec => []ResultsMatchRequest
  <1>1. Inv => ResultsMatchRequest
    BY DEF Inv, SearchInv
  <1> QED BY <1>1, AlwaysInv, PTL
=============================================================================
