----------------------------- MODULE WebClient ------------------------------
(* One browser tab: the session it shows and the search it runs, each with  *)
(* requests in flight, take their steps in any order.                       *)
EXTENDS BrowserSession, SearchHook

WebClientTypeOK == BrowserTypeOK /\ SearchTypeOK

Init == BrowserInit /\ SearchInit

(* Loading the page anew also forgets the search.                           *)
ForgetSearch ==
    /\ counter' = 0 /\ controller' = 0 /\ last' = FALSE /\ loading' = FALSE
    /\ results' = 0 /\ error' = 0 /\ awaited' = {}

Next ==
    \/ BrowserNext /\ UNCHANGED search
    \/ SearchNext /\ UNCHANGED browser
    \/ \E r \in Requests : Reload(r) /\ ForgetSearch

Spec == Init /\ [][Next]_<<browser, search>>
=============================================================================
