----------------------------- MODULE SearchHook -----------------------------
(* The talent search of a browser tab (useSearch.ts).  A search is known by *)
(* the number requestIdRef gave it; a new one aborts the one before, whose  *)
(* answer may be on its way all the same.                                   *)
EXTENDS Naturals

CONSTANT MaxSearches
ASSUME SearchAssumption == MaxSearches \in Nat \ {0}

VARIABLES
    counter,     \* requestIdRef
    controller,  \* abortControllerRef: the search that may still be aborted, or 0
    last,        \* lastRequestRef: whether there is something to retry
    loading,     \* isLoading
    results,     \* the search whose results are rendered, or 0
    error,       \* the search whose error is rendered, or 0
    awaited      \* the searches without an outcome, and whether they were aborted

search == <<counter, controller, last, loading, results, error, awaited>>

Searches == 1..MaxSearches

SearchTypeOK ==
    /\ counter \in 0..MaxSearches /\ controller \in 0..MaxSearches
    /\ last \in BOOLEAN /\ loading \in BOOLEAN
    /\ results \in 0..MaxSearches /\ error \in 0..MaxSearches
    /\ awaited \subseteq [id : Searches, aborted : BOOLEAN]

SearchInit ==
    /\ counter = 0 /\ controller = 0 /\ last = FALSE /\ loading = FALSE
    /\ results = 0 /\ error = 0 /\ awaited = {}

Aborted == {[a EXCEPT !.aborted = @ \/ a.id = controller] : a \in awaited}

(* The results of the search before stay until the new outcome.             *)
Search ==
    /\ counter < MaxSearches
    /\ counter' = counter + 1 /\ controller' = counter'
    /\ last' = TRUE /\ loading' = TRUE /\ error' = 0
    /\ awaited' = Aborted \cup {[id |-> counter', aborted |-> FALSE]}
    /\ UNCHANGED results

Retry == last /\ Search

ClearResults ==
    /\ counter < MaxSearches
    /\ counter' = counter + 1 /\ controller' = 0
    /\ loading' = FALSE /\ results' = 0 /\ error' = 0
    /\ awaited' = Aborted
    /\ UNCHANGED last

(* Mutation: aborting the search before is taken to be enough.              *)
NeverStale(a) == FALSE

IsStale(a) == a.id # counter

(* dispatchSearch: the results, an error of the server, of the network or   *)
(* of the shape of the answer, or the silence of an aborted fetch.          *)
Outcome(a) ==
    /\ awaited' = awaited \ {a}
    /\ loading' = IF IsStale(a) THEN loading ELSE FALSE
    /\ UNCHANGED <<counter, controller, last>>

OnResults(a) ==
    /\ a \in awaited
    /\ results' = IF IsStale(a) THEN results ELSE a.id
    /\ UNCHANGED error
    /\ Outcome(a)

OnError(a) ==
    /\ a \in awaited
    /\ IF IsStale(a) THEN UNCHANGED <<results, error>> ELSE results' = 0 /\ error' = a.id
    /\ Outcome(a)

OnAbort(a) ==
    /\ a \in awaited /\ a.aborted
    /\ UNCHANGED <<results, error>>
    /\ Outcome(a)

SearchNext ==
    \/ Search \/ Retry \/ ClearResults
    \/ \E a \in awaited : OnResults(a) \/ OnError(a) \/ OnAbort(a)
-----------------------------------------------------------------------------
(* The indicator turns exactly while the latest search has no outcome, and  *)
(* once it stops the tab shows what that search came to, one of results and *)
(* error, or nothing: no answer to an earlier search.                       *)
ResultsMatchRequest ==
    /\ loading <=> \E a \in awaited : a.id = counter
    /\ ~loading => results \in {0, counter} /\ error \in {0, counter}
    /\ results = 0 \/ error = 0
=============================================================================
