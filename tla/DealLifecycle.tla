--------------------------- MODULE DealLifecycle ---------------------------
(* What a Deal promises its two parties, without rows, transactions, calls  *)
(* or providers: it opens, terms replace one another, each replacement      *)
(* discards the agreement to the terms before it, and the deal becomes      *)
(* active, once, only on terms that both parties have agreed to and that    *)
(* are funded in the same moment.                                           *)
EXTENDS Naturals

CONSTANTS Deals, Sides     \* Sides: who has to agree, the buyer and the seller

VARIABLES
    stage,    \* [Deals -> {"none", "negotiating", "active"}]
    offer,    \* [Deals -> Nat], the number of the terms on the table
    agreed,   \* [Deals -> SUBSET Sides], who agreed to those terms
    funded    \* [Deals -> Nat], the terms that are funded, 0 for none

lifecycleVars == <<stage, offer, agreed, funded>>

LifecycleInit ==
    /\ stage = [d \in Deals |-> "none"]
    /\ offer = [d \in Deals |-> 0]
    /\ agreed = [d \in Deals |-> {}]
    /\ funded = [d \in Deals |-> 0]

Open(d) ==
    /\ stage[d] = "none"
    /\ stage' = [stage EXCEPT ![d] = "negotiating"]
    /\ UNCHANGED <<offer, agreed, funded>>

Propose(d) ==
    /\ stage[d] = "negotiating"
    /\ offer' = [offer EXCEPT ![d] = @ + 1]
    /\ agreed' = [agreed EXCEPT ![d] = {}]
    /\ UNCHANGED <<stage, funded>>

Agree(d, side) ==
    /\ stage[d] = "negotiating" /\ offer[d] > 0
    /\ agreed' = [agreed EXCEPT ![d] = @ \cup {side}]
    /\ UNCHANGED <<stage, offer, funded>>

FundAndActivate(d) ==
    /\ stage[d] = "negotiating" /\ offer[d] > 0
    /\ agreed[d] = Sides
    /\ stage' = [stage EXCEPT ![d] = "active"]
    /\ funded' = [funded EXCEPT ![d] = offer[d]]
    /\ UNCHANGED <<offer, agreed>>

LifecycleNext ==
    \E d \in Deals :
        \/ Open(d) \/ Propose(d) \/ FundAndActivate(d)
        \/ \E side \in Sides : Agree(d, side)

LifecycleSpec == LifecycleInit /\ [][LifecycleNext]_lifecycleVars
=============================================================================
