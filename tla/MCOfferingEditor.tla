-------------------------- MODULE MCOfferingEditor --------------------------
(* One page, and one caller more for another tab or for what a page that is *)
(* gone had sent, over two offerings at most; an unfinished form and two    *)
(* complete ones differ.                                                    *)
EXTENDS OfferingEditor, Naturals, TLC

CONSTANT MaxUnderway   \* bound on the commands under way at once

FewUnderway == Cardinality({c \in Callers : call[c] # Idle}) <= MaxUnderway

(* Bound: a second offering, and a second publication of the profile, are   *)
(* followed only until the first sample or transition of an offering.       *)
SecondsAreEarly ==
    \/ evidence = {} /\ \A o \in OfferingIds : ~eligible[o]
    \/ (\E o \in OfferingIds : status[o] = "None") /\ Cardinality(publications) <= 1

KeySymmetry == Permutations(Keys) \cup Permutations(OfferingIds)
               \cup Permutations(PublicationKeys) \cup Permutations(Complete)
=============================================================================
