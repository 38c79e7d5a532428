----------------------------- MODULE MCFunding -----------------------------
(* One deal, versions of its terms at two prices, and fundDeal calls of the *)
(* buyer that run at once or retry one another, while a draftTerms call is  *)
(* in flight and the buyer's capability comes and goes.                     *)
EXTENDS Funding, TLC

CONSTANTS b1, s1, wb, ws, os, br1, r1

MCUsers      == {b1, s1}
MCWorkspaces == {wb, ws}
MCOfferings  == {os}
MCBriefs     == {br1}
MCRequests   == {r1}
MCPrices     == {100, 250}
MCCandidates == MCPrices \cup {0}   \* 0 stands for one that does not validate

MCBriefOf       == (r1 :> br1)
MCOfferingOf    == (r1 :> os)
MCBriefOwner    == (br1 :> wb)
MCOfferingOwner == (os :> ws)
MCSurfaced      == (br1 :> {os})
MCCallUser      == [c \in Calls |-> b1]
MCCallWorkspace == [c \in Calls |-> wb]
MCCallDeal      == [c \in Calls |-> r1]

MCInitialAuthority ==
    {WorkspaceActive(w) : w \in MCWorkspaces}
        \cup {Membership(b1, wb), Membership(s1, ws)}
        \cup {DealApprover(b1, wb), DealApprover(s1, ws)}
        \cup {Capability(wb, "Buyer"), Capability(ws, "Seller")}
        \cup {ProfilePublished(ws), OfferingActive(os)}

MCRevocable == {Capability(wb, "Buyer")}
CallSymmetry == Permutations(Calls)
=============================================================================
