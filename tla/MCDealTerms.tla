---------------------------- MODULE MCDealTerms ----------------------------
(* A deal between two workspaces, and a deal of the buyer's workspace with  *)
(* itself; two buyer approvers who race, two draftTerms calls in flight at  *)
(* once, and a drafter whose membership comes and goes.                     *)
EXTENDS DealTerms, TLC

CONSTANTS b1, b2, s1, wb, ws, ob, os, br1, r1, r2

MCUsers      == {b1, b2, s1}
MCWorkspaces == {wb, ws}
MCOfferings  == {ob, os}
MCBriefs     == {br1}
MCRequests   == {r1, r2}
MCPrices     == {100}
MCCandidates == MCPrices \cup {0}   \* 0 stands for one that does not validate

MCBriefOf       == [r \in MCRequests |-> br1]
MCOfferingOf    == (r1 :> os) @@ (r2 :> ob)
MCBriefOwner    == (br1 :> wb)
MCOfferingOwner == (os :> ws) @@ (ob :> wb)
MCSurfaced      == (br1 :> {os, ob})

MCInitialAuthority ==
    {WorkspaceActive(w) : w \in MCWorkspaces}
        \cup {Membership(b1, wb), Membership(b2, wb), Membership(s1, ws)}
        \cup {DealApprover(b1, wb), DealApprover(b2, wb), DealApprover(s1, ws)}
        \cup {Capability(wb, "Buyer"), Capability(wb, "Seller"), Capability(ws, "Seller")}
        \cup {ProfilePublished(wb), ProfilePublished(ws)}
        \cup {OfferingActive(o) : o \in MCOfferings}

MCRevocable == {Membership(b2, wb)}
DraftSymmetry == Permutations(Drafters)
=============================================================================
