------------------------- MODULE MCProjectRequests -------------------------
(* Two briefs of one buyer over one offering of the seller and one of the   *)
(* buyer's own (a workspace with both capabilities may select itself), two  *)
(* requests that name the same selection, and two seller members who race   *)
(* to decide.  Every fact about the seller's offering and the second seller *)
(* member may come and go.                                                  *)
EXTENDS ProjectRequests, TLC

CONSTANTS b1, s1, s2, wb, ws, ob, os, br1, br2, r1, r2, r3

MCUsers      == {b1, s1, s2}
MCWorkspaces == {wb, ws}
MCOfferings  == {ob, os}
MCBriefs     == {br1, br2}
MCRequests   == {r1, r2, r3}

MCBriefOf       == (r1 :> br1) @@ (r2 :> br1) @@ (r3 :> br2)
MCOfferingOf    == (r1 :> os) @@ (r2 :> os) @@ (r3 :> ob)
MCBriefOwner    == [b \in MCBriefs |-> wb]
MCOfferingOwner == (ob :> wb) @@ (os :> ws)
MCSurfaced      == (br1 :> {os}) @@ (br2 :> {os, ob})

MCInitialAuthority ==
    {WorkspaceActive(w) : w \in MCWorkspaces}
        \cup {Membership(b1, wb), Membership(s1, ws), Membership(s2, ws)}
        \cup {Capability(wb, "Buyer"), Capability(wb, "Seller"), Capability(ws, "Seller")}
        \cup {ProfilePublished(w) : w \in MCWorkspaces}
        \cup {OfferingActive(o) : o \in MCOfferings}

MCRevocable ==
    {Membership(s2, ws), WorkspaceActive(ws), ProfilePublished(ws), OfferingActive(os),
     Capability(wb, "Buyer"), Capability(ws, "Seller")}
=============================================================================
