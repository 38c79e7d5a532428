--------------------------- MODULE MCDealListing ---------------------------
(* The instance of MCFunding with a member of the seller's workspace, whose *)
(* membership comes and goes, who lists its deals again and again.          *)
EXTENDS DealListing, MCFunding

MCListingRevocable == MCRevocable \cup {Membership(s1, ws)}
=============================================================================
