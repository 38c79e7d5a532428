----------------------------- MODULE Authority -----------------------------
(* The rows that decide who may act: workspaces.status,                    *)
(* workspace_memberships, workspace_capabilities, deal_approvers, and the  *)
(* two catalogue statuses a ProjectRequest depends on (SellerProfile        *)
(* Published, ServiceOffering Active).  Every transaction of the deal       *)
(* services locks the rows it needs and reads them inside the transaction,  *)
(* so the rows are one set of facts that other parts of the system, and     *)
(* operators of the marketplace, add to and take from between two steps.    *)
EXTENDS Integers, FiniteSets

CONSTANTS
    Users,             \* UserAccount ids
    Workspaces,        \* Workspace ids
    Offerings,         \* ServiceOffering ids
    InitialAuthority,  \* the facts that hold at the start
    Revocable          \* the facts that may be withdrawn and restored

VARIABLE authority     \* the facts that hold now

WorkspaceActive(w)    == <<"active", w>>
Membership(u, w)      == <<"member", u, w>>
Capability(w, c)      == <<"capability", w, c>>
DealApprover(u, w)    == <<"approver", u, w>>
ProfilePublished(w)   == <<"published", w>>
OfferingActive(o)     == <<"offered", o>>

Facts ==
    {WorkspaceActive(w) : w \in Workspaces}
        \cup {Membership(u, w) : u \in Users, w \in Workspaces}
        \cup {Capability(w, c) : w \in Workspaces, c \in {"Buyer", "Seller"}}
        \cup {DealApprover(u, w) : u \in Users, w \in Workspaces}
        \cup {ProfilePublished(w) : w \in Workspaces}
        \cup {OfferingActive(o) : o \in Offerings}

ASSUME AuthorityAssumption ==
    /\ InitialAuthority \subseteq Facts
    /\ Revocable \subseteq Facts

Holds(fact) == fact \in authority

(* A user acts for a workspace: the workspace is Active and a membership    *)
(* row exists.                                                              *)
ActsFor(u, w) == Holds(WorkspaceActive(w)) /\ Holds(Membership(u, w))

AuthorityInit == authority = InitialAuthority

(* Suspension, loss of a membership, capability or approver row, a paused   *)
(* offering: nothing in the deal services causes or prevents them.          *)
Withdraw(fact) == Holds(fact) /\ authority' = authority \ {fact}
Restore(fact)  == ~Holds(fact) /\ authority' = authority \cup {fact}

AuthorityNext == \E fact \in Revocable : Withdraw(fact) \/ Restore(fact)
=============================================================================
