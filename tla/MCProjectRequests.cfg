SPECIFICATION RequestsSpec
CONSTANTS
    b1 = b1  s1 = s1  s2 = s2  wb = wb  ws = ws  ob = ob  os = os
    br1 = br1  br2 = br2  r1 = r1  r2 = r2  r3 = r3
    NoOne = NoOne
    Users <- MCUsers
    Workspaces <- MCWorkspaces
    Offerings <- MCOfferings
    Briefs <- MCBriefs
    Requests <- MCRequests
    BriefOf <- MCBriefOf
    OfferingOf <- MCOfferingOf
    BriefOwner <- MCBriefOwner
    OfferingOwner <- MCOfferingOwner
    Surfaced <- MCSurfaced
    InitialAuthority <- MCInitialAuthority
    Revocable <- MCRevocable
INVARIANTS
    RequestsTypeOK
    DealIffConsent
    OnePendingPerSelection
PROPERTIES
    DecisionIsFinal
    DealOpenedBySeller
