SPECIFICATION Spec
CONSTANTS
    b1 = b1  s1 = s1  wb = wb  ws = ws  os = os  br1 = br1  r1 = r1
    NoOne = NoOne  NoDraft = NoDraft  NoAmount = NoAmount
    MaxVersions = 2
    Users <- MCUsers
    Workspaces <- MCWorkspaces
    Offerings <- MCOfferings
    Briefs <- MCBriefs
    Requests <- MCRequests
    BriefOf <- MCBriefOf
    OfferingOf <- MCOfferingOf
    BriefOwner <- MCBriefOwner
    OfferingOwner <- MCOfferingOwner
    Surfaced <- MCSurfaced
    InitialAuthority <- MCInitialAuthority
    Revocable = {}
    Prices = {100}
    Candidates = {100, 0}
    Drafters = {d1}
    Calls = {f1, f2}
    CallUser <- MCCallUser
    CallWorkspace <- MCCallWorkspace
    CallDeal <- MCCallDeal
SYMMETRY CallSymmetry
PROPERTIES
    FundingRequestedForCurrentTerms
CHECK_DEADLOCK FALSE
