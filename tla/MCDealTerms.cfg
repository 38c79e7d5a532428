SPECIFICATION TermsSpec
CONSTANTS
    b1 = b1  b2 = b2  s1 = s1  wb = wb  ws = ws  ob = ob  os = os
    br1 = br1  r1 = r1  r2 = r2
    NoOne = NoOne  NoDraft = NoDraft
    MaxVersions = 2
    Users <- MCUsers
    Workspaces <- MCWorkspaces
    Offerings <- MCOfferings
    Briefs <- MCBriefs
    Requests <- MCRequests
    BriefOf <- MCBriefOf
    OfferingOf <- MCOfferingOf
    BriefOwner <- MCBriefOwner
    OfferingOwner <- MCOfferingOwner
    Surfaced <- MCSurfaced
    InitialAuthority <- MCInitialAuthority
    Revocable <- MCRevocable
    Prices <- MCPrices
    Candidates <- MCCandidates
    Drafters = {d1, d2}
SYMMETRY DraftSymmetry
INVARIANTS
    TermsTypeOK
    ApprovalsAreEvidence
PROPERTIES
    SupersededApprovalsFrozen
    TermsAppendedWithAuthority
