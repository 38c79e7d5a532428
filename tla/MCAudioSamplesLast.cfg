SPECIFICATION SamplesSpec
CONSTANTS
    Uploads = {u1, u2}
    Stored = {s1, g1}
    Unconfirmed = {g1}
    Removals = {d1, d2}
    Listings = {l1}
    MaxSamples = 3
    NoSample = NoSample
    MaxBegun = 3
CONSTRAINT FewCalls
SYMMETRY CallSymmetry
INVARIANTS
    ActiveHasQualifyingSample
CHECK_DEADLOCK FALSE
