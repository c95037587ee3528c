SPECIFICATION Spec
CONSTANTS
    r1 = r1  r2 = r2  p1 = p1  p2 = p2
    Runs <- MCRuns
    Profiles <- MCProfiles
    Drafts <- MCDrafts
    NoProfile = NoProfile
    NoDraft = NoDraft
    MaxFaults = 1
INVARIANT PartialResumable
CHECK_DEADLOCK FALSE
