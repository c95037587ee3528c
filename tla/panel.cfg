SPECIFICATION MCSpec
CONSTANTS
  ScreenPools = {"p1", "p2"} FirstPool = "p1" MaxEdits = 1
  Typeable = {"profile-demo-001", "profile-intake"} FirstTyped = "profile-demo-001" MaxCalls = 2
    r1 = r1  r2 = r2  r3 = r3  e1 = e1  s1 = s1  s2 = s2  q1 = q1  q2 = q2  d1 = d1  d2 = d2  v1 = v1  k1 = k1  b1 = b1  i1 = i1  i2 = i2
    Entries = {e1}  Reviewers = {r1, r2, r3}  DraftDigests = {d1, d2}  Canonicals = {"c1"}
    OrgOf <- MCOrgOf  MaxVersion = 3
    Fixtures <- MCFixtures  Nobody = Nobody
    Slots = {s1, s2}  Correlations = {k1}  Managers = {"supervisor"}  Idle = Idle
    Staff = {"intake", "talent"}  Profiles = {"profile-intake"}  Proposals = {"conflict", "stale"}
    Batches = {b1}  Items = {i1, i2}  Digests = {"", "d1"}
    Clients = {"supervisor", "intake"}  MaxWrites = 3  MaxSeconds = 3
    Users = {"intake"}  Callers = {"supervisor"}  Submitters = {"intake", "supervisor"}
    Revisions = {v1}  DraftData = {d1, d2}  StrongDrafts = {d1}  Requests = {q1, q2}
    Contacts <- MCContacts  Requesters = {"intake", "talent"}  Operators = {"intake"}
    Reasons = {"CANDIDATE_REQUEST", "PRIVACY"}  MaxResets = 1
    Rows <- MCRows  Filters <- MCFilters  Starts <- MCStarts  Manager = FALSE
    Everyone = Everyone  MaxFetches = 2
INVARIANTS ReviewInv SimulatorInv AssistantPanelInv ConfigInv PanelInv DncInv DashboardInv
CHECK_DEADLOCK FALSE
