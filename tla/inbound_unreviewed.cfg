SPECIFICATION MCSpec
CONSTANTS
    s1 = s1  s2 = s2  s3 = s3  c1 = c1  c2 = c2  e1 = e1  d1 = d1  d2 = d2  x1 = x1  x2 = x2
    Slots <- MCSlots  Scopes <- MCScopes  Requests <- MCRequests  ReceiptId <- MCReceiptId
    NoRequest = NoRequest  NoEvent = NoEvent
    Limit = 3  Window = 2  IdleTTL = 2  MapMax = 1  MaxTime = 4  MaxErrors = 1
    Executions <- MCExecutions  Bodies <- MCBodies  Scenarios <- MCScenarios
    MaxAttempts = 3  MaxLost = 1
    u1 = u1  u2 = u2  k1 = k1  k2 = k2  a1 = a1  a2 = a2
    Upserts <- MCUpserts  Contacts <- MCContacts  NoContact = NoContact  NoUpsert = NoUpsert
    Versions = {1, 2}  MaxRows = 2  MaxHistory = 2  MaxNotes = 3
    Letters <- MCLetters  Redrivers <- MCRedrivers  NoRedriver = NoRedriver
    Referenced <- MCReferenced  Tainted = {1}  DlqCap = 3  Tries = {1, 3}
    PageSize = 1  MaxDied = 3
INVARIANTS OnlyAuthoritative
CHECK_DEADLOCK FALSE
