SPECIFICATION FairSpec
CONSTANTS
    r1 = r1  i1 = i1  w1 = w1  s1 = s1  s2 = s2
    Receipts <- MCReceipts
    Intents <- MCIntents
    Workers <- MCWorkers
    Timers <- MCTimers
    Requests <- MCRequests
    NoItem = NoItem
    Nobody = Nobody
    MaxFaults = 2
INVARIANT RecoveryInv
PROPERTIES LiveLeaseKept KeepsQueue FirstRecovery EntryClosed
