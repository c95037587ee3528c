SPECIFICATION Spec
CONSTANTS
    i1 = i1  i2 = i2  d1 = d1  d2 = d2  q1 = q1  q2 = q2  t1 = t1  t2 = t2  t3 = t3
    Intents = {i1}
    Dispatchers = {d1, d2}
    Requests = {q1}
    Tokens = {t1, t2, t3}
    NoIntent = NoIntent
    NoToken = NoToken
    LeaseTicks = 1
    News = {"sent", "DELIVERED", "SUPPRESSED", "UNKNOWN", "CONFIRMED"}
    MaxFaults = 2
SYMMETRY Symmetry
INVARIANTS
    NoAutoDelivered
CHECK_DEADLOCK FALSE
