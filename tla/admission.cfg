SPECIFICATION Spec
CONSTANTS
    Requests = {r1, r2, r3}
    Nobody = Nobody
    Workers = {w1, w2}
    Users = {u1}
    NoUser = NoUser
    Ips = {i1}
    Keys = {k1}
    NoKey = NoKey
    Bodies = {b1, b2}
    DayLimit = 1
    MonthLimit = 2
    MaxActive = 1
    Days = 2
SYMMETRY Symmetry
INVARIANTS DuplicatesShareJob JobIsAsAsked KeyedWithinQuota KeyedWithinCapacity
PROPERTIES RetryNeverBlocked ImplementsLifecycle
CHECK_DEADLOCK FALSE
