SPECIFICATION Spec
CONSTANTS
    Accounts = {a1, a2}
    Emails = {e1, e2}
    Links = {}
    Workers = {w1, w2}
    NoAccount = NoAccount
    MaxVersion = 1
    MaxHeld = 1
    Limits = {x, y}
    MaxLog = 4
SYMMETRY Symmetry
INVARIANT LogMatchesFlags
INVARIANT PlanHistoryConnected
INVARIANT AdminRemains
PROPERTY LogIsKept
CHECK_DEADLOCK FALSE
