SPECIFICATION Spec
CONSTANTS
    Accounts = {a1, a2}
    Emails = {e1, e2}
    Links = {l1, l2, l3}
    Workers = {w1, w2}
    NoAccount = NoAccount
    MaxVersion = 3
    MaxHeld = 1
    Limits = {x}
    MaxLog = 0
SYMMETRY Symmetry
INVARIANT OneValidLink
INVARIANT LinkHonouredOnce
INVARIANT ResetEndsSessions
INVARIANT OpenLinkWasMailed
PROPERTY LinkLostToSuccessor
CHECK_DEADLOCK FALSE
