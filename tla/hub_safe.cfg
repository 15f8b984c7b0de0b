SPECIFICATION HubSpec
CONSTANTS
    c1 = c1
    c2 = c2
    t1 = t1
    u = u
    Client = {c1, c2}
    Topic = {t1}
    User = {u}
    Anon = Anon
    NoClient = NoClient
    SendCap = 1
    QueueCap = 1
SYMMETRY ClientSymmetry
INVARIANT IndexedRegistered
INVARIANT ClosedIffRemoved
INVARIANT SubscriptionsAgree
CHECK_DEADLOCK FALSE
