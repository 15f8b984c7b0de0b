SPECIFICATION FairHubSpec
CONSTANTS
    c1 = c1
    t1 = t1
    u = u
    Client = {c1}
    Topic = {t1}
    User = {u}
    Anon = Anon
    NoClient = NoClient
    SendCap = 1
    QueueCap = 1
PROPERTY SlowClientDropped
PROPERTY Teardown
CHECK_DEADLOCK FALSE
