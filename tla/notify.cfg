SPECIFICATION NotificationSpec
CONSTANTS
    c1 = c1
    c2 = c2
    k1 = k1
    s1 = s1
    webhook = webhook
    email = email
    Caller = {c1, c2}
    Key = {k1}
    Subject = {s1}
    Channel = {webhook, email}
    HasSender = {webhook}
    Cooldown = 2
    MaxTime = 5
    MaxFaults = 1
SYMMETRY CallerSymmetry
INVARIANT PersistFirst
INVARIANT SpacedPerCaller
INVARIANT CooldownEarned
