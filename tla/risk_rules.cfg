SPECIFICATION FairRiskSpec
CONSTANTS
    c1 = c1
    c2 = c2
    r1 = r1
    RiskKey = RiskKey
    Webhook = Webhook
    Caller = {c1, c2}
    Key = {RiskKey}
    Rule = {r1}
    FlashLoan = {r1}
    u1 = u1
    u2 = u2
    Account = {u1, u2}
    Subject <- Events
    RuleTypes <- OwnTypes
    Channel = {Webhook}
    HasSender = {Webhook}
    Cooldown = 2
    MaxTime = 1
    MaxFaults = 1
PROPERTY RulesCaughtUp
INVARIANT HitsEnabled
