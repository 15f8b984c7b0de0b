SPECIFICATION ApiSpec
CONSTANTS
    c1 = c1
    c2 = c2
    i1 = i1
    a1 = a1
    None = None
    Conn = {c1, c2}
    Client = {i1}
    Address = {a1}
    Asked = {"healthz", "market_history", "list", "login", "positions", "build"}
    RequestsPerMinute = 1
    Minute = 2
    MaxMinutes = 2
    Expiration = 1
    TTL <- MCTTL
    WordLen = 3
    AddressLen = 2
    SelectorLen = 1
    Asset <- MCAsset
    Amount <- MCAmount
    Selector <- MCSelector
SYMMETRY ApiSymmetry
INVARIANT StaleAtMostTTL
INVARIANT CalldataFaithful
INVARIANT QuotaPerMinute
