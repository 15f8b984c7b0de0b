SPECIFICATION RateSpec
CONSTANTS
    WAD = 6
    Factor = 10
    SECONDS_PER_YEAR = 4
    Market = {1, 2}
    Tracked = {1}
    BaseRate = 2
    Slope1 = 8
    Slope2 = 45
    OptimalUtilization = 36
    InitialSupply = 6
    InitialBorrow = 2
    Delta <- MCDelta
    MaxTime = 3
    MaxEvents = 2
    Balance = {11}
    PriceUSD <- MCPriceUSD
    DecimalsFactor <- MCDecimalsFactor
    LiquidationThreshold <- MCLiquidationThreshold
CHECK_DEADLOCK FALSE
INVARIANT ReplicatesPrefix
INVARIANT RateRisesWithUse
PROPERTY AccrualBounded
INVARIANT HealthMonotone
INVARIANT RoundingFair
INVARIANT CompoundedMatchesPower
