SPECIFICATION FairOracleSpec
CONSTANTS
    f1 = f1
    f2 = f2
    None = None
    Feed <- MCFeed
    Answer <- MCAnswer
    Word = 8
    HeartbeatSec <- MCHeartbeatSec
    DeviationPct <- MCDeviationPct
    DefaultTTL = 2
    MaxAge <- MCMaxAge
    Reliable = {f1}
INVARIANT OracleTypeOK
PROPERTY JumpAlerted
PROPERTY DownstreamConverges
PROPERTY StaleFeedAlerted
