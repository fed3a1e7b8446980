SPECIFICATION FairSpec
CONSTANTS
    LastDay = 4
    Horizon = 8
    Weekend = {2, 3}
    SettleDays = 1
    Txns <- Draws
    BatchSize = 2
    Windows = {1}
    MaxCalls = 1
    MaxCrashes = 1
    MaxRaises = 1
    MaxSets = 1
    MaxSlips = 2
    MaxMishaps = 2
INVARIANTS PaidOnce OncePerDay ChainUnbroken NothingStranded
PROPERTIES NeverEarly EverySaleSettles
