SPECIFICATION FairSpec
CONSTANTS
    Prices <- MCPrices
    Quantities <- MCQuantities
    CertPrice = 3
    CertOrders = 3
    CertPasses = 2
    Duration = 3
    Slots = 2
    Timeout = 3
    MaxDisturbed = 1
INVARIANTS TypeOK CertifiedInFull MatchesByPriority HonestIsCorrect EndsSoon
PROPERTY BotEnds
CHECK_DEADLOCK FALSE
