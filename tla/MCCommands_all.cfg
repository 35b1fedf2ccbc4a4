\* Two commands side by side, a keyring that may be stuck from the start and once more.
CONSTANTS
    p1 = p1  p2 = p2  path = path  NoPath = NoPath  Nothing = Nothing
    Processes = {p1, p2}
    Openers = {p1, p2}
    Paths = {path}
    Invocations <- MCInvocations
    StoreConfigs <- MCStoreConfigs
    MaxStalls = 1
\* Both commands are over.
CHECK_DEADLOCK FALSE
SPECIFICATION FairSpec
INVARIANTS
    TargetIsWhole
    TempsAreRemoved
    StatusIsTruthful
PROPERTIES
    EveryCommandExits
    EveryOpenReturns
    LeftoversEnd
