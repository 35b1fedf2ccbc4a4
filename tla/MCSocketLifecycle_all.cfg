\* Three runs, two of which may be started by hand, and two failures.
CONSTANTS
    first = first  second = second  third = third
    nobody = nobody
    Runs = {first, second, third}
    Nobody = nobody
    MaxManual = 2
    MaxFailures = 2
\* Every run is over.
CHECK_DEADLOCK FALSE
SPECIFICATION FairSpec
INVARIANTS
    ServingIsReachable
    OneIsReachable
    OnlyTheKilledLeaveSockets
PROPERTIES
    ServiceComesBack
