\* The command line twice, a stranger once, one restart.
CONSTANTS
    cli = cli  other = other  stranger = stranger
    Clients = {cli, stranger}
    Authorized = {cli}
    Slow = {stranger}
    Requests = {"read", "draft", "bad"}
    MaxCalls <- CliAndStranger
    Patience <- OwnPatience
    ReadTimeout = 2
    WriteTimeout = 2
    DispatchTimeout = 4
    MaxRestarts = 1
\* Every call of the bounded number returned, and the daemon is down.
CHECK_DEADLOCK FALSE
SPECIFICATION Spec
INVARIANTS
    TypeOK
    RefusedMeansNoDraft
    BrokerOutlastsItsClient
    AbandonedWorkIsBounded
