\* A client with a deadline and one that waits for ever, one call each.
CONSTANTS
    cli = cli  other = other  stranger = stranger
    Clients = {cli, other}
    Authorized = {cli, other}
    Slow = {other}
    Requests = {"read", "draft", "bad"}
    MaxCalls <- OneCall
    Patience <- OwnPatience
    ReadTimeout = 2
    WriteTimeout = 2
    DispatchTimeout = 4
    MaxRestarts = 1
\* Every call of the bounded number returned, and the daemon is down.
CHECK_DEADLOCK FALSE
SPECIFICATION FairSpec
PROPERTIES
    HandlersEnd
    EveryCallReturns
