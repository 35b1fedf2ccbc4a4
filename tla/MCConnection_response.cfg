\* A client that waits as long as it takes, and writes and reads at once.
CONSTANTS
    cli = cli  other = other  stranger = stranger
    Clients = {other}
    Authorized = {other}
    Slow = {}
    Requests = {"read", "draft", "bad"}
    MaxCalls <- OneCall
    Patience <- OwnPatience
    ReadTimeout = 2
    WriteTimeout = 2
    DispatchTimeout = 4
    MaxRestarts = 0
\* Every call of the bounded number returned, and the daemon is down.
CHECK_DEADLOCK FALSE
SPECIFICATION Spec
INVARIANTS
    ExactlyOneResponse
