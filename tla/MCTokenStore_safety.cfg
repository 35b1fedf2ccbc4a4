\* Two requests, two logins, one failed save or crash.
CONSTANTS
    r1 = r1  r2 = r2  l1 = l1  l2 = l2
    first = first  blank = blank  None = None
    Requests = {r1, r2}
    Logins = {l1, l2}
    FirstGrant = first
    Blank = blank
    Accounts = {"owner", "other"}
    Owner = "owner"
    MaxIssued = 3
    MaxFailures = 1
\* Every token that may be issued was, and requests and logins are over.
CHECK_DEADLOCK FALSE
SPECIFICATION Spec
INVARIANTS
    RotationDoesNotStrand
    OnlyTheOwnersTokenIsStored
    QuietLoginStaysStored
