\* Two threads of two messages, two changes, a failure and a lost answer.
CONSTANTS
    a1 = a1  a2 = a2  b1 = b1  b2 = b2  ta = ta  tb = tb
    donna = donna  sent = sent  NoLabel = NoLabel
    p1 = p1  NoToken = NoToken  None = None  Malformed = Malformed
    Messages = {a1, a2, b1, b2}
    Threads = {ta, tb}
    Labels = {donna, sent}
    SentLabel = sent
    OwnerMessages <- MCOwnerMessages
    Addresses = {"owner", "alice", "bob", "carol"}
    Owner <- MCOwner
    MessageIDs = {}
    NoID = NoID
    ThreadOf <- MCThreadOf
    MessageOrder <- MCMessageOrder
    Headers <- MCHeaders
    InternalDate <- MCInternalDate
    Tokens = {p1}
    BareTokens = {}
    UserQueries = {"newer_than:7d"}
    Limits = {0, 2}
    DefaultSearchLimit = 1
    MaxSearchResults = 3
    PolicyFiles <- MCPolicyFiles
    MailStates <- MCMailStates
    CallBudget = 6
    MaxChanges = 2
    MaxFailures = 1
    MaxLost = 1
SPECIFICATION Spec
INVARIANTS
    SummariesAreOneView
    ReplyAnswersWhatIsListed
    ThreadFeedIsComplete
PROPERTIES
    LoopSpec
