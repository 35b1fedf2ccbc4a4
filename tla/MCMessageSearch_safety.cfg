\* One mailbox change, policy edit, failure or lost answer of each kind.
CONSTANTS
    m1 = m1  m2 = m2  m3 = m3
    donna = donna  sent = sent  NoLabel = NoLabel
    t1 = t1  t2 = t2  NoToken = NoToken  None = None
    Messages = {m1, m2, m3}
    Labels = {donna, sent}
    SentLabel = sent
    OwnerMessages <- MCOwnerMessages
    Tokens = {t1}
    BareTokens = {t1}
    UserQueries = {"newer_than:7d"}
    Limits = {0, 2}
    DefaultSearchLimit = 1
    MaxSearchResults = 3
    Mailboxes <- ChangingMailboxes
    PolicyFiles <- EditedPolicies
    CallBudget = 7
    MaxChanges = 2
    MaxFailures = 1
    MaxLost = 1
SPECIFICATION FairSpec
INVARIANTS
    TypeOK
    CursorMatchesFeed
    FeedHasNoDuplicates
    OnePolicyPerFeed
    OnlyAllowedAreAnswered
PROPERTIES
    FeedSpec
    EveryRequestIsAnswered
