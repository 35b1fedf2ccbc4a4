\* A mailbox in which nothing is hidden, followed to its end.
CONSTANTS
    m1 = m1  m2 = m2  m3 = m3
    donna = donna  sent = sent  NoLabel = NoLabel
    t1 = t1  t2 = t2  NoToken = NoToken  None = None
    Messages = {m1, m2, m3}
    Labels = {donna, sent}
    SentLabel = sent
    OwnerMessages <- MCOwnerMessages
    Tokens = {t1, t2}
    BareTokens = {}
    UserQueries = {"newer_than:7d"}
    Limits = {0, 2}
    DefaultSearchLimit = 1
    MaxSearchResults = 2
    Mailboxes <- SoundMailboxes
    PolicyFiles <- LabelPolicy
    CallBudget = 19
    MaxChanges = 1
    MaxFailures = 1
    MaxLost = 1
\* A client that reached the end of its feed asks for nothing more.
CHECK_DEADLOCK FALSE
SPECIFICATION FollowSpec
INVARIANTS
    FeedIsComplete
    HealthySearchSucceeds
PROPERTIES
    FeedEnds
