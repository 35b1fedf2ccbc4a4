\* One hidden message on a one-page mailbox, twelve calls of budget.
CONSTANTS
    m1 = m1  m2 = m2  m3 = m3
    donna = donna  sent = sent  NoLabel = NoLabel
    t1 = t1  t2 = t2  NoToken = NoToken  None = None
    Messages = {m1, m2, m3}
    Labels = {donna, sent}
    SentLabel = sent
    OwnerMessages <- MCOwnerMessages
    Tokens = {t1}
    BareTokens = {}
    UserQueries = {"newer_than:7d"}
    Limits = {0, 2}
    DefaultSearchLimit = 1
    MaxSearchResults = 3
    Mailboxes <- HidingMailboxes
    PolicyFiles <- LabelPolicy
    CallBudget = 12
    MaxChanges = 0
    MaxFailures = 0
    MaxLost = 0
SPECIFICATION Spec
INVARIANTS
    HealthySearchSucceeds
