\* Requests of every kind, two drafts, two changes and a failure in between.
CONSTANTS
    m1 = m1  m2 = m2  m3 = m3  d1 = d1  d2 = d2
    t1 = t1  t2 = t2  f1 = f1  f2 = f2  f3 = f3
    donna = donna  sent = sent  labelDraft = labelDraft
    NoLabel = NoLabel  None = None  Malformed = Malformed
    Messages = {m1, m2, m3, d1, d2}
    Threads = {t1, t2}
    Attachments = {f1, f2, f3}
    Labels = {donna, sent, labelDraft}
    SentLabel = sent
    DraftLabel = labelDraft
    OwnerMessages <- MCOwnerMessages
    Addresses = {"owner", "alice", "bob", "carol", "dave"}
    Owner <- MCOwner
    MailOrder <- MCMailOrder
    DraftIDs <- MCDraftIDs
    Date <- MCDate
    MailThread <- MCMailThread
    MailHeaders <- MCMailHeaders
    MailAttachments <- MCMailAttachments
    MailParts <- MCMailParts
    MessageIDs = {"m1", "m2", "m3", "old", "d1", "d2"}
    NoID = NoID
    DraftMessageIDs <- MCDraftMessageIDs
    MaxBodyBytes = 6
    TransportSafeAttachmentBytes = 24117248
    ResponseMaxBytes = 33554432
    EnvelopeBytes = 512
    PolicyFiles <- MCPolicyFiles
    MailStates <- MovingMail
    Requests <- MCRequests
    MaxChanges = 2
    MaxFailures = 1
SPECIFICATION Spec
INVARIANTS
    OnlyVisibleContentsAreRead
    AnswersAreOneView
    VisibleMailIsServed
    BodiesAreHonest
    RepliesReachTheirAudience
    RepliesJoinTheConversation
PROPERTIES
    DraftsAnswerVisibleMail
