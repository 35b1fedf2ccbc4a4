---------------------------- MODULE ReadHandlers ----------------------------
(***************************************************************************)
(* The handlers of internal/broker/server.go that name an object:          *)
(* gmail.get_message, get_thread, get_attachment and create_draft, and     *)
(* gmail.list_labels.  All of them open a runtime (policy, Gmail client,   *)
(* visibility label), read metadata, decide, and only then read contents   *)
(* or create the draft.                                                    *)
(*                                                                         *)
(* Gmail is external: each call is a step, and the mailbox and the policy  *)
(* file may change between any two.  A draft is itself a message of its    *)
(* thread, from the owner, with the label DRAFT; drafts stay until the     *)
(* model's end.  Requests are handled one at a time here: handlers share   *)
(* nothing but the mailbox, and what others do to it is a change of it.    *)
(***************************************************************************)
EXTENDS Visibility, DraftReply, MessageShaping

CONSTANTS
    Threads, Attachments,   \* identifiers
    MailOrder,      \* the messages that are no drafts, as Gmail lists them
    DraftIDs,       \* the identifiers of the drafts to come, in order; their
                    \* number bounds the drafts created
    DraftLabel,     \* Gmail's system label DRAFT
    Date,           \* each message's internalDate
    MailThread, MailHeaders,    \* of each message that is no draft
    MailAttachments,            \* likewise: a function on its attachments
    MailParts,                  \* likewise: its payload's parts
    DraftMessageIDs,            \* the Message-ID Gmail gives each draft
    MaxBodyBytes,               \* max_body_bytes of the daemon
    MailStates,     \* the states the mailbox moves among, drafts aside
    PolicyFiles,
    Requests,       \* the requests callers send
    TransportSafeAttachmentBytes,   \* transportSafeAttachmentBytes (23 MiB)
    ResponseMaxBytes,   \* the largest frame a client reads (32 MiB)
    EnvelopeBytes,      \* a response but for its content_base64
    None,
    MaxChanges,     \* bound: changes of the mailbox or the policy file
    MaxFailures     \* bound: calls that fail

Mail == Range(MailOrder)

\* A part without an AttachmentId is an attachment if it carries data.
Attachment == [inline : BOOLEAN,    \* carried in the payload
               stated : Nat,        \* Body.Size
               actual : Nat]        \* bytes there are

MailState == [labels : [Mail -> SUBSET Labels], present : SUBSET Mail,
              named : SUBSET Labels]

Methods == {"get_message", "get_thread", "get_attachment", "create_draft", "list_labels"}

\* reply_to_message_id and reply_to_thread_id are message and thread, too.
Request == [method : Methods, message : Messages \cup {None},
            thread : Threads \cup {None}, attachment : Attachments \cup {None},
            bodies : BOOLEAN, replyAll : BOOLEAN,
            to : Seq(Value), cc : Seq(Value), bcc : Seq(Value),
            configured : Int]   \* max_attachment_bytes of the daemon it is sent
                                \* to, which may have been restarted since

ASSUME HandlerAssumption ==
    /\ MailOrder \in Seq(Messages) /\ DraftIDs \in Seq(Messages)
    /\ IsInjective(MailOrder) /\ IsInjective(DraftIDs)
    /\ Messages = Mail \cup Range(DraftIDs) /\ Mail \cap Range(DraftIDs) = {}
    /\ Range(DraftIDs) \subseteq OwnerMessages /\ DraftLabel \in Labels
    /\ Date \in [Messages -> Nat]
    /\ MailThread \in [Mail -> Threads] /\ MailHeaders \in [Mail -> HeaderSet]
    /\ \A m \in Mail : /\ DOMAIN MailAttachments[m] \subseteq Attachments
                       /\ Range(MailAttachments[m]) \subseteq Attachment
                       /\ \A file \in Range(MailAttachments[m]) :
                             file.inline => file.actual > 0
    /\ MailParts \in [Mail -> Seq(Part)] /\ MaxBodyBytes \in Nat \ {0}
    /\ DraftMessageIDs \in [Range(DraftIDs) -> MessageIDs]
    /\ MailStates \subseteq MailState /\ PolicyFiles \subseteq Policy
    /\ Requests \subseteq Request
    /\ {TransportSafeAttachmentBytes, ResponseMaxBytes, EnvelopeBytes} \subseteq Nat
    /\ None \notin Messages \cup Threads \cup Attachments \cup Policy
    /\ MaxChanges \in Nat /\ MaxFailures \in Nat

VARIABLES
    mail,           \* Gmail: everything but the drafts
    drafts,         \* Gmail: the drafts created, in order
    policyFile,
    pc, req, pol,   \* the handler: its progress, the request, the policy
    authorized,     \* the messages it found visible and goes on with
    contents,       \* those whose contents it read
    response,
    views,          \* history: what the request's policy showed of the
                    \* mailbox, at each moment since it was loaded
    changes, failures   \* what was used of the bounds

gmail   == <<mail, drafts>>
handler == <<pc, req, pol, authorized, contents, response>>
vars    == <<gmail, policyFile, handler, views, changes, failures>>

Draft == [anchor : Messages \cup {None}, thread : Threads \cup {None},
          to : Seq(Addresses), cc : Seq(Addresses), bcc : Seq(Addresses),
          inReplyTo : Seq(MessageIDs), references : Seq(MessageIDs),
          derived : BOOLEAN, replyAll : BOOLEAN]    \* history: how it came about

Codes == {"ok", "internal_error", "invalid_params", "not_found", "policy_denied",
          "too_large", "rate_limited", "gmail_api_error"}

Response == [code : Codes, messages : Seq(Messages),
             bodies : Seq([text : Seq(Byte), truncated : BOOLEAN])]

(***************************************************************************)
(* The mailbox as Gmail shows it.                                          *)
(***************************************************************************)
Drafted == {DraftIDs[i] : i \in DOMAIN drafts}
Present == mail.present \cup Drafted

DraftOf(m) == drafts[CHOOSE i \in DOMAIN drafts : DraftIDs[i] = m]

LabelsOf(m) == IF m \in Mail THEN mail.labels[m] ELSE {DraftLabel}
ThreadOf(m) == IF m \in Mail THEN MailThread[m] ELSE DraftOf(m).thread

AsWritten(mailboxes) == [i \in DOMAIN mailboxes |-> [mailbox |-> mailboxes[i], lower |-> TRUE]]

HeadersOf(m) ==
    IF m \in Mail THEN MailHeaders[m]
    ELSE [from |-> <<Owner>>, replyTo |-> <<>>, to |-> AsWritten(DraftOf(m).to),
          cc |-> AsWritten(DraftOf(m).cc), messageID |-> DraftMessageIDs[m],
          inReplyTo |-> DraftOf(m).inReplyTo, references |-> DraftOf(m).references]

AttachmentsOf(m) == IF m \in Mail THEN MailAttachments[m] ELSE <<>>

\* A draft says little.
PartsOf(m) ==
    IF m \in Mail THEN MailParts[m] ELSE <<[type |-> "text/plain", text |-> <<"ascii">>]>>

\* threads.get: the messages there are of a thread.
ThreadMessages(thread) ==
    Keep(MailOrder \o DraftIDs, {m \in Present : ThreadOf(m) = thread})

\* What a policy shows of the mailbox.
View(p) == {m \in Present : AllowsMessage(p, m, LabelsOf(m))}

\* What the target of a request is, message by message.
Target(r) == IF r.message # None THEN Keep(<<r.message>>, Present)
             ELSE ThreadMessages(r.thread)

IsReply(r) == r.method = "create_draft" /\ (r.message # None \/ r.thread # None)

-----------------------------------------------------------------------------
Init ==
    /\ mail \in MailStates /\ drafts = <<>> /\ policyFile \in PolicyFiles
    /\ pc = "idle" /\ req = None /\ pol = None
    /\ authorized = <<>> /\ contents = <<>> /\ response = None /\ views = {}
    /\ changes = 0 /\ failures = 0

\* Mail arrives, is relabelled or deleted.
MailboxChanges ==
    /\ changes < MaxChanges /\ changes' = changes + 1
    /\ mail' \in MailStates \ {mail}
    /\ UNCHANGED <<drafts, policyFile, handler, failures>>
    /\ views' = IF pol = None THEN views ELSE views \cup {View(pol)'}

PolicyFileChanges ==
    /\ changes < MaxChanges /\ changes' = changes + 1
    /\ policyFile' \in PolicyFiles \ {policyFile}
    /\ UNCHANGED <<gmail, handler, views, failures>>

Ask ==
    /\ pc = "idle"
    /\ req' \in Requests
    /\ req'.method = "create_draft" => Len(drafts) < Len(DraftIDs)
    /\ pc' = "validate"
    /\ UNCHANGED <<gmail, policyFile, pol, authorized, contents, response,
                   views, changes, failures>>

(***************************************************************************)
(* What all handlers begin with.                                           *)
(***************************************************************************)
Answered(code, messages) == [code |-> code, messages |-> messages, bodies |-> <<>>]
RespondWith(r) == response' = r /\ pc' = "respond"
Refuse(code) == RespondWith(Answered(code, <<>>))

\* The methods' Validate: identifiers are there, a draft has one reply target
\* at most, and reply_all has one.
Valid(r) ==
    CASE r.method = "get_message"    -> r.message # None
      [] r.method = "get_thread"     -> r.thread # None
      [] r.method = "get_attachment" -> r.message # None /\ r.attachment # None
      [] r.method = "create_draft"   -> /\ r.message = None \/ r.thread = None
                                        /\ r.replyAll => IsReply(r)
      [] r.method = "list_labels"    -> TRUE

InvalidRequest ==
    /\ pc = "validate" /\ ~Valid(req)
    /\ Refuse("invalid_params")
    /\ UNCHANGED <<gmail, policyFile, req, pol, authorized, contents, views,
                   changes, failures>>

LoadPolicy ==
    /\ pc = "validate" /\ Valid(req)
    /\ pol' = policyFile
    /\ views' = {View(policyFile)}
    /\ pc' = IF req.method = "list_labels" THEN "labels"
             ELSE IF policyFile.visibilityLabel = NoLabel THEN "start" ELSE "resolve"
    /\ UNCHANGED <<gmail, policyFile, req, authorized, contents, response,
                   changes, failures>>

\* The policy file does not parse, or there is no token.
OpenFails ==
    /\ pc = "validate" /\ Valid(req)
    /\ failures < MaxFailures /\ failures' = failures + 1
    /\ Refuse("internal_error")
    /\ UNCHANGED <<gmail, policyFile, req, pol, authorized, contents, views,
                   changes>>

ResolveVisibilityLabel ==
    /\ pc = "resolve"
    /\ IF pol.visibilityLabel \in mail.named
       THEN pc' = "start" /\ UNCHANGED response
       ELSE Refuse("internal_error")
    /\ UNCHANGED <<gmail, policyFile, req, pol, authorized, contents, views,
                   changes, failures>>

ListLabels ==
    /\ pc = "labels"
    /\ RespondWith(Answered("ok", <<>>))
    /\ UNCHANGED <<gmail, policyFile, req, pol, authorized, contents, views,
                   changes, failures>>

(***************************************************************************)
(* Reading what the request names.                                         *)
(***************************************************************************)
\* A draft's own recipients are looked at before anything is read.
Recipients(r) == r.to \o r.cc \o r.bcc
RecipientsRefused(r) ==
    r.method = "create_draft" /\ (~WellFormed(Recipients(r))
                                  \/ (~IsReply(r) /\ Recipients(r) = <<>>))

Start ==
    /\ pc = "start"
    /\ IF RecipientsRefused(req) THEN Refuse("invalid_params")
       ELSE /\ pc' = IF req.method = "create_draft" /\ ~IsReply(req)
                     THEN "draft" ELSE "target"
            /\ UNCHANGED response
    /\ UNCHANGED <<gmail, policyFile, req, pol, authorized, contents, views,
                   changes, failures>>

\* Mutants: the policy is not asked; one hidden message hides the thread.
VisibleThreadMessages_Unchecked(p, messages) == messages
VisibleThreadMessages_AllOrNothing(p, messages) ==
    IF \A i \in DOMAIN messages : AllowsMessage(p, messages[i], LabelsOf(messages[i]))
    THEN messages ELSE <<>>

VisibleThreadMessages(p, messages) ==
    Keep(messages, {m \in Range(messages) : AllowsMessage(p, m, LabelsOf(m))})

\* Whom the draft goes to, when the request does not say.
Derives(r) == IsReply(r) /\ Recipients(r) = <<>>

\* The metadata of the message or of the thread decides.
ReadTarget ==
    /\ pc = "target"
    /\ Target(req) # <<>>
    /\ LET visible == VisibleThreadMessages(pol, Target(req))
           anchor  == NewestMessage(visible, Date)
           derived == DraftReplyRecipients(HeadersOf(anchor), req.replyAll)
       IN  IF visible = <<>> THEN Refuse("policy_denied") /\ UNCHANGED authorized
           ELSE IF req.method = "get_thread" /\ ~req.bodies
           THEN RespondWith(Answered("ok", visible)) /\ authorized' = visible
           ELSE IF req.method # "create_draft"
           THEN authorized' = visible /\ pc' = "full" /\ UNCHANGED response
           ELSE IF Derives(req) /\ derived.to \o derived.cc = <<>>
           THEN Refuse("invalid_params") /\ UNCHANGED authorized
           ELSE authorized' = <<anchor>> /\ pc' = "draft" /\ UNCHANGED response
    /\ UNCHANGED <<gmail, policyFile, req, pol, contents, views,
                   changes, failures>>

FullDue == pc = "full" /\ Len(contents) < Len(authorized)

\* The message whose contents are read next.
Due == authorized[Len(contents) + 1]

ReadFull ==
    /\ FullDue
    /\ Due \in Present
    /\ contents' = Append(contents, Due)
    /\ UNCHANGED <<gmail, policyFile, pc, req, pol, authorized, response,
                   views, changes, failures>>

\* A mutant: a configured maximum is taken as it is.
MaxAttachmentBytes_Uncapped(configured) ==
    IF configured <= 0 THEN TransportSafeAttachmentBytes ELSE configured

MaxAttachmentBytes(configured) ==
    IF configured <= 0 \/ configured > TransportSafeAttachmentBytes
    THEN TransportSafeAttachmentBytes ELSE configured

\* base64 with padding, in the JSON of a response.
ResponseBytes(size) == EnvelopeBytes + 4 * ((size + 2) \div 3)

\* An attachment of 23 MiB fits the frame; the code fixes all three sizes.
ASSUME TransportAssumption ==
    ResponseBytes(TransportSafeAttachmentBytes) <= ResponseMaxBytes

Fits(attachment) ==
    /\ attachment.actual <= MaxAttachmentBytes(req.configured)
    /\ ResponseBytes(attachment.actual) <= ResponseMaxBytes

\* buildAttachmentResponse, with the check of the size before it.
AnswerAttachment(attachment) ==
    IF Fits(attachment) THEN RespondWith(Answered("ok", authorized))
    ELSE Refuse("too_large")

\* BuildMessageDetail of each message: its body, when it is asked for.
Detailed(messages) ==
    [Answered("ok", messages) EXCEPT
        !.bodies = [i \in DOMAIN messages |-> BodyOf(PartsOf(messages[i]), MaxBodyBytes)]]

EndFull ==
    /\ pc = "full" /\ ~FullDue
    /\ IF req.method # "get_attachment"
       THEN RespondWith(IF req.bodies THEN Detailed(contents) ELSE Answered("ok", contents))
       ELSE LET there == AttachmentsOf(contents[1])
            IN  IF req.attachment \notin DOMAIN there THEN Refuse("not_found")
                ELSE IF there[req.attachment].stated > MaxAttachmentBytes(req.configured)
                THEN Refuse("too_large")
                ELSE IF there[req.attachment].inline
                THEN AnswerAttachment(there[req.attachment])
                ELSE pc' = "data" /\ UNCHANGED response
    /\ UNCHANGED <<gmail, policyFile, req, pol, authorized, contents, views,
                   changes, failures>>

\* GetAttachmentData takes no data for an error.
ReadAttachment ==
    /\ pc = "data"
    /\ req.message \in Present
    /\ LET file == AttachmentsOf(req.message)[req.attachment]
       IN  IF file.actual = 0 THEN Refuse("gmail_api_error") ELSE AnswerAttachment(file)
    /\ UNCHANGED <<gmail, policyFile, req, pol, authorized, contents, views,
                   changes, failures>>

(***************************************************************************)
(* Creating the draft: the one thing a request changes.                    *)
(***************************************************************************)
DraftFor(r) ==
    LET anchor  == IF IsReply(r) THEN authorized[1] ELSE None
        derived == DraftReplyRecipients(HeadersOf(anchor), r.replyAll)
        context == IF IsReply(r) THEN DraftReplyContext(HeadersOf(anchor))
                   ELSE [inReplyTo |-> <<>>, references |-> <<>>]
    IN  [anchor |-> anchor,
         thread |-> IF anchor = None THEN None ELSE ThreadOf(anchor),
         to |-> IF Derives(r) THEN derived.to ELSE NormalizeAddressList(r.to),
         cc |-> IF Derives(r) THEN derived.cc ELSE NormalizeAddressList(r.cc),
         bcc |-> NormalizeAddressList(r.bcc),
         inReplyTo |-> context.inReplyTo, references |-> context.references,
         derived |-> Derives(r), replyAll |-> r.replyAll]

\* BuildDraftRaw takes no address that does not parse.
Buildable(d) == Malformed \notin Range(d.to) \cup Range(d.cc)

DraftDue == pc = "draft" /\ Buildable(DraftFor(req))

NewDraft(d) == drafts' = Append(drafts, d)

CreateDraft ==
    /\ DraftDue
    /\ NewDraft(DraftFor(req))
    /\ RespondWith(Answered("ok", authorized))
    /\ UNCHANGED <<mail, policyFile, req, pol, authorized, contents,
                   changes, failures>>
    /\ views' = views \cup {View(pol)'}

\* No call is made, and the error is mapped like one of Gmail's.
CannotBuild ==
    /\ pc = "draft" /\ ~Buildable(DraftFor(req))
    /\ Refuse("gmail_api_error")
    /\ UNCHANGED <<gmail, policyFile, req, pol, authorized, contents, views,
                   changes, failures>>

(***************************************************************************)
(* Calls that fail.                                                        *)
(***************************************************************************)
CallDue == pc \in {"resolve", "labels", "target", "data"} \/ FullDue \/ DraftDue

\* There is no such message, attachment or thread, any more.
NotFound ==
    /\ \/ pc = "target" /\ Target(req) = <<>>
       \/ FullDue /\ Due \notin Present
       \/ pc = "data" /\ req.message \notin Present
       \/ DraftDue /\ IsReply(req) /\ ThreadMessages(DraftFor(req).thread) = <<>>
    /\ Refuse("not_found")
    /\ UNCHANGED <<gmail, policyFile, req, pol, authorized, contents, views,
                   changes, failures>>

\* 429, 5xx or the deadline; Gmail may have created the draft all the same.
GmailFails ==
    /\ CallDue
    /\ failures < MaxFailures /\ failures' = failures + 1
    /\ Refuse("rate_limited") \/ Refuse("gmail_api_error")
    /\ UNCHANGED drafts \/ (DraftDue /\ NewDraft(DraftFor(req)))
    /\ UNCHANGED <<mail, policyFile, req, pol, authorized, contents, changes>>
    /\ views' = IF drafts' = drafts THEN views ELSE views \cup {View(pol)'}

\* The answer is written, and the handler is over.
Answer ==
    /\ pc = "respond"
    /\ pc' = "idle" /\ req' = None /\ pol' = None /\ response' = None
    /\ authorized' = <<>> /\ contents' = <<>> /\ views' = {}
    /\ UNCHANGED <<gmail, policyFile, changes, failures>>

Next ==
    \/ MailboxChanges \/ PolicyFileChanges \/ Ask
    \/ InvalidRequest \/ LoadPolicy \/ OpenFails \/ ResolveVisibilityLabel
    \/ ListLabels \/ Start \/ ReadTarget \/ ReadFull \/ EndFull \/ ReadAttachment
    \/ CreateDraft \/ CannotBuild \/ NotFound \/ GmailFails \/ Answer

Spec == Init /\ [][Next]_vars

-----------------------------------------------------------------------------
\* The variables have the types their comments say.
TypeOK ==
    /\ mail \in MailStates /\ policyFile \in PolicyFiles
    /\ drafts \in Seq(Draft) /\ Len(drafts) <= Len(DraftIDs)
    /\ pc \in {"idle", "validate", "resolve", "start", "labels", "target", "full",
               "data", "draft", "respond"}
    /\ req \in Requests \cup {None} /\ pol \in PolicyFiles \cup {None}
    /\ authorized \in Seq(Messages) /\ contents \in Seq(Messages)
    /\ response \in Response \cup {None}
    /\ views \in SUBSET SUBSET Messages
    /\ changes \in 0 .. MaxChanges /\ failures \in 0 .. MaxFailures

\* Contents are read of a message only after the policy the request loaded
\* allowed it (docs/safe-gmail-rpc-schema.md: auth before body retrieval, full
\* content only after visibility is established), whatever the mailbox does
\* between the two reads.
OnlyVisibleContentsAreRead == Range(contents) \subseteq UNION views

HasTarget(r) == r.method # "list_labels" /\ (r.method = "create_draft" => IsReply(r))

\* The messages of a target that a view shows, in Gmail's order.
Shown(r, view) ==
    IF r.message # None THEN Keep(<<r.message>>, view)
    ELSE Keep(MailOrder \o DraftIDs, {m \in view : ThreadOf(m) = r.thread})

\* These are the messages r is about when it is all read at once under a view:
\* what it shows of the target, or of that the newest one for a reply.
AtOnce(r, view, messages) ==
    /\ Shown(r, view) # <<>>
    /\ IF r.method = "create_draft"
       THEN \E m \in Range(Shown(r, view)) :
               messages = <<m>> /\ \A n \in Range(Shown(r, view)) : Date[n] <= Date[m]
       ELSE messages = Shown(r, view)

\* Though a request reads the mailbox in several calls, what it answers is what
\* one look at the mailbox shows, at some moment after its policy was loaded:
\* all the visible messages of a thread and no others, and policy_denied only
\* when nothing of the target was visible.
AnswersAreOneView ==
    (response # None /\ HasTarget(req)) =>
        /\ response.code = "ok" => \E view \in views : AtOnce(req, view, response.messages)
        /\ response.code = "policy_denied" => \E view \in views : Shown(req, view) = <<>>

\* system.info's max_attachment_bytes is a promise: in a mailbox that stands
\* still, an attachment of a visible message that is not larger is served, and
\* its response fits the client's frame; so is every visible message and thread.
\* (An attachment without any bytes is not: GetAttachmentData refuses it.)
VisibleMailIsServed ==
    (/\ changes = 0 /\ failures = 0 /\ response # None
     /\ req.method \in {"get_message", "get_thread", "get_attachment"} /\ Valid(req)
     /\ policyFile.visibilityLabel \in mail.named \cup {NoLabel}
     /\ Shown(req, View(policyFile)) # <<>>
     /\ req.method = "get_attachment" =>
            /\ req.attachment \in DOMAIN AttachmentsOf(req.message)
            /\ LET file == AttachmentsOf(req.message)[req.attachment]
               IN  /\ file.stated <= MaxAttachmentBytes(req.configured)
                   /\ file.actual \in 1 .. MaxAttachmentBytes(req.configured))
        => response.code = "ok"

\* The body of an answer that is what the parts of a message say.
HonestBody(parts, body) ==
    LET texts == {part \in Range(parts) : part.text # <<>>}
        plain == {part \in texts : part.type = "text/plain"}
        html  == {part \in texts : part.type = "text/html"}
    IN  /\ body.text = <<>> /\ ~body.truncated => plain \cup html = {}
        /\ body.text # <<>> \/ body.truncated =>
              \E whole \in IF plain = {} THEN html ELSE plain :
                 /\ \E n \in 0 .. Len(whole.text) : body.text = SubSeq(whole.text, 1, n)
                 /\ Len(body.text) <= MaxBodyBytes
                 /\ body.truncated <=> body.text # whole.text
                 /\ body.truncated => ValidUTF8(body.text)
                 /\ (body.truncated /\ ValidUTF8(whole.text))
                       => Len(body.text) > MaxBodyBytes - 4

\* The bodies in an answer are what was sent: the plain text when there is any,
\* else the HTML; up to max_body_bytes, without a character cut in two, and with
\* body_truncated exactly when something is missing, which of valid UTF-8 is no
\* more than what does not fit (docs/safe-gmail-rpc-schema.md: body_text may be
\* truncated to max_body_bytes).
BodiesAreHonest ==
    response # None =>
        \A i \in DOMAIN response.bodies :
            HonestBody(PartsOf(response.messages[i]), response.bodies[i])

\* A reply is drafted only to mail that was visible to the request, and to the
\* newest of a thread's, also when the caller is told that it failed.
DraftsAnswerVisibleMail ==
    [][drafts' # drafts =>
          LET draft == drafts'[Len(drafts')]
          IN  IsReply(req) => \E view \in views : AtOnce(req, view, <<draft.anchor>>)]_vars

\* A reply to a message that is addressed to everybody it is for.
Reaches(draft, headers) ==
    LET all == draft.to \o draft.cc
    IN  /\ IsInjective(all) /\ Owner.mailbox \notin Range(all)
        /\ Range(all) = Audience(headers, draft.replyAll)

\* A reply without recipients of its own goes to everybody it is meant for,
\* once, and never to the owner, who is among the recipients of most mail.  When
\* it answers a draft, as a retry does after a lost answer that finds its own
\* first draft as the newest visible message, it goes to the same people.
RepliesReachTheirAudience ==
    \A i \in DOMAIN drafts :
        drafts[i].derived =>
            /\ Reaches(drafts[i], HeadersOf(drafts[i].anchor))
            /\ \A j \in DOMAIN drafts :
                  (/\ drafts[i].anchor = DraftIDs[j] /\ drafts[j].derived
                   /\ drafts[i].replyAll = drafts[j].replyAll)
                      => drafts[i].to = drafts[j].to /\ drafts[i].cc = drafts[j].cc

\* A reply to a message that names it, and refers to it and to all it refers to.
Joins(draft, headers) ==
    LET answered == {headers.messageID} \ {NoID}
        earlier  == IF headers.references = <<>> THEN headers.inReplyTo ELSE headers.references
        all      == draft.references
    IN  /\ Range(draft.inReplyTo) = answered
        /\ Range(all) = answered \cup Range(earlier)
        /\ SubSeq(all, 1, Len(earlier)) = earlier
        /\ IsInjective(earlier) => IsInjective(all)

\* A reply stays in its conversation for every mail reader, however long the
\* chain of replies to replies: it names the message it answers, and it refers to
\* that and to all that refers to, in that order and nothing twice
\* (draft.go, DraftReplyContextFromMessage: RFC 5322 reply headers).
RepliesJoinTheConversation ==
    \A i \in DOMAIN drafts :
        drafts[i].anchor # None => Joins(drafts[i], HeadersOf(drafts[i].anchor))

=============================================================================
