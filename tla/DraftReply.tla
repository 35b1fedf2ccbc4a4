----------------------------- MODULE DraftReply -----------------------------
(***************************************************************************)
(* Whom a draft is addressed to and what makes it a reply:                 *)
(* NormalizeAddressList, DraftReplyContextFromMessage,                     *)
(* DraftReplyRecipients and NewestMessage of internal/gmailapi/draft.go.   *)
(*                                                                         *)
(* An address as it is written in a header or a request is a mailbox and   *)
(* whether it is spelled in lower case; the code compares and returns      *)
(* lower-case mailboxes.  Text that does not parse as an address is        *)
(* Malformed: ExtractEmails (internal/policy) passes it on as it is, and   *)
(* NormalizeAddressList refuses it.  The subject is left out.              *)
(***************************************************************************)
EXTENDS SearchIDs

CONSTANTS
    Addresses,  \* mailboxes
    Malformed,  \* an address that does not parse
    Owner,      \* the configured account_email, as it is written
    MessageIDs, NoID    \* what Message-ID headers say; none there

Written == [mailbox : Addresses, lower : BOOLEAN]

\* The headers of a message that decide about replies to it.
Value     == Written \cup {Malformed}
HeaderSet == [from : Seq(Value), replyTo : Seq(Value), to : Seq(Value), cc : Seq(Value),
              messageID : MessageIDs \cup {NoID}, inReplyTo : Seq(MessageIDs),
              references : Seq(MessageIDs)]

ASSUME AddressAssumption == Owner \in Written /\ Malformed \notin Written \cup Addresses

Lower(values) ==
    [i \in DOMAIN values |-> IF values[i] = Malformed THEN Malformed ELSE values[i].mailbox]

WellFormed(values) == Malformed \notin Range(values)

\* For well-formed values: lower case, each mailbox once.
NormalizeAddressList(values) == UniqueIDsExcluding(Lower(values), {})

\* A mutant: mailboxes in To are not remembered when Cc is filled.
Fresh_ForgetsSeen(values, seen) == UniqueIDsExcluding(Lower(values), {Owner.mailbox})

\* `add`: the mailboxes that are not the owner's and not addressed yet.
Fresh(values, seen) == UniqueIDsExcluding(Lower(values), seen \cup {Owner.mailbox})

\* Reply-To's first mailbox, else From's.  A Reply-To that does not parse
\* counts as none.
ReplyAddress(headers) ==
    LET values == IF headers.replyTo # <<>> /\ WellFormed(headers.replyTo)
                  THEN headers.replyTo ELSE headers.from
    IN  SubSeq(values, 1, IF values = <<>> THEN 0 ELSE 1)

DraftReplyRecipients(headers, replyAll) ==
    LET sender == Fresh(ReplyAddress(headers), {})
        to == IF replyAll \/ sender = <<>>
              THEN sender \o Fresh(headers.to, Range(sender)) ELSE sender
    IN  [to |-> to, cc |-> IF replyAll THEN Fresh(headers.cc, Range(to)) ELSE <<>>]

\* A mutant: In-Reply-To is not looked at.
KnownReferences_Only(headers) == headers.references

\* What the message says it refers to; many mailers only write In-Reply-To.
KnownReferences(headers) ==
    IF headers.references = <<>> THEN headers.inReplyTo ELSE headers.references

\* The threading headers of a reply to a message.
DraftReplyContext(headers) ==
    LET known == KnownReferences(headers)
    IN  [inReplyTo |-> IF headers.messageID = NoID THEN <<>> ELSE <<headers.messageID>>,
         references |-> IF headers.messageID \in {NoID} \cup Range(known) THEN known
                        ELSE Append(known, headers.messageID)]

\* A mutant: the first message wins, whatever its date.
NewestMessage_First(messages, date) == messages[1]

\* The first of the messages with the latest date.
NewestMessage(messages, date) ==
    messages[CHOOSE i \in DOMAIN messages :
                /\ \A j \in DOMAIN messages : date[messages[j]] <= date[messages[i]]
                /\ \A j \in 1 .. i - 1 : date[messages[j]] < date[messages[i]]]

-----------------------------------------------------------------------------
\* A reference for whom a reply is for, as a set.
Audience(headers, replyAll) ==
    LET sender == Range(Lower(ReplyAddress(headers))) \ {Owner.mailbox}
        others == Range(Lower(headers.to)) \ {Owner.mailbox}
    IN  IF replyAll THEN sender \cup others \cup (Range(Lower(headers.cc)) \ {Owner.mailbox})
        ELSE IF sender = {} THEN others ELSE sender

=============================================================================
