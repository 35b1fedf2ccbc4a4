--------------------------- MODULE MCReadHandlers ---------------------------
(***************************************************************************)
(* A mailbox of two threads for checking ReadHandlers, with the sizes of   *)
(* attachments as they are.                                                *)
(***************************************************************************)
EXTENDS ReadHandlers, TLC

CONSTANTS m1, m2, m3, d1, d2, t1, t2, f1, f2, f3, donna, sent, labelDraft

MCMailOrder == <<m1, m2, m3>>
MCDraftIDs  == <<d1, d2>>
MCOwnerMessages == {m3, d1, d2}
MCMailThread == m1 :> t1 @@ m2 :> t1 @@ m3 :> t2

\* m2 is older than m1 though Gmail lists it later; drafts are the newest.
MCDate == m1 :> 2 @@ m2 :> 1 @@ m3 :> 2 @@ d1 :> 3 @@ d2 :> 4

W(mailbox) == [mailbox |-> mailbox, lower |-> TRUE]
MCOwner    == [mailbox |-> "owner", lower |-> FALSE]

\* m3 is the owner's own; m2's sender asks for replies to two others.  m1
\* answers m2 by In-Reply-To alone; m3 has no Message-ID but refers to itself
\* twice, as broken mailers do.
MCMailHeaders ==
    m1 :> [from |-> <<W("alice")>>, replyTo |-> <<>>,
           to |-> <<W("owner"), W("bob"), W("alice")>>, cc |-> <<W("bob"), W("carol"), MCOwner>>,
           messageID |-> "m1", inReplyTo |-> <<"m2">>, references |-> <<>>] @@
    m2 :> [from |-> <<W("bob")>>, replyTo |-> <<W("carol"), W("alice")>>,
           to |-> <<MCOwner>>, cc |-> <<W("alice")>>,
           messageID |-> "m2", inReplyTo |-> <<>>, references |-> <<"old", "m2">>] @@
    m3 :> [from |-> <<MCOwner>>, replyTo |-> <<Malformed>>,
           to |-> <<[mailbox |-> "bob", lower |-> FALSE], W("bob")>>, cc |-> <<Malformed>>,
           messageID |-> NoID, inReplyTo |-> <<"old">>, references |-> <<"m3", "m3">>]

MCDraftMessageIDs == d1 :> "d1" @@ d2 :> "d2"

MiB == 1048576
File(inline, stated, actual) == [inline |-> inline, stated |-> stated, actual |-> actual]

\* Around the 23 MiB bound, an empty one, and one whose stated size is wrong.
MCMailAttachments ==
    m1 :> (f1 :> File(FALSE, 23 * MiB, 23 * MiB) @@ f2 :> File(TRUE, 24 * MiB, 24 * MiB)
           @@ f3 :> File(FALSE, 25 * MiB, 25 * MiB)) @@
    m2 :> (f1 :> File(FALSE, 0, 0) @@ f2 :> File(FALSE, 23 * MiB - 1, 23 * MiB - 1)
           @@ f3 :> File(FALSE, 0, 25 * MiB)) @@
    m3 :> <<>>

\* With a limit of six bytes: a second part that fits exactly, though an HTML
\* part comes first; a character across the limit; a byte that is no UTF-8.
Say(type, text) == [type |-> type, text |-> text]
MCMailParts ==
    m1 :> <<Say("other", <<>>), Say("text/html", <<"ascii">>), Say("text/plain", <<>>),
            Say("text/plain", <<"lead2", "cont", "lead3", "cont", "cont", "ascii">>)>> @@
    m2 :> <<Say("text/html", <<"ascii", "ascii", "ascii", "lead4", "cont", "cont", "cont">>)>> @@
    m3 :> <<Say("text/plain", <<"ascii", "never", "ascii", "ascii", "ascii", "ascii", "ascii">>)>>

State(l1, l2, l3, present, named) ==
    [labels |-> m1 :> l1 @@ m2 :> l2 @@ m3 :> l3, present |-> present, named |-> named]

Whole == State({donna}, {donna}, {sent}, {m1, m2, m3}, {donna})
MovingMail ==
    { Whole,
      State({}, {donna}, {sent}, {m1, m2, m3}, {donna}),
      State({donna}, {}, {sent, donna}, {m1, m3}, {donna}),
      State({}, {}, {}, {m1, m2}, {}) }

LabelOnly == [visibilityLabel |-> donna, allowOwnerSent |-> FALSE]
Both      == [visibilityLabel |-> donna, allowOwnerSent |-> TRUE]
OwnerSent == [visibilityLabel |-> NoLabel, allowOwnerSent |-> TRUE]
MCPolicyFiles == {LabelOnly, Both, OwnerSent}

R(method, message, thread) ==
    [method |-> method, message |-> message, thread |-> thread, attachment |-> None,
     bodies |-> FALSE, replyAll |-> FALSE, to |-> <<>>, cc |-> <<>>, bcc |-> <<>>, configured |-> 0]

ReadFile(m, f, max) ==
    [R("get_attachment", m, None) EXCEPT !.attachment = f, !.configured = max]

\* With no maximum configured, a small one, and one the transport cannot carry.
FileRequests ==
    { ReadFile(m1, f1, 0), ReadFile(m1, f1, 10), ReadFile(m1, f2, 30 * MiB), ReadFile(m1, f3, 30 * MiB),
      ReadFile(m2, f1, 10), ReadFile(m2, f2, 0), ReadFile(m2, f3, 0), ReadFile(m3, f1, 0) }

ReadRequests ==
    {R("get_message", m, None) : m \in {None, m1, m3}} \cup
    {[R("get_thread", None, t) EXCEPT !.bodies = b] : t \in {t1, t2}, b \in BOOLEAN} \cup
    {[R("get_message", m3, None) EXCEPT !.bodies = TRUE],
     R("get_thread", None, None), R("list_labels", None, None)}

\* Replies with and without recipients of their own, a new draft, refused ones.
DraftRequests ==
    {[R("create_draft", m, t) EXCEPT !.replyAll = all] :
        <<m, t>> \in {<<m1, None>>, <<m3, None>>, <<None, t1>>, <<None, t2>>}, all \in BOOLEAN} \cup
    {[R("create_draft", None, t) EXCEPT !.bcc = <<W("dave")>>] : t \in {None, t1}} \cup
    {[R("create_draft", None, None) EXCEPT !.to = <<Malformed>>],
     R("create_draft", None, None), R("create_draft", m1, t1),
     [R("create_draft", m2, None) EXCEPT !.to = <<W("carol"), W("carol")>>]}

MCRequests == ReadRequests \cup FileRequests \cup DraftRequests

=============================================================================
