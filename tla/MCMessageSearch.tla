--------------------------- MODULE MCMessageSearch --------------------------
(***************************************************************************)
(* Small mailboxes and policies for checking MessageSearch.                *)
(***************************************************************************)
EXTENDS MessageSearch, TLC

CONSTANTS m1, m2, m3, donna, sent, t1, t2

Page(messages, next) == [messages |-> messages, next |-> next]

\* Two pages that overlap: m2 moved from the first to the second in between.
Overlapping ==
    NoToken :> Page(<<m1, m2>>, t1) @@ t1 :> Page(<<m2, m3>>, NoToken)

\* The same mailbox after new mail shifted it, on one page.
Shifted == NoToken :> Page(<<m3, m1, m2, m1>>, NoToken) @@ t1 :> Page(<<m1>>, NoToken)

\* Gmail answers the second page with the token it was asked for.
Repeating ==
    NoToken :> Page(<<m1>>, t1) @@ t1 :> Page(<<m2, m3>>, t1)

\* An empty page in the middle, and one message per page after it.
Sparse ==
    NoToken :> Page(<<>>, t1) @@ t1 :> Page(<<m1>>, t2) @@ t2 :> Page(<<m3, m2>>, NoToken)

AllLabelled == [m \in Messages |-> {donna}]
Box(listing, labels, present, named) ==
    [listing |-> listing, labels |-> labels, present |-> present, named |-> named]

MCOwnerMessages == {m3}

\* For the safety runs: relabelling, deletion, a label that is removed.
ChangingMailboxes ==
    { Box(Overlapping, AllLabelled, Messages, {donna}),
      Box(Shifted, [AllLabelled EXCEPT ![m2] = {}], Messages, {donna}),
      Box(Repeating, [AllLabelled EXCEPT ![m1] = {sent}], Messages \ {m2}, {donna}),
      Box(Shifted, AllLabelled, Messages, {}) }

\* For the completeness run: sane paging, and nothing hidden or deleted.
SoundMailboxes ==
    { Box(Sparse, AllLabelled, Messages, {donna}),
      Box([Sparse EXCEPT ![NoToken] = Page(<<m2, m2>>, t1), ![t2] = Page(<<m2, m1>>, NoToken)],
          AllLabelled, Messages, {donna}) }

\* For the hidden-message run: one page, one of its messages is hidden.
HidingMailboxes ==
    { Box(NoToken :> Page(<<m1, m2>>, NoToken) @@ t1 :> Page(<<>>, NoToken),
          [AllLabelled EXCEPT ![m2] = {}], Messages, {donna}) }

LabelOnly  == [visibilityLabel |-> donna, allowOwnerSent |-> FALSE]
OwnerSent  == [visibilityLabel |-> NoLabel, allowOwnerSent |-> TRUE]
Both       == [visibilityLabel |-> donna, allowOwnerSent |-> TRUE]
NoScope    == [visibilityLabel |-> NoLabel, allowOwnerSent |-> FALSE]

LabelPolicy    == {LabelOnly}
EditedPolicies == {LabelOnly, OwnerSent, NoScope}

=============================================================================
