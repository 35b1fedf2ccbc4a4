--------------------------- MODULE MCThreadSearch ---------------------------
(***************************************************************************)
(* A mailbox of two threads, shown whole, in part or not at all, for       *)
(* checking ThreadSearch.                                                  *)
(***************************************************************************)
EXTENDS ThreadSearch, TLC

CONSTANTS a1, a2, b1, b2, ta, tb, donna, sent, p1

MCMessageOrder  == <<a1, a2, b1, b2>>
MCOwnerMessages == {b2}
MCThreadOf == a1 :> ta @@ a2 :> ta @@ b1 :> tb @@ b2 :> tb

\* a1 and a2 came within a second; b2 is older than b1.
MCInternalDate == a1 :> 1200 @@ a2 :> 1700 @@ b1 :> 3000 @@ b2 :> 2500

W(address)  == [mailbox |-> address, lower |-> TRUE]
MCOwner     == [mailbox |-> "owner", lower |-> FALSE]
Heads(from, to, cc, bcc) == [from |-> from, to |-> to, cc |-> cc, bcc |-> bcc]
MCHeaders ==
    a1 :> Heads(<<W("alice")>>, <<MCOwner>>, <<>>, <<>>) @@
    a2 :> Heads(<<W("bob")>>, <<MCOwner>>, <<[mailbox |-> "alice", lower |-> FALSE]>>, <<>>) @@
    b1 :> Heads(<<>>, <<Malformed>>, <<W("bob")>>, <<>>) @@
    b2 :> Heads(<<MCOwner>>, <<W("bob")>>, <<>>, <<W("carol")>>)

Page(ids, next) == [threads |-> ids, next |-> next]
Overlapping == NoToken :> Page(<<ta, tb>>, p1) @@ p1 :> Page(<<ta>>, NoToken)
OnePage     == NoToken :> Page(<<tb, ta>>, NoToken) @@ p1 :> Page(<<>>, NoToken)
Repeating   == NoToken :> Page(<<tb>>, p1) @@ p1 :> Page(<<ta>>, p1)

Box(listing, la1, la2, lb1, lb2, present, named) ==
    [listing |-> listing, present |-> present, named |-> named,
     labels |-> a1 :> la1 @@ a2 :> la2 @@ b1 :> lb1 @@ b2 :> lb2]

MCMailStates ==
    { Box(Overlapping, {donna}, {donna}, {donna}, {}, Messages, {donna}),
      Box(OnePage, {donna}, {}, {donna}, {sent}, Messages \ {a2}, {donna}),
      Box(Overlapping, {}, {}, {}, {sent}, Messages, {donna}),
      Box(Repeating, {donna}, {donna}, {}, {}, {a1, a2}, {}) }

LabelOnly == [visibilityLabel |-> donna, allowOwnerSent |-> FALSE]
Both      == [visibilityLabel |-> donna, allowOwnerSent |-> TRUE]
NoScope   == [visibilityLabel |-> NoLabel, allowOwnerSent |-> FALSE]
MCPolicyFiles == {LabelOnly, Both, NoScope}

=============================================================================
