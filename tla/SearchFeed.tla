----------------------------- MODULE SearchFeed -----------------------------
(***************************************************************************)
(* What a paged search promises its client, whatever the mailbox, the      *)
(* policy file, Gmail and the connection do meanwhile.  The feed is all    *)
(* the client was given since it began; allowed is what the policy showed  *)
(* at some moment of the request in hand.                                  *)
(***************************************************************************)
EXTENDS Integers, Sequences, Functions

CONSTANT Messages

VARIABLES feed, ended, allowed

vars == <<feed, ended, allowed>>

Init == feed = <<>> /\ ended = FALSE /\ allowed = {}

\* A request sees more of the mailbox, or is over.
Observe ==
    /\ allowed' \in SUBSET Messages
    /\ UNCHANGED <<feed, ended>>

\* A page extends the feed with messages that are new to it and were allowed.
Deliver ==
    /\ ~ended
    /\ feed' \in Seq(Messages)
    /\ Len(feed) <= Len(feed')
    /\ \A i \in 1 .. Len(feed) : feed'[i] = feed[i]
    /\ \A i \in Len(feed) + 1 .. Len(feed') : feed'[i] \in allowed
    /\ IsInjective(feed')
    /\ ended' \in BOOLEAN
    /\ allowed' = {}

\* The client gives the search up, or begins another after the last page.
BeginAgain ==
    /\ feed' = <<>> /\ ended' = FALSE
    /\ UNCHANGED allowed

Next == Observe \/ Deliver \/ BeginAgain

Spec == Init /\ [][Next]_vars

=============================================================================
