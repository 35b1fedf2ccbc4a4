----------------------------- MODULE Visibility -----------------------------
(***************************************************************************)
(* The visibility policy of the broker (internal/policy/policy.go and the  *)
(* policy half of gmailRuntime in internal/broker/server.go).              *)
(*                                                                         *)
(* A policy names at most one Gmail label and says whether the owner's own *)
(* sent mail is visible.  A message is abstracted to its identifier, the   *)
(* set of labels it carries in the mailbox, and whether its From header is *)
(* the owner (OwnerMessages: headers never change).                        *)
(***************************************************************************)

CONSTANTS
    Messages,       \* message identifiers
    Labels,         \* Gmail label identifiers
    SentLabel,      \* Gmail's system label SENT
    NoLabel,        \* a policy file without visibility_label
    OwnerMessages   \* the messages whose From header is the mailbox owner

ASSUME VisibilityAssumption ==
    /\ SentLabel \in Labels
    /\ NoLabel \notin Labels
    /\ OwnerMessages \subseteq Messages

\* A policy file, and the Policy loaded from it for one request.
Policy == [visibilityLabel : Labels \cup {NoLabel}, allowOwnerSent : BOOLEAN]

HasVisibilityLabel(pol, labelIDs) ==
    pol.visibilityLabel # NoLabel /\ pol.visibilityLabel \in labelIDs

IsOwnerSent(pol, m, labelIDs) ==
    pol.allowOwnerSent /\ (m \in OwnerMessages \/ SentLabel \in labelIDs)

AllowsMessage(pol, m, labelIDs) ==
    HasVisibilityLabel(pol, labelIDs) \/ IsOwnerSent(pol, m, labelIDs)

\* Whether the policy can show anything at all; a search asks before Gmail.
HasVisibleSearchScope(pol) ==
    pol.visibilityLabel # NoLabel \/ pol.allowOwnerSent

\* The query sent to Gmail is the caller's with the policy's clauses added, so
\* two requests have one effective query when the caller's query and both
\* clauses agree.
SearchQuery(pol, userQuery) ==
    [user |-> userQuery, label |-> pol.visibilityLabel, sent |-> pol.allowOwnerSent]

SearchQueries(userQueries) ==
    [user : userQueries, label : Labels \cup {NoLabel}, sent : BOOLEAN]

=============================================================================
