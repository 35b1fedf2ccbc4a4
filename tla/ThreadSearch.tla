---------------------------- MODULE ThreadSearch ----------------------------
(***************************************************************************)
(* gmail.search_threads: handleSearchThreads of internal/broker/server.go  *)
(* with the summaries of internal/gmailapi/thread.go, over a mailbox of    *)
(* threads whose messages are visible or hidden one by one.                *)
(*                                                                         *)
(* The code has the paging loop twice, for messages and for threads.  Here *)
(* the handler, the client and the world around them are translated from   *)
(* the second, and Loop says that it is the first, MessageSearch, over     *)
(* threads: a thread carries the labels of all of its messages.  What is   *)
(* its own is the summary, which is built from several messages.  The      *)
(* keyring answers here: what a handler does that waits for it is the same *)
(* for both searches, and MessageSearch has it.                            *)
(*                                                                         *)
(* A message is received when Gmail says so: every message has an internal *)
(* date, in ms, and the fallback of receivedAt to the Date header is not   *)
(* reached.  Subject and snippet are those of the newest message.          *)
(***************************************************************************)
EXTENDS Visibility, DraftReply

CONSTANTS
    Threads,
    ThreadOf,       \* the thread of each message
    MessageOrder,   \* all messages, as Gmail lists them in their threads
    Headers,        \* the From, To, Cc and Bcc of each message
    InternalDate,   \* of each message, in ms
    Tokens, NoToken, BareTokens, UserQueries, Limits, DefaultSearchLimit,
    MaxSearchResults, PolicyFiles, None, CallBudget,
                    \* as in MessageSearch
    MailStates,     \* the states the Gmail mailbox moves among
    MaxChanges, MaxFailures, MaxLost    \* bounds, as in MessageSearch

PageTokens == Tokens \cup {NoToken}

\* A page of users.threads.list, after extractThreadIDs.
ThreadPage == [threads : Seq(Threads), next : PageTokens]

MailState == [listing : [PageTokens -> ThreadPage],
              labels  : [Messages -> SUBSET Labels],
              present : SUBSET Messages,
              named   : SUBSET Labels]

People == [from : Seq(Value), to : Seq(Value), cc : Seq(Value), bcc : Seq(Value)]

ASSUME ThreadSearchAssumption ==
    /\ MessageOrder \in Seq(Messages)
    /\ IsInjective(MessageOrder) /\ Range(MessageOrder) = Messages
    /\ ThreadOf \in [Messages -> Threads]
    /\ Headers \in [Messages -> People]
    /\ InternalDate \in [Messages -> Nat \ {0}]
    /\ MailStates \subseteq MailState
    /\ PolicyFiles \subseteq Policy
    /\ NoToken \notin Tokens /\ BareTokens \subseteq Tokens
    /\ DefaultSearchLimit \in Nat \ {0}
    /\ MaxSearchResults \in Int
    /\ Limits \subseteq Int
    /\ {CallBudget, MaxChanges, MaxFailures, MaxLost} \subseteq Nat

VARIABLES
    mailbox, policyFile,        \* the world, as in MessageSearch
    pc, req, pol,               \* the handler: progress, request, policy
    pendingIDs, returnedIDs, gmailPageToken,
    threads,                    \* the summaries found so far
    calls, response,
    feed,                       \* the threads the client was told of
    feedToken, feedQueries, ended,
    views,          \* history: what the request's policy showed of the
                    \* mailbox, at each moment since it was loaded
    changes, failures, lost     \* what was used of the bounds

env    == <<mailbox, policyFile, changes>>
loop   == <<pendingIDs, returnedIDs, gmailPageToken, threads>>
client == <<feed, feedToken, feedQueries, ended>>
vars   == <<env, pc, req, pol, loop, calls, response, client, views, failures, lost>>

(***************************************************************************)
(* The mailbox, and what a policy shows of it.                             *)
(***************************************************************************)
MessagesOf(thread, there) ==
    Keep(MessageOrder, {m \in there : ThreadOf[m] = thread})

View(p, box) == {m \in box.present : AllowsMessage(p, m, box.labels[m])}

\* A mutant: one visible message shows its thread.
VisibleThreadMessages_Whole(p, box, thread) ==
    IF \E m \in View(p, box) : ThreadOf[m] = thread
    THEN MessagesOf(thread, box.present) ELSE <<>>

\* Each message of the thread is asked for; a thread may be shown in part.
VisibleThreadMessages(p, box, thread) ==
    Keep(MessagesOf(thread, box.present),
         {m \in box.present : AllowsMessage(p, m, box.labels[m])})

(***************************************************************************)
(* The summary of the visible messages of a thread.                        *)
(***************************************************************************)
\* last_message_at: a timestamp to the second, which sorts as text.
ReceivedAt(m) == InternalDate[m] \div 1000

\* The first address of From, and all of the other headers'.
MessageParticipants(m) ==
    LET h == Headers[m]
    IN  Range(Lower(SubSeq(h.from, 1, IF h.from = <<>> THEN 0 ELSE 1) \o h.to \o h.cc \o h.bcc))

\* A mutant: the last of the messages is taken for the newest.
SummaryNewest_Last(visible) == visible[Len(visible)]

\* newestMessage compares what is shown, not the dates Gmail keeps.
SummaryNewest(visible) == NewestMessage(visible, [m \in Messages |-> ReceivedAt(m)])

BuildThreadSummary(thread, visible) ==
    [thread        |-> thread,
     newest        |-> SummaryNewest(visible),      \* subject and snippet
     participants  |-> UNION {MessageParticipants(m) : m \in Range(visible)},
     count         |-> Len(visible),
     lastMessageAt |-> ReceivedAt(SummaryNewest(visible))]

Summary == [thread : Threads, newest : Messages, count : Nat, lastMessageAt : Nat,
            participants : SUBSET (Addresses \cup {Malformed})]

IDs(summaries) == [i \in DOMAIN summaries |-> summaries[i].thread]

-----------------------------------------------------------------------------
(***************************************************************************)
(* This search as a search for messages: a thread stands for a message     *)
(* with all the labels of its messages, and with a mark of its own when    *)
(* one of them is the owner's.                                             *)
(***************************************************************************)
Mark == "owner-sent"

AsMailbox(box) ==
    LET there(t) == {m \in box.present : ThreadOf[m] = t}
        own(t)   == \E m \in there(t) : m \in OwnerMessages \/ SentLabel \in box.labels[m]
    IN  [listing |-> [t \in PageTokens |-> [messages |-> box.listing[t].threads,
                                            next     |-> box.listing[t].next]],
         labels  |-> [t \in Threads |-> (IF own(t) THEN {Mark} ELSE {}) \cup
                                        UNION {box.labels[m] : m \in there(t)}],
         present |-> {ThreadOf[m] : m \in box.present},
         named   |-> box.named]

AsMailboxes == {AsMailbox(box) : box \in MailStates}

Loop == INSTANCE MessageSearch WITH
    Messages        <- Threads,
    OwnerMessages   <- {},
    Labels          <- Labels \cup {Mark},
    SentLabel       <- Mark,
    Mailboxes       <- AsMailboxes,
    mailbox         <- AsMailbox(mailbox),
    stuck           <- FALSE,
    req             <- IF req = None THEN None
                       ELSE [userQuery |-> req.userQuery, pageToken |-> req.pageToken,
                             limit |-> req.limit, wantDetail |-> FALSE],
    visibleMessages <- IDs(threads),
    shaped          <- 0,
    response        <- IF response = None THEN None
                       ELSE [code |-> response.code, messages |-> IDs(response.threads),
                             pageToken |-> response.pageToken],
    witnessed       <- {ThreadOf[m] : m \in UNION views}

Request == [userQuery : UserQueries, pageToken : Loop!PageToken, limit : Limits]

Response == [code : Loop!Codes, threads : Seq(Summary), pageToken : Loop!PageToken]

\* The mark is no label, and None is nothing else.
ASSUME LoopAssumption ==
    /\ Mark \notin Labels \cup {NoLabel}
    /\ None \notin Policy /\ None \notin SearchQueries(UserQueries)
    /\ None \notin Request /\ None \notin Response
    /\ None \notin Loop!Policy /\ None \notin Loop!SearchQueries(UserQueries)
    /\ None \notin Loop!Request /\ None \notin Loop!Response

Failure(code) == [code |-> code, threads |-> <<>>, pageToken |-> Loop!FirstPage]

EffectiveQuery == SearchQuery(pol, req.userQuery)
Limit == Loop!NormalizeSearchLimit(req.limit, MaxSearchResults)

-----------------------------------------------------------------------------
Init ==
    /\ mailbox \in MailStates /\ policyFile \in PolicyFiles
    /\ pc = "idle" /\ req = None /\ pol = None /\ response = None
    /\ pendingIDs = <<>> /\ returnedIDs = <<>> /\ threads = <<>>
    /\ gmailPageToken = NoToken /\ calls = 0
    /\ feed = <<>> /\ feedToken = Loop!FirstPage /\ feedQueries = {} /\ ended = FALSE
    /\ views = {}
    /\ changes = 0 /\ failures = 0 /\ lost = 0

MailboxChanges ==
    /\ changes < MaxChanges /\ changes' = changes + 1
    /\ mailbox' \in MailStates \ {mailbox}
    /\ views' = IF pol = None THEN views ELSE views \cup {View(pol, mailbox')}
    /\ UNCHANGED <<policyFile, pc, req, pol, loop, calls, response, client,
                   failures, lost>>

PolicyFileChanges ==
    /\ changes < MaxChanges /\ changes' = changes + 1
    /\ policyFile' \in PolicyFiles \ {policyFile}
    /\ UNCHANGED <<mailbox, pc, req, pol, loop, calls, response, client, views,
                   failures, lost>>

Ask ==
    /\ pc = "idle" /\ ~ended
    /\ \E uq \in UserQueries, l \in Limits :
          req' = [userQuery |-> uq, pageToken |-> feedToken, limit |-> l]
    /\ pc' = "policy" /\ calls' = 0
    /\ UNCHANGED <<env, pol, loop, response, client, views, failures, lost>>

BeginAgain ==
    /\ pc = "idle"
    /\ ended \/ feedToken.form \in {"broker", "foreign"}
    /\ feedToken' \in {Loop!FirstPage, Loop!ForeignToken}
                      \cup {Loop!BareToken(t) : t \in BareTokens}
    /\ feed' = <<>> /\ feedQueries' = {} /\ ended' = FALSE
    /\ UNCHANGED <<env, pc, req, pol, loop, calls, response, views, failures, lost>>

(***************************************************************************)
(* The handler.                                                            *)
(***************************************************************************)
ClearHandler ==
    /\ pc' = "idle" /\ req' = None /\ pol' = None /\ response' = None
    /\ pendingIDs' = <<>> /\ returnedIDs' = <<>> /\ threads' = <<>>
    /\ gmailPageToken' = NoToken /\ calls' = 0 /\ views' = {}

RespondWith(r) == response' = r /\ pc' = "respond"

UseCall == calls < CallBudget /\ calls' = calls + 1

LoadPolicy ==
    /\ pc = "policy"
    /\ pol' = policyFile
    /\ views' = {View(policyFile, mailbox)}
    /\ pc' = IF policyFile.visibilityLabel = NoLabel THEN "start" ELSE "resolve"
    /\ UNCHANGED <<env, req, loop, calls, response, client, failures, lost>>

OpenFails ==
    /\ pc = "policy"
    /\ failures < MaxFailures /\ failures' = failures + 1
    /\ RespondWith(Failure("internal_error"))
    /\ UNCHANGED <<env, req, pol, loop, calls, client, views, lost>>

ResolveVisibilityLabel ==
    /\ pc = "resolve"
    /\ UseCall
    /\ IF pol.visibilityLabel \in mailbox.named
       THEN pc' = "start" /\ UNCHANGED response
       ELSE RespondWith(Failure("internal_error"))
    /\ UNCHANGED <<env, req, pol, loop, client, views, failures, lost>>

\* A mutant: what is pending is begun afresh.
PendingOf_Dropped(token) == <<>>

\* The pending threads of a cursor; the cursor's kind, another check that a
\* cursor belongs to this search, is part of what its query is compared for.
PendingOf(token) == UniqueIDsExcluding(token.pendingIDs, Range(token.returnedIDs))

StartSearch ==
    /\ pc = "start"
    /\ IF ~HasVisibleSearchScope(pol)
       THEN /\ RespondWith([code |-> "ok", threads |-> <<>>, pageToken |-> Loop!FirstPage])
            /\ UNCHANGED <<pendingIDs, returnedIDs, gmailPageToken>>
       ELSE IF ~Loop!DecodesUnder(req.pageToken, EffectiveQuery)
       THEN /\ RespondWith(Failure("invalid_params"))
            /\ UNCHANGED <<pendingIDs, returnedIDs, gmailPageToken>>
       ELSE /\ pendingIDs' = PendingOf(req.pageToken)
            /\ returnedIDs' = req.pageToken.returnedIDs
            /\ gmailPageToken' = req.pageToken.gmailPageToken
            /\ pc' = "loop"
            /\ UNCHANGED response
    /\ UNCHANGED <<env, req, pol, threads, calls, client, views, failures, lost>>

Wanting  == pc = "loop" /\ Len(threads) < Limit
FetchDue == Wanting /\ pendingIDs = <<>>
HeadDue  == Wanting /\ pendingIDs # <<>>
HeadThere == MessagesOf(Head(pendingIDs), mailbox.present)

FetchPage ==
    /\ FetchDue
    /\ UseCall
    /\ LET page     == mailbox.listing[gmailPageToken]
           repeated == gmailPageToken # NoToken /\ page.next = gmailPageToken
           fresh    == UniqueIDsExcluding(page.threads, Range(returnedIDs))
       IN  IF repeated
           THEN gmailPageToken' = NoToken /\ pc' = "stop" /\ UNCHANGED pendingIDs
           ELSE /\ pendingIDs' = fresh /\ gmailPageToken' = page.next
                /\ pc' = IF fresh = <<>> /\ page.next = NoToken THEN "stop" ELSE "loop"
    /\ UNCHANGED <<env, req, pol, returnedIDs, threads, response, client, views,
                   failures, lost>>

\* A mutant: a thread is remembered only when it fills the answer.
Remembered_Last(thread) == IF Len(threads) + 1 = Limit THEN Append(returnedIDs, thread)
                           ELSE returnedIDs

Remembered(thread) == Append(returnedIDs, thread)

\* The metadata of all messages of the next pending thread, at once.
ReadThread ==
    /\ HeadDue
    /\ HeadThere # <<>>
    /\ UseCall
    /\ pendingIDs' = Tail(pendingIDs)
    /\ LET thread  == Head(pendingIDs)
           visible == VisibleThreadMessages(pol, mailbox, thread)
       IN  IF thread \notin Range(returnedIDs) /\ visible # <<>>
           THEN /\ threads' = Append(threads, BuildThreadSummary(thread, visible))
                /\ returnedIDs' = Remembered(thread)
           ELSE UNCHANGED <<threads, returnedIDs>>
    /\ UNCHANGED <<env, pc, req, pol, gmailPageToken, response, client, views,
                   failures, lost>>

EndSearch ==
    /\ pc = "stop" \/ (pc = "loop" /\ ~Wanting)
    /\ RespondWith([code |-> "ok", threads |-> threads,
                    pageToken |-> Loop!EncodeSearchPageToken(EffectiveQuery, pendingIDs,
                                                             returnedIDs, gmailPageToken)])
    /\ UNCHANGED <<env, req, pol, loop, calls, client, views, failures, lost>>

CallDue == pc = "resolve" \/ FetchDue \/ HeadDue

NotFound ==
    /\ HeadDue /\ HeadThere = <<>>
    /\ UseCall
    /\ RespondWith(Failure(Loop!MapGmailError("404")))
    /\ UNCHANGED <<env, req, pol, loop, client, views, failures, lost>>

GmailFails ==
    /\ CallDue
    /\ UseCall
    /\ failures < MaxFailures /\ failures' = failures + 1
    /\ \E status \in {"429", "5xx"} : RespondWith(Failure(Loop!MapGmailError(status)))
    /\ UNCHANGED <<env, req, pol, loop, client, views, lost>>

DeadlineExceeded ==
    /\ CallDue
    /\ calls = CallBudget
    /\ RespondWith(Failure(Loop!MapGmailError("deadline")))
    /\ UNCHANGED <<env, req, pol, loop, calls, client, views, failures, lost>>

Answer ==
    /\ pc = "respond"
    /\ IF response.code = "ok"
       THEN /\ feed' = feed \o IDs(response.threads)
            /\ feedToken' = response.pageToken
            /\ feedQueries' = IF response.threads = <<>> THEN feedQueries
                              ELSE feedQueries \cup {EffectiveQuery}
            /\ ended' = (response.pageToken = Loop!FirstPage)
       ELSE UNCHANGED client
    /\ ClearHandler
    /\ UNCHANGED <<env, failures, lost>>

LoseAnswer ==
    /\ pc # "idle"
    /\ lost < MaxLost /\ lost' = lost + 1
    /\ ClearHandler
    /\ UNCHANGED <<env, client, failures>>

Handler ==
    \/ LoadPolicy \/ OpenFails \/ ResolveVisibilityLabel \/ StartSearch
    \/ FetchPage \/ ReadThread \/ EndSearch
    \/ NotFound \/ GmailFails \/ DeadlineExceeded \/ Answer

Next ==
    \/ MailboxChanges \/ PolicyFileChanges \/ Ask \/ BeginAgain
    \/ Handler \/ LoseAnswer

Spec == Init /\ [][Next]_vars

-----------------------------------------------------------------------------
\* The variables have the types their comments say; those that are not named
\* here have the types of the message search (Loop).
TypeOK ==
    /\ mailbox \in MailStates /\ Loop!TypeOK
    /\ threads \in Seq(Summary)
    /\ response = None \/ response.threads \in Seq(Summary)
    /\ views \in SUBSET SUBSET Messages

\* The messages of a thread that a view shows, in Gmail's order.
Shown(thread, view) == MessagesOf(thread, view)

\* s is what a look at the mailbox that showed view says of the thread.
Describes(s, view) ==
    LET shown == Range(Shown(s.thread, view))
    IN  /\ s.newest \in shown /\ s.count = Cardinality(shown)
        /\ s.participants = UNION {MessageParticipants(m) : m \in shown}
        /\ \A m \in shown : ReceivedAt(m) <= s.lastMessageAt

\* Each summary tells of exactly the messages of its thread that were visible
\* at one moment of the request: it is no mixture of two looks at the mailbox,
\* and nobody takes part in it who only wrote or received hidden messages
\* (docs/safe-gmail-rpc-schema.md: it must not leak participants from filtered
\* messages, and omit threads without visible ones).
SummariesAreOneView ==
    \A s \in Range(threads) \cup (IF response = None THEN {} ELSE Range(response.threads)) :
        \E view \in views : Describes(s, view)

\* A reply to the thread that is drafted at the moment a summary tells of is a
\* reply to the message the summary shows.  The two handlers choose by different
\* dates, so when two messages came within a second it may be the other one, but
\* last_message_at is that of the message replied to all the same.
ReplyAnswersWhatIsListed ==
    \A s \in Range(threads) :
        \E view \in views :
            /\ Describes(s, view)
            /\ LET shown  == Shown(s.thread, view)
                   anchor == NewestMessage(shown, InternalDate)
               IN  /\ ReceivedAt(anchor) = s.lastMessageAt
                   /\ anchor # s.newest =>
                        /\ ReceivedAt(s.newest) = ReceivedAt(anchor)
                        /\ InternalDate[s.newest] < InternalDate[anchor]

\* Where Gmail's listing is sound and stands still, a feed that reached its end
\* has every listed thread with a visible message, though it may have come by
\* it through hidden ones and several pages.
ThreadFeedIsComplete ==
    (\A t \in PageTokens \ {NoToken} : mailbox.listing[t].next # t) => Loop!FeedIsComplete

\* The search for threads is the search for messages, over threads: its feed,
\* its cursors and its answers are what MessageSearch allows.
LoopSpec == Loop!Spec

=============================================================================
