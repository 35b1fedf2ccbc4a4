---------------------------- MODULE MessageSearch ---------------------------
(***************************************************************************)
(* gmail.search_messages: handleSearchMessages, searchVisibleMessages and  *)
(* the page-token cursor of internal/broker/server.go, with the client     *)
(* that follows next_page_token and the mailbox the search reads.          *)
(*                                                                         *)
(* Gmail is external.  Every call is one step, so that the mailbox and the *)
(* policy file may change between any two calls of one request.  A         *)
(* request's 30 s context is a budget of CallBudget Gmail calls: the call  *)
(* after the last one fails as a deadline does.  Two `continue`s of the    *)
(* loop are never reached and not modelled: for a blank identifier, and    *)
(* for a pending one that was returned.  uniqueIDsExcluding drops both     *)
(* wherever pendingIDs is filled.                                          *)
(*                                                                         *)
(* The keyring is external too.  Opening the runtime loads the token from  *)
(* it, and a Gmail call that refreshed the token saves it there.  Neither  *)
(* has a deadline, so a handler may wait for it for ever.                  *)
(***************************************************************************)
EXTENDS Visibility, SearchIDs

CONSTANTS
    Tokens, NoToken,    \* Gmail page tokens; the empty one
    BareTokens,         \* the Gmail tokens a client may begin at
    UserQueries,        \* the caller's query strings
    Limits,             \* the limit parameters callers send
    DefaultSearchLimit, \* defaultSearchLimit (20 in the code)
    MaxSearchResults,   \* the configured max_search_results
    Mailboxes,          \* the states the Gmail mailbox moves among
    PolicyFiles,        \* the contents the operator gives the policy file
    None,               \* no value: no request, no policy, no response
    CallBudget,         \* Gmail calls that fit into a request's context
    MaxChanges,         \* bound: changes of the mailbox or the policy file
    MaxFailures,        \* bound: Gmail calls and runtime openings that fail, and
                        \* times the keyring does not answer
    MaxLost             \* bound: answers the client never receives

PageTokens == Tokens \cup {NoToken}

\* A page of users.messages.list, after extractMessageIDs.
GmailPage == [messages : Seq(Messages), next : PageTokens]

Mailbox == [listing : [PageTokens -> GmailPage],      \* what each page token lists
            labels  : [Messages -> SUBSET Labels],
            present : SUBSET Messages,                \* not permanently deleted
            named   : SUBSET Labels]                  \* labels that still exist

ASSUME SearchAssumption ==
    /\ NoToken \notin Tokens /\ BareTokens \subseteq Tokens
    /\ DefaultSearchLimit \in Nat \ {0}
    /\ MaxSearchResults \in Int
    /\ Limits \subseteq Int
    /\ Mailboxes \subseteq Mailbox
    /\ PolicyFiles \subseteq Policy
    /\ {CallBudget, MaxChanges, MaxFailures, MaxLost} \subseteq Nat
    /\ None \notin Policy
    /\ None \notin SearchQueries(UserQueries)

VARIABLES
    mailbox,        \* Gmail's current state
    policyFile,     \* the policy file's current content
    stuck,          \* the keyring does not answer
    pc,             \* how far the handler is
    req,            \* the request being handled
    pol,            \* the policy loaded for it
    pendingIDs, returnedIDs, gmailPageToken, visibleMessages,
    shaped,         \* full messages fetched for a detailed response
    calls,          \* Gmail calls made under the request's context
    response,
    feed,           \* what the client received since it began this search
    feedToken,      \* the page token it will send next
    feedQueries,    \* history: the effective queries feed was found under
    ended,          \* the last response had no next_page_token
    witnessed,      \* history: messages the request's policy allowed, at some
                    \* moment since it was loaded
    changes, failures, lost     \* what was used of the bounds

env     == <<mailbox, policyFile, stuck, changes>>
loop    == <<pendingIDs, returnedIDs, gmailPageToken, visibleMessages>>
client  == <<feed, feedToken, feedQueries, ended>>
vars    == <<env, pc, req, pol, loop, shaped, calls, response, client,
             witnessed, failures, lost>>

(***************************************************************************)
(* Requests, page tokens and responses.                                    *)
(***************************************************************************)

\* The opaque page_token.  A cursor issued by the broker carries the query it
\* is valid for; a bare Gmail token is accepted; "first" is the empty token,
\* which both asks for the first page and says that there is no next one;
\* "foreign" has the broker's prefix but is malformed, of another version or of
\* the other search.
PageToken == [form : {"first", "gmail", "broker", "foreign"},
              query : SearchQueries(UserQueries) \cup {None},
              pendingIDs : Seq(Messages), returnedIDs : Seq(Messages),
              gmailPageToken : PageTokens]

FirstPage == [form |-> "first", query |-> None, pendingIDs |-> <<>>,
              returnedIDs |-> <<>>, gmailPageToken |-> NoToken]

BareToken(t) == [form |-> "gmail", query |-> None, pendingIDs |-> <<>>,
                 returnedIDs |-> <<>>, gmailPageToken |-> t]

ForeignToken == [form |-> "foreign", query |-> None, pendingIDs |-> <<>>,
                 returnedIDs |-> <<>>, gmailPageToken |-> NoToken]

Request == [userQuery : UserQueries, pageToken : PageToken, limit : Limits,
            wantDetail : BOOLEAN]

Codes == {"ok", "internal_error", "invalid_params", "not_found",
          "rate_limited", "gmail_api_error"}

Response == [code : Codes, messages : Seq(Messages), pageToken : PageToken]

ASSUME NoneAssumption == None \notin Response /\ None \notin Request

Failure(code) == [code |-> code, messages |-> <<>>, pageToken |-> FirstPage]

MapGmailError(status) ==
    CASE status = "404" -> "not_found"
      [] status = "429" -> "rate_limited"
      [] OTHER -> "gmail_api_error"     \* 5xx, the context's deadline, the rest

NormalizeSearchLimit(limit, configured) ==
    LET max == IF configured <= 0 THEN DefaultSearchLimit ELSE configured
    IN  IF limit <= 0
        THEN IF DefaultSearchLimit < max THEN DefaultSearchLimit ELSE max
        ELSE IF limit > max THEN max ELSE limit

\* A mutant: the cursor's query is not compared.
DecodesUnder_Unchecked(token, query) == token.form # "foreign"

\* A cursor is honoured only by the search and under the query it was issued for.
DecodesUnder(token, query) ==
    token.form # "foreign" /\ (token.form = "broker" => token.query = query)

\* Mutants: the returned identifiers are left out; pending identifiers do not
\* count as a next page; there always is a next page.
EncodeSearchPageToken_ForgetsReturned(query, pending, returned, token) ==
    IF pending = <<>> /\ token = NoToken
    THEN FirstPage
    ELSE [form |-> "broker", query |-> query, pendingIDs |-> pending,
          returnedIDs |-> <<>>, gmailPageToken |-> token]
EncodeSearchPageToken_ForgetsPending(query, pending, returned, token) ==
    IF token = NoToken
    THEN FirstPage
    ELSE [form |-> "broker", query |-> query, pendingIDs |-> pending,
          returnedIDs |-> returned, gmailPageToken |-> token]
EncodeSearchPageToken_Endless(query, pending, returned, token) ==
    [form |-> "broker", query |-> query, pendingIDs |-> pending,
     returnedIDs |-> returned, gmailPageToken |-> token]

\* The next page token: empty when nothing is pending and Gmail has no more.
EncodeSearchPageToken(query, pending, returned, token) ==
    IF pending = <<>> /\ token = NoToken
    THEN FirstPage
    ELSE [form |-> "broker", query |-> query, pendingIDs |-> pending,
          returnedIDs |-> returned, gmailPageToken |-> token]

EffectiveQuery == SearchQuery(pol, req.userQuery)
Limit == NormalizeSearchLimit(req.limit, MaxSearchResults)

\* The messages policy p allows in mailbox b.
Allowed(p, b) == {m \in Messages : AllowsMessage(p, m, b.labels[m])}

-----------------------------------------------------------------------------

Init ==
    /\ mailbox \in Mailboxes
    /\ policyFile \in PolicyFiles /\ stuck = FALSE
    /\ pc = "idle" /\ req = None /\ pol = None /\ response = None
    /\ pendingIDs = <<>> /\ returnedIDs = <<>> /\ visibleMessages = <<>>
    /\ gmailPageToken = NoToken
    /\ shaped = 0 /\ calls = 0
    /\ feed = <<>> /\ feedToken = FirstPage /\ feedQueries = {} /\ ended = FALSE
    /\ witnessed = {}
    /\ changes = 0 /\ failures = 0 /\ lost = 0

(***************************************************************************)
(* The world around the handler.                                           *)
(***************************************************************************)

\* Mail arrives, is relabelled, moves to another page or is deleted.  What
\* changed need not be what a search sees.
MailboxChanges ==
    /\ changes < MaxChanges
    /\ mailbox' \in Mailboxes
    /\ changes' = changes + 1
    /\ witnessed' = IF pol = None THEN witnessed
                    ELSE witnessed \cup Allowed(pol, mailbox')
    /\ UNCHANGED <<policyFile, stuck, pc, req, pol, loop, shaped, calls, response,
                   client, failures, lost>>

\* The operator edits the policy file; a request reads it once.
PolicyFileChanges ==
    /\ changes < MaxChanges
    /\ policyFile' \in PolicyFiles \ {policyFile}
    /\ changes' = changes + 1
    /\ UNCHANGED <<mailbox, stuck, pc, req, pol, loop, shaped, calls, response,
                   client, witnessed, failures, lost>>

\* The keyring is locked, or waits for the user, or its service hangs.
KeyringSticks ==
    /\ ~stuck /\ stuck' = TRUE
    /\ failures < MaxFailures /\ failures' = failures + 1
    /\ UNCHANGED <<mailbox, policyFile, changes, pc, req, pol, loop, shaped, calls,
                   response, client, witnessed, lost>>

\* It answers again, if it ever does; meanwhile the request's context may be over.
KeyringRecovers ==
    /\ stuck /\ stuck' = FALSE
    /\ calls' \in {calls} \cup (IF pc = "idle" THEN {} ELSE {CallBudget})
    /\ UNCHANGED <<mailbox, policyFile, changes, pc, req, pol, loop, shaped,
                   response, client, witnessed, failures, lost>>

\* The client asks for the page its token names.
Ask ==
    /\ pc = "idle" /\ ~ended
    /\ \E uq \in UserQueries, l \in Limits, detail \in BOOLEAN :
          req' = [userQuery |-> uq, pageToken |-> feedToken, limit |-> l,
                  wantDetail |-> detail]
    /\ pc' = "policy" /\ calls' = 0
    /\ UNCHANGED <<env, pol, loop, shaped, response, client, witnessed,
                   failures, lost>>

\* The client begins a search afresh, from the first page or from a token that
\* no response of this search gave it.
BeginAgain ==
    /\ pc = "idle"
    /\ ended \/ feedToken.form \in {"broker", "foreign"}
    /\ feedToken' \in {FirstPage, ForeignToken} \cup {BareToken(t) : t \in BareTokens}
    /\ feed' = <<>> /\ feedQueries' = {} /\ ended' = FALSE
    /\ UNCHANGED <<env, pc, req, pol, loop, shaped, calls, response, witnessed,
                   failures, lost>>

(***************************************************************************)
(* The handler.                                                            *)
(***************************************************************************)

ClearHandler ==
    /\ pc' = "idle" /\ req' = None /\ pol' = None /\ response' = None
    /\ pendingIDs' = <<>> /\ returnedIDs' = <<>> /\ visibleMessages' = <<>>
    /\ gmailPageToken' = NoToken
    /\ shaped' = 0 /\ calls' = 0 /\ witnessed' = {}

RespondWith(r) == response' = r /\ pc' = "respond"

\* Mutants: one call too many; a call that costs nothing.
UseCall_OneTooMany == calls <= CallBudget /\ calls' = calls + 1
UseCall_Uncounted == calls < CallBudget /\ UNCHANGED calls

\* One more Gmail call is made while the request's context lasts.
UseCall == calls < CallBudget /\ calls' = calls + 1

\* openGmailRuntime: the policy file is read for this request alone, and then the
\* token from the keyring.
LoadPolicy ==
    /\ pc = "policy" /\ ~stuck
    /\ pol' = policyFile
    /\ witnessed' = Allowed(policyFile, mailbox)
    /\ pc' = IF policyFile.visibilityLabel = NoLabel THEN "start" ELSE "resolve"
    /\ UNCHANGED <<env, req, loop, shaped, calls, response, client, failures, lost>>

\* The policy file does not parse, no token is stored for the account, or the
\* system's keyring was not open after 5 s.
OpenFails ==
    /\ pc = "policy"
    /\ IF stuck THEN UNCHANGED failures
       ELSE failures < MaxFailures /\ failures' = failures + 1
    /\ RespondWith(Failure("internal_error"))
    /\ UNCHANGED <<env, req, pol, loop, shaped, calls, client, witnessed, lost>>

\* The label's name is looked up among the mailbox's labels.
ResolveVisibilityLabel ==
    /\ pc = "resolve"
    /\ UseCall
    /\ IF pol.visibilityLabel \in mailbox.named
       THEN pc' = "start" /\ UNCHANGED response
       ELSE RespondWith(Failure("internal_error"))
    /\ UNCHANGED <<env, req, pol, loop, shaped, client, witnessed, failures, lost>>

\* handleSearchMessages up to the loop: scope, cursor, the loop's variables.
StartSearch ==
    /\ pc = "start"
    /\ \/ /\ ~HasVisibleSearchScope(pol)
          /\ RespondWith([code |-> "ok", messages |-> <<>>, pageToken |-> FirstPage])
          /\ UNCHANGED <<pendingIDs, returnedIDs, gmailPageToken>>
       \/ /\ HasVisibleSearchScope(pol)
          /\ ~DecodesUnder(req.pageToken, EffectiveQuery)
          /\ RespondWith(Failure("invalid_params"))
          /\ UNCHANGED <<pendingIDs, returnedIDs, gmailPageToken>>
       \/ /\ HasVisibleSearchScope(pol)
          /\ DecodesUnder(req.pageToken, EffectiveQuery)
          /\ pendingIDs' = UniqueIDsExcluding(req.pageToken.pendingIDs,
                                              Range(req.pageToken.returnedIDs))
          /\ returnedIDs' = req.pageToken.returnedIDs
          /\ gmailPageToken' = req.pageToken.gmailPageToken
          /\ pc' = "loop"
          /\ UNCHANGED response
    /\ UNCHANGED <<env, req, pol, visibleMessages, shaped, calls, client,
                   witnessed, failures, lost>>

\* The loop's condition, and which of its two halves is due.
Wanting  == pc = "loop" /\ Len(visibleMessages) < Limit
FetchDue == Wanting /\ pendingIDs = <<>>
HeadDue  == Wanting /\ pendingIDs # <<>>

\* A page with nothing new on it ends the search when Gmail names no next one.
Exhausted(fresh, next) == fresh = <<>> /\ next = NoToken

\* Nothing is pending: list the page the current token names.
FetchPage ==
    /\ FetchDue
    /\ UseCall
    /\ LET page     == mailbox.listing[gmailPageToken]
           repeated == gmailPageToken # NoToken /\ page.next = gmailPageToken
           fresh    == UniqueIDsExcluding(page.messages, Range(returnedIDs))
       IN  IF repeated
           THEN /\ gmailPageToken' = NoToken /\ pc' = "stop"
                /\ UNCHANGED pendingIDs
           ELSE /\ pendingIDs' = fresh
                /\ gmailPageToken' = page.next
                /\ pc' = IF Exhausted(fresh, page.next) THEN "stop" ELSE "loop"
    /\ UNCHANGED <<env, req, pol, returnedIDs, visibleMessages, shaped, response,
                   client, witnessed, failures, lost>>

\* A mutant: the policy is not asked.
Returnable_Unchecked(m) == m \notin Range(returnedIDs)

\* The message was not returned before, and the policy allows it now.
Returnable(m) ==
    m \notin Range(returnedIDs) /\ AllowsMessage(pol, m, mailbox.labels[m])

\* The metadata of the next pending message decides whether it is returned.
ReadMetadata ==
    /\ HeadDue
    /\ Head(pendingIDs) \in mailbox.present
    /\ UseCall
    /\ pendingIDs' = Tail(pendingIDs)
    /\ LET m == Head(pendingIDs)
       IN  IF Returnable(m)
           THEN /\ visibleMessages' = Append(visibleMessages, m)
                /\ returnedIDs' = Append(returnedIDs, m)
           ELSE UNCHANGED <<visibleMessages, returnedIDs>>
    /\ UNCHANGED <<env, pc, req, pol, gmailPageToken, shaped, response, client,
                   witnessed, failures, lost>>

\* The loop is over: what is left becomes the next page token.
EndSearch ==
    /\ pc = "stop" \/ (pc = "loop" /\ ~Wanting)
    /\ response' = [code |-> "ok", messages |-> visibleMessages,
                    pageToken |-> EncodeSearchPageToken(EffectiveQuery, pendingIDs,
                                                        returnedIDs, gmailPageToken)]
    /\ pc' = IF req.wantDetail THEN "detail" ELSE "respond"
    /\ UNCHANGED <<env, req, pol, loop, shaped, calls, client, witnessed,
                   failures, lost>>

\* include_body or include_attachments: fetch the messages one by one.
DetailDue == pc = "detail" /\ shaped < Len(visibleMessages)

ReadFull ==
    /\ DetailDue
    /\ visibleMessages[shaped + 1] \in mailbox.present
    /\ UseCall
    /\ shaped' = shaped + 1
    /\ UNCHANGED <<env, pc, req, pol, loop, response, client, witnessed,
                   failures, lost>>

EndDetail ==
    /\ pc = "detail" /\ ~DetailDue
    /\ pc' = "respond"
    /\ UNCHANGED <<env, req, pol, loop, shaped, calls, response, client,
                   witnessed, failures, lost>>

(***************************************************************************)
(* Gmail calls that fail end the request.                                  *)
(***************************************************************************)
CallDue == pc = "resolve" \/ FetchDue \/ HeadDue \/ DetailDue

\* The message a metadata or full read is about was permanently deleted.
NotFound ==
    /\ \/ HeadDue /\ Head(pendingIDs) \notin mailbox.present
       \/ DetailDue /\ visibleMessages[shaped + 1] \notin mailbox.present
    /\ UseCall
    /\ RespondWith(Failure(MapGmailError("404")))
    /\ UNCHANGED <<env, req, pol, loop, shaped, client, witnessed, failures, lost>>

GmailFails ==
    /\ CallDue
    /\ UseCall
    /\ failures < MaxFailures /\ failures' = failures + 1
    /\ \E status \in {"429", "5xx"} : RespondWith(Failure(MapGmailError(status)))
    /\ UNCHANGED <<env, req, pol, loop, shaped, client, witnessed, lost>>

DeadlineExceeded ==
    /\ CallDue
    /\ calls = CallBudget
    /\ RespondWith(Failure(MapGmailError("deadline")))
    /\ UNCHANGED <<env, req, pol, loop, shaped, calls, client, witnessed,
                   failures, lost>>

(***************************************************************************)
(* The answer reaches the client, or does not: its deadline passed, the    *)
(* connection broke or the daemon went away.  A client that got no answer  *)
(* or an error still holds the token it sent.                              *)
(***************************************************************************)
Answer ==
    /\ pc = "respond"
    /\ IF response.code = "ok"
       THEN /\ feed' = feed \o response.messages
            /\ feedToken' = response.pageToken
            /\ feedQueries' = IF response.messages = <<>> THEN feedQueries
                              ELSE feedQueries \cup {EffectiveQuery}
            /\ ended' = (response.pageToken = FirstPage)
       ELSE UNCHANGED client
    /\ ClearHandler
    /\ UNCHANGED <<env, failures, lost>>

LoseAnswer ==
    /\ pc # "idle"
    /\ lost < MaxLost /\ lost' = lost + 1
    /\ ClearHandler
    /\ UNCHANGED <<env, client, failures>>

Handler ==
    \/ LoadPolicy \/ OpenFails \/ ResolveVisibilityLabel \/ StartSearch
    \/ FetchPage \/ ReadMetadata \/ EndSearch \/ ReadFull \/ EndDetail
    \/ NotFound \/ GmailFails \/ DeadlineExceeded \/ Answer

Next ==
    \/ MailboxChanges \/ PolicyFileChanges
    \/ KeyringSticks \/ KeyringRecovers
    \/ Ask \/ BeginAgain
    \/ Handler \/ LoseAnswer

Spec == Init /\ [][Next]_vars

\* The handler's goroutine gets on where the keyring answers, however often it
\* sticks in between: Gmail's calls end with the request's context.  Nothing is
\* assumed of the keyring, and nothing of a handler while it is stuck.
HandlerRuns == SF_vars(~stuck /\ Handler)
FairSpec == Spec /\ HandlerRuns

-----------------------------------------------------------------------------

WorldType ==
    /\ mailbox \in Mailboxes /\ policyFile \in PolicyFiles
    /\ changes \in 0 .. MaxChanges /\ failures \in 0 .. MaxFailures
    /\ lost \in 0 .. MaxLost
    /\ stuck \in BOOLEAN /\ (stuck => failures # 0)

HandlerType ==
    /\ pc \in {"idle", "policy", "resolve", "start", "loop", "stop", "detail", "respond"}
    /\ req \in Request \cup {None} /\ pol \in PolicyFiles \cup {None}
    /\ calls \in 0 .. CallBudget
    /\ response \in Response \cup {None}
    /\ witnessed \in SUBSET Messages

CursorType ==
    /\ pendingIDs \in Seq(Messages) /\ returnedIDs \in Seq(Messages)
    /\ gmailPageToken \in PageTokens /\ visibleMessages \in Seq(Messages)
    /\ shaped \in 0 .. Len(visibleMessages)

ClientType ==
    /\ feed \in Seq(Messages) /\ feedToken \in PageToken
    /\ feedQueries \in SUBSET SearchQueries(UserQueries) /\ ended \in BOOLEAN

\* The variables have the types their comments say.
TypeOK == WorldType /\ HandlerType /\ CursorType /\ ClientType

\* A client that follows next_page_token, retrying after errors and lost
\* answers, is never given a message twice, however the pages Gmail lists
\* shift and overlap between its requests (searchVisibleMessages carries the
\* returned identifiers through the cursor).
FeedHasNoDuplicates == IsInjective(feed)

\* All of a feed was found under one effective query: a policy edited between
\* two pages ends the feed with invalid_params instead of mixing what the old
\* and the new policy show (decodeSearchPageToken's query check).
OnePolicyPerFeed == Cardinality(feedQueries) <= 1

\* A page that names a next one is full: the loop gives up early only when
\* nothing is left, so a client never spins on short or empty pages.
MorePagesMeansFullPage ==
    (response # None /\ response.code = "ok" /\ response.pageToken # FirstPage)
        => Len(response.messages) = Limit

\* Whatever a response carries was allowed by the policy that request loaded,
\* at some moment between loading it and answering.
OnlyAllowedAreAnswered ==
    (response # None /\ response.code = "ok")
        => Range(response.messages) \subseteq witnessed

Undisturbed == changes = 0 /\ failures = 0

\* In a mailbox that stands still, a feed begun at the first page that reached
\* its end holds every listed message the policy allows: no page, pending
\* identifier or boundary of a client page is skipped.
\* (Every page of the mailbox is reachable from the first one in the runs that
\* check this.)
FeedIsComplete ==
    (Undisturbed /\ ended /\ HasVisibleSearchScope(policyFile))
        => \A t \in PageTokens :
              Range(mailbox.listing[t].messages) \cap Allowed(policyFile, mailbox)
                  \subseteq Range(feed)

\* In a mailbox that stands still, with every listed message present and every
\* Gmail call answered, a search is never answered with a Gmail error: hidden
\* messages are passed over, not turned into one.
HealthySearchSucceeds ==
    (Undisturbed /\ response # None)
        => response.code \notin {"not_found", "rate_limited", "gmail_api_error"}

\* Every request is answered or its connection is gone, though the loop may
\* list the same pages over and over: the request's context ends it.  The one
\* thing it may wait for without end is a keyring that never answers again.
EveryRequestIsAnswered == (pc # "idle") ~> (pc = "idle" \/ []stuck)

\* What the search promises, see SearchFeed.
Feed == INSTANCE SearchFeed WITH allowed <- witnessed
FeedSpec == Feed!Spec

\* What each stage of the handler has at hand.
HandlerInv ==
    /\ pc # "idle" => req \in Request /\ req.pageToken = feedToken /\ ~ended
    /\ pc \in {"resolve", "start", "loop", "stop", "detail"} => pol \in PolicyFiles
    /\ pol # None => Allowed(pol, mailbox) \subseteq witnessed
    /\ pc \in {"detail", "respond"} <=> response # None
    /\ pc = "detail" => response.code = "ok"
    /\ pc \in {"idle", "policy", "resolve", "start"} => visibleMessages = <<>>
    /\ pc = "stop" => pendingIDs = <<>> /\ gmailPageToken = NoToken

\* The cursor a client holds lists exactly its feed.
TokenInv ==
    /\ IsInjective(feed)
    /\ \A q1, q2 \in feedQueries : q1 = q2
    /\ feedToken.form = "broker" =>
          feedToken.returnedIDs = feed /\ feedQueries \subseteq {feedToken.query}
    /\ feedToken.form # "broker" => feedToken.returnedIDs = <<>>
    /\ (feedToken.form # "broker" /\ ~ended) => feed = <<>> /\ feedQueries = {}

\* While it loops, the handler's cursor lists the feed and what it will add.
LoopInv ==
    pc \in {"loop", "stop"} =>
        /\ returnedIDs = feed \o visibleMessages
        /\ IsInjective(returnedIDs)
        /\ Range(visibleMessages) \subseteq witnessed
        /\ feedQueries \subseteq {EffectiveQuery}
        /\ Len(visibleMessages) <= Limit

\* An answer extends the feed it was asked with, and its token says so.
ResponseInv ==
    (response # None /\ response.code = "ok") =>
        /\ pol \in PolicyFiles
        /\ IsInjective(feed \o response.messages)
        /\ Range(response.messages) \subseteq witnessed
        /\ response.messages # <<>> => feedQueries \subseteq {EffectiveQuery}
        /\ response.pageToken # FirstPage =>
              /\ response.pageToken.form = "broker"
              /\ response.pageToken.returnedIDs = feed \o response.messages
              /\ response.pageToken.query = EffectiveQuery
              /\ feedQueries \subseteq {EffectiveQuery}
              /\ Len(response.messages) = Limit

\* The inductive invariant the safety properties follow from: at every moment
\* the cursor in play (the client's token, the loop's variables, the answer
\* under way) lists exactly what the client was or is about to be given.
CursorMatchesFeed == HandlerInv /\ TokenInv /\ LoopInv /\ ResponseInv

\* A client that only follows its page token, and asks again after errors.
FollowNext == Ask \/ Handler \/ LoseAnswer \/ MailboxChanges \/ KeyringSticks \/ KeyringRecovers
FollowSpec == Init /\ [][FollowNext]_vars /\ HandlerRuns /\ WF_vars(Ask)

\* Such a client reaches the end of the feed, unless the keyring sticks for good:
\* page tokens never go in circles.
FeedEnds == <>ended \/ <>[]stuck

=============================================================================
