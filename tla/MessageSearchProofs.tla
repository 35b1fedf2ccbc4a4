------------------------- MODULE MessageSearchProofs ------------------------
(***************************************************************************)
(* Proofs about MessageSearch, for every mailbox, policy, page size and    *)
(* budget.                                                                 *)
(***************************************************************************)
EXTENDS MessageSearch, SearchIDsProofs

\* The page size the broker settles on is positive, whatever was asked.
LEMMA LimitIsPositive ==
    ASSUME NEW l \in Int
    PROVE  NormalizeSearchLimit(l, MaxSearchResults) \in Nat \ {0}
<1> DEFINE max == IF MaxSearchResults <= 0 THEN DefaultSearchLimit ELSE MaxSearchResults
<1>1. max \in Nat \ {0} /\ DefaultSearchLimit \in Nat \ {0}
  BY SearchAssumption
<1> QED
  BY <1>1 DEF NormalizeSearchLimit

\* The constants of page tokens and responses have the types of their sets.
LEMMA TokenTypes ==
    /\ FirstPage \in PageToken /\ ForeignToken \in PageToken
    /\ \A t \in PageTokens : BareToken(t) \in PageToken
    /\ \A q \in SearchQueries(UserQueries), p, r \in Seq(Messages), t \in PageTokens :
          EncodeSearchPageToken(q, p, r, t) \in PageToken
    /\ \A c \in Codes : Failure(c) \in Response
BY DEF FirstPage, ForeignToken, BareToken, PageToken, PageTokens, EncodeSearchPageToken, Failure, Response

\* The bounds are natural numbers.
LEMMA BoundTypes ==
    CallBudget \in Nat /\ MaxChanges \in Nat /\ MaxFailures \in Nat /\ MaxLost \in Nat
BY SearchAssumption

\* The initial values have their types.
LEMMA InitType == Init => TypeOK
<1> SUFFICES ASSUME Init PROVE TypeOK
  OBVIOUS
<1>1. <<>> \in Seq(Messages) /\ Len(<<>>) = 0
  OBVIOUS
<1>2. shaped \in 0 .. Len(visibleMessages) /\ calls \in 0 .. CallBudget
  BY <1>1, BoundTypes DEF Init
<1>3. changes \in 0 .. MaxChanges /\ failures \in 0 .. MaxFailures /\ lost \in 0 .. MaxLost
  BY BoundTypes DEF Init
<1>4. feedToken \in PageToken
  BY TokenTypes DEF Init
<1>5. /\ pendingIDs \in Seq(Messages) /\ returnedIDs \in Seq(Messages)
      /\ visibleMessages \in Seq(Messages) /\ feed \in Seq(Messages)
  BY <1>1 DEF Init
<1>6. ended \in BOOLEAN /\ witnessed \in SUBSET Messages /\ gmailPageToken \in PageTokens
  BY DEF Init, PageTokens
<1>7. feedQueries \in SUBSET SearchQueries(UserQueries)
  BY DEF Init
<1> QED
  BY <1>2, <1>3, <1>4, <1>5, <1>6, <1>7
     DEF Init, TypeOK, WorldType, HandlerType, CursorType, ClientType

\* The effective query of a request is a query.
LEMMA QueryType ==
    ASSUME req \in Request, pol \in PolicyFiles
    PROVE  EffectiveQuery \in SearchQueries(UserQueries)
BY SearchAssumption DEF Request, Policy, EffectiveQuery, SearchQuery, SearchQueries

\* A stage of the handler and a policy have their type after they are set.
LEMMA ClearType == ClearHandler /\ TypeOK => HandlerType' /\ CursorType'
<1> SUFFICES ASSUME ClearHandler, TypeOK PROVE HandlerType' /\ CursorType'
  OBVIOUS
<1>1. HandlerType'
  BY BoundTypes DEF ClearHandler, HandlerType
<1>2. CursorType'
  <2>1. <<>> \in Seq(Messages) /\ 0 \in 0 .. Len(<<>>)
    OBVIOUS
  <2> QED
    BY <2>1 DEF ClearHandler, CursorType, PageTokens
<1> QED
  BY <1>1, <1>2

\* No step takes the mailbox, the policy file or a counter out of its type.
LEMMA WorldStep == TypeOK /\ Next => WorldType'
<1> SUFFICES ASSUME TypeOK, Next PROVE WorldType'
  OBVIOUS
<1> USE BoundTypes DEF TypeOK, WorldType, env
<1>1. CASE MailboxChanges
  BY <1>1 DEF MailboxChanges
<1>2. CASE PolicyFileChanges
  BY <1>2 DEF PolicyFileChanges
<1>3. CASE Ask \/ BeginAgain
  BY <1>3 DEF Ask, BeginAgain
<1>4. CASE LoadPolicy \/ ResolveVisibilityLabel \/ StartSearch \/ FetchPage
           \/ ReadMetadata \/ EndSearch \/ ReadFull \/ EndDetail \/ NotFound
           \/ DeadlineExceeded \/ Answer
  BY <1>4 DEF LoadPolicy, ResolveVisibilityLabel, StartSearch, FetchPage,
     ReadMetadata, EndSearch, ReadFull, EndDetail, NotFound, DeadlineExceeded, Answer
<1>5. CASE OpenFails \/ GmailFails
  BY <1>5 DEF OpenFails, GmailFails
<1>6. CASE LoseAnswer
  BY <1>6 DEF LoseAnswer
<1>7. CASE KeyringSticks
  BY <1>7 DEF KeyringSticks
<1>8. CASE KeyringRecovers
  <2>1. stuck' \in BOOLEAN /\ ~stuck'
    BY <1>8, Zenon DEF KeyringRecovers
  <2> QED
    BY <1>8, <2>1 DEF KeyringRecovers
<1> QED
  BY <1>1, <1>2, <1>3, <1>4, <1>5, <1>6, <1>7, <1>8 DEF Next, Handler

\* The query step of TypeOK needs to know that a request and a policy are at
\* hand, so type correctness is proved together with the inductive invariant.
Inv == TypeOK /\ CursorMatchesFeed

\* What the handler has at hand keeps its type: a step that encodes a cursor
\* knows its request and its policy.
LEMMA HandlerTypeStep == Inv /\ Next => HandlerType'
<1> SUFFICES ASSUME TypeOK, HandlerInv, Next PROVE HandlerType'
  BY DEF Inv, CursorMatchesFeed
<1> USE BoundTypes DEF TypeOK, HandlerType, env, loop, client
<1>0. \A c \in Codes : Failure(c) \in Response
  BY TokenTypes
<1>1. \A p, b : Allowed(p, b) \in SUBSET Messages
  BY DEF Allowed
<1>2. UseCall => calls' \in 0 .. CallBudget
  BY DEF UseCall
<1>3. \A st : MapGmailError(st) \in Codes
  BY DEF MapGmailError, Codes
<1>4. CASE MailboxChanges
  BY <1>1, <1>4 DEF MailboxChanges
<1>5. CASE PolicyFileChanges \/ BeginAgain \/ EndDetail
  BY <1>5 DEF PolicyFileChanges, BeginAgain, EndDetail
<1>6. CASE Ask
  <2>1. req' \in Request
    BY <1>6 DEF Ask, Request, ClientType
  <2> QED
    BY <1>6, <2>1 DEF Ask
<1>7. CASE LoadPolicy
  BY <1>1, <1>7 DEF LoadPolicy, WorldType
<1>8. CASE OpenFails
  BY <1>0, <1>8 DEF OpenFails, RespondWith, Codes
<1>9. CASE ResolveVisibilityLabel
  BY <1>0, <1>2, <1>9 DEF ResolveVisibilityLabel, RespondWith, Codes
<1>10. CASE StartSearch
  <2>1. [code |-> "ok", messages |-> <<>>, pageToken |-> FirstPage] \in Response
    BY TokenTypes DEF Response, Codes
  <2> QED
    BY <1>0, <1>10, <2>1 DEF StartSearch, RespondWith, Codes
<1>11. CASE FetchPage
  BY <1>2, <1>11 DEF FetchPage
<1>12. CASE ReadMetadata
  BY <1>2, <1>12 DEF ReadMetadata
<1>13. CASE EndSearch
  <2>1. EffectiveQuery \in SearchQueries(UserQueries)
    BY <1>13, QueryType DEF EndSearch, HandlerInv
  <2>2. response' \in Response
    BY <1>13, <2>1, TokenTypes DEF EndSearch, Response, Codes, CursorType
  <2> QED
    BY <1>13, <2>2 DEF EndSearch
<1>14. CASE ReadFull
  BY <1>2, <1>14 DEF ReadFull
<1>15. CASE NotFound \/ GmailFails
  BY <1>0, <1>2, <1>3, <1>15 DEF NotFound, GmailFails, RespondWith
<1>16. CASE DeadlineExceeded
  BY <1>0, <1>3, <1>16 DEF DeadlineExceeded, RespondWith
<1>17. CASE Answer \/ LoseAnswer
  BY <1>17, ClearType DEF Answer, LoseAnswer
<1>18. CASE KeyringSticks \/ KeyringRecovers
  BY <1>18 DEF KeyringSticks, KeyringRecovers
<1> QED
  BY <1>4, <1>5, <1>6, <1>7, <1>8, <1>9, <1>10, <1>11, <1>12, <1>13, <1>14,
     <1>15, <1>16, <1>17, <1>18 DEF Next, Handler

\* The variables of the loop keep their types.
LEMMA CursorTypeStep == Inv /\ Next => CursorType'
<1> SUFFICES ASSUME TypeOK, HandlerInv, Next PROVE CursorType'
  BY DEF Inv, CursorMatchesFeed
<1> USE DEF TypeOK, CursorType, env, loop, client
<1>1. CASE MailboxChanges \/ PolicyFileChanges \/ Ask \/ BeginAgain \/ LoadPolicy
           \/ OpenFails \/ ResolveVisibilityLabel \/ EndSearch \/ EndDetail
           \/ NotFound \/ GmailFails \/ DeadlineExceeded
           \/ KeyringSticks \/ KeyringRecovers
  BY <1>1 DEF MailboxChanges, PolicyFileChanges, Ask, BeginAgain, LoadPolicy,
     OpenFails, ResolveVisibilityLabel, EndSearch, EndDetail, NotFound,
     GmailFails, DeadlineExceeded, KeyringSticks, KeyringRecovers
<1>2. CASE StartSearch
  <2>1. /\ req.pageToken.pendingIDs \in Seq(Messages)
        /\ req.pageToken.returnedIDs \in Seq(Messages)
        /\ req.pageToken.gmailPageToken \in PageTokens
    BY <1>2 DEF StartSearch, HandlerInv, Request, PageToken
  <2>2. UniqueIDsExcluding(req.pageToken.pendingIDs, Range(req.pageToken.returnedIDs))
            \in Seq(Messages)
    BY <2>1, UniqueIDsExcludingIsUnique
  <2> QED
    BY <1>2, <2>1, <2>2 DEF StartSearch
<1>3. CASE FetchPage
  <2> DEFINE page == mailbox.listing[gmailPageToken]
  <2>1. page \in GmailPage
    BY SearchAssumption DEF WorldType, Mailbox
  <2>2. UniqueIDsExcluding(page.messages, Range(returnedIDs)) \in Seq(Messages)
    BY <2>1, UniqueIDsExcludingIsUnique DEF GmailPage
  <2>3. page.next \in PageTokens /\ NoToken \in PageTokens
    BY <2>1 DEF GmailPage, PageTokens
  <2> QED
    BY <1>3, <2>2, <2>3 DEF FetchPage
<1>4. CASE ReadMetadata
  <2>1. Head(pendingIDs) \in Messages /\ Tail(pendingIDs) \in Seq(Messages)
    BY <1>4 DEF ReadMetadata, HeadDue
  <2>2. \A m \in Messages :
            /\ Append(returnedIDs, m) \in Seq(Messages)
            /\ Append(visibleMessages, m) \in Seq(Messages)
            /\ Len(Append(visibleMessages, m)) = Len(visibleMessages) + 1
    OBVIOUS
  <2>3. \/ UNCHANGED <<visibleMessages, returnedIDs>>
        \/ /\ returnedIDs' = Append(returnedIDs, Head(pendingIDs))
           /\ visibleMessages' = Append(visibleMessages, Head(pendingIDs))
    BY <1>4 DEF ReadMetadata
  <2>4. /\ returnedIDs' \in Seq(Messages) /\ visibleMessages' \in Seq(Messages)
        /\ Len(visibleMessages') \in Nat /\ Len(visibleMessages) <= Len(visibleMessages')
    <3>1. Len(visibleMessages) \in Nat
      OBVIOUS
    <3>2. CASE UNCHANGED <<visibleMessages, returnedIDs>>
      BY <3>1, <3>2
    <3>3. CASE /\ returnedIDs' = Append(returnedIDs, Head(pendingIDs))
               /\ visibleMessages' = Append(visibleMessages, Head(pendingIDs))
      BY <2>1, <2>2, <3>1, <3>3
    <3> QED
      BY <2>3, <3>2, <3>3
  <2> QED
    BY <1>4, <2>1, <2>4 DEF ReadMetadata
<1>5. CASE ReadFull
  BY <1>5 DEF ReadFull, DetailDue
<1>6. CASE Answer \/ LoseAnswer
  BY <1>6, ClearType DEF Answer, LoseAnswer
<1> QED
  BY <1>1, <1>2, <1>3, <1>4, <1>5, <1>6 DEF Next, Handler

\* What the client has keeps its type: it only takes what a response carries.
LEMMA ClientTypeStep == Inv /\ Next => ClientType'
<1> SUFFICES ASSUME TypeOK, HandlerInv, ResponseInv, Next PROVE ClientType'
  BY DEF Inv, CursorMatchesFeed
<1> USE DEF TypeOK, ClientType, env, loop, client
<1>1. CASE MailboxChanges \/ PolicyFileChanges \/ Ask \/ LoadPolicy \/ OpenFails
           \/ ResolveVisibilityLabel \/ StartSearch \/ FetchPage \/ ReadMetadata
           \/ EndSearch \/ ReadFull \/ EndDetail \/ NotFound \/ GmailFails
           \/ DeadlineExceeded \/ LoseAnswer \/ KeyringSticks \/ KeyringRecovers
  BY <1>1 DEF MailboxChanges, PolicyFileChanges, Ask, LoadPolicy, OpenFails,
     ResolveVisibilityLabel, StartSearch, FetchPage, ReadMetadata, EndSearch,
     ReadFull, EndDetail, NotFound, GmailFails, DeadlineExceeded, LoseAnswer,
     KeyringSticks, KeyringRecovers
<1>2. CASE BeginAgain
  <2>1. feedToken' \in PageToken
    BY <1>2, TokenTypes, SearchAssumption DEF BeginAgain, PageTokens
  <2>2. feed' = <<>> /\ feedQueries' = {} /\ ended' = FALSE
    BY <1>2 DEF BeginAgain
  <2>3. feed' \in Seq(Messages) /\ feedQueries' \in SUBSET SearchQueries(UserQueries)
    BY <2>2
  <2>4. ended' \in BOOLEAN
    BY <2>2
  <2> QED
    BY <2>1, <2>3, <2>4
<1>3. CASE Answer
  <2>1. response \in Response
    BY <1>3 DEF Answer, HandlerInv, HandlerType
  <2>2. CASE response.code = "ok"
    <3>1. EffectiveQuery \in SearchQueries(UserQueries)
      BY <1>3, <2>1, <2>2, QueryType, NoneAssumption DEF Answer, HandlerInv, ResponseInv
    <3>2. response.messages \in Seq(Messages) /\ response.pageToken \in PageToken
      BY <2>1 DEF Response
    <3>a. /\ feed' = feed \o response.messages /\ feedToken' = response.pageToken
          /\ \/ feedQueries' = feedQueries
             \/ feedQueries' = feedQueries \cup {EffectiveQuery}
      BY <1>3, <2>2, Zenon DEF Answer
    <3>3. feed' \in Seq(Messages) /\ feedToken' \in PageToken
      BY <3>2, <3>a
    <3>4. ended' \in BOOLEAN
      BY <1>3, <2>2, Zenon DEF Answer
    <3>5. feedQueries' \in SUBSET SearchQueries(UserQueries)
      BY <3>1, <3>a
    <3> QED
      BY <3>3, <3>4, <3>5
  <2>3. CASE response.code # "ok"
    BY <1>3, <2>3 DEF Answer
  <2> QED
    BY <2>2, <2>3
<1> QED
  BY <1>1, <1>2, <1>3 DEF Next, Handler

\* Appending an identifier that is new keeps a cursor free of repetitions.
LEMMA AppendNew ==
    ASSUME NEW S, NEW s \in Seq(S), NEW m \in S
    PROVE  /\ Range(Append(s, m)) = Range(s) \cup {m}
           /\ (IsInjective(s) /\ m \notin Range(s)) => IsInjective(Append(s, m))
<1>1. /\ Append(s, m) \in Seq(S) /\ Len(Append(s, m)) = Len(s) + 1
      /\ \A i \in 1 .. Len(s) : Append(s, m)[i] = s[i]
      /\ Append(s, m)[Len(s) + 1] = m /\ Len(s) \in Nat
  BY AppendProperties
<1>2. DOMAIN s = 1 .. Len(s) /\ DOMAIN Append(s, m) = 1 .. Len(s) + 1
  BY <1>1
<1>3. Range(Append(s, m)) = Range(s) \cup {m}
  BY <1>1, <1>2 DEF Range
<1>4. (IsInjective(s) /\ m \notin Range(s)) => IsInjective(Append(s, m))
  BY <1>1, <1>2 DEF Range, IsInjective
<1> QED
  BY <1>3, <1>4

\* Appending to the end of two joined sequences is appending to the second.
LEMMA AppendAfter ==
    ASSUME NEW S, NEW s \in Seq(S), NEW t \in Seq(S), NEW m \in S
    PROVE  s \o Append(t, m) = Append(s \o t, m)
<1>1. Append(t, m) = t \o <<m>> /\ Append(s \o t, m) = (s \o t) \o <<m>>
  BY AppendIsConcat, ConcatProperties
<1>2. <<m>> \in Seq(S)
  OBVIOUS
<1> QED
  BY <1>1, <1>2, ConcatAssociative

\* Each stage of the handler leaves the next one what it needs.
LEMMA HandlerInvStep == Inv /\ Next => HandlerInv'
<1> SUFFICES ASSUME TypeOK, HandlerInv, Next PROVE HandlerInv'
  BY DEF Inv, CursorMatchesFeed
<1> USE NoneAssumption DEF TypeOK, HandlerInv, env, loop, client
<1>0. \A c \in Codes : Failure(c) \in Response
  BY TokenTypes
<1>1. None \notin PolicyFiles
  BY SearchAssumption
<1>2. \A st : MapGmailError(st) \in Codes
  BY DEF MapGmailError, Codes
<1>4. CASE MailboxChanges
  BY <1>4 DEF MailboxChanges
<1>5. CASE PolicyFileChanges
  BY <1>5 DEF PolicyFileChanges
<1>6. CASE Ask
  BY <1>6 DEF Ask, Request, ClientType
<1>7. CASE BeginAgain
  BY <1>7 DEF BeginAgain
<1>8. CASE LoadPolicy
  BY <1>8 DEF LoadPolicy, WorldType
<1>9. CASE OpenFails
  BY <1>0, <1>9 DEF OpenFails, RespondWith, Codes
<1>10. CASE ResolveVisibilityLabel
  BY <1>0, <1>10 DEF ResolveVisibilityLabel, RespondWith, Codes
<1>11. CASE StartSearch
  <2>1. [code |-> "ok", messages |-> <<>>, pageToken |-> FirstPage] \in Response
    BY TokenTypes DEF Response, Codes
  <2> QED
    BY <1>0, <1>11, <2>1 DEF StartSearch, RespondWith, Codes
<1>12. CASE FetchPage
  BY <1>12 DEF FetchPage, Exhausted, FetchDue, Wanting
<1>13. CASE ReadMetadata
  BY <1>13 DEF ReadMetadata, HeadDue, Wanting
<1>14. CASE EndSearch
  <2>1. EffectiveQuery \in SearchQueries(UserQueries)
    BY <1>14, QueryType DEF EndSearch
  <2>2. response' \in Response /\ response'.code = "ok"
    BY <1>14, <2>1, TokenTypes DEF EndSearch, Response, Codes, CursorType
  <2> QED
    BY <1>14, <2>2 DEF EndSearch
<1>15. CASE ReadFull \/ EndDetail
  BY <1>15 DEF ReadFull, EndDetail, DetailDue
<1>16. CASE NotFound \/ GmailFails \/ DeadlineExceeded
  BY <1>0, <1>2, <1>16 DEF NotFound, GmailFails, DeadlineExceeded, RespondWith,
     CallDue, FetchDue, HeadDue, Wanting, DetailDue
<1>17. CASE Answer \/ LoseAnswer
  BY <1>17 DEF Answer, LoseAnswer, ClearHandler
<1>18. CASE KeyringSticks \/ KeyringRecovers
  BY <1>18 DEF KeyringSticks, KeyringRecovers
<1> QED
  BY <1>4, <1>5, <1>6, <1>7, <1>8, <1>9, <1>10, <1>11, <1>12, <1>13, <1>14,
     <1>15, <1>16, <1>17, <1>18 DEF Next, Handler

\* The client's token goes on listing exactly the client's feed.
LEMMA TokenInvStep == Inv /\ Next => TokenInv'
<1> SUFFICES ASSUME TypeOK, HandlerInv, TokenInv, ResponseInv, Next PROVE TokenInv'
  BY DEF Inv, CursorMatchesFeed
<1> USE DEF TokenInv, env, loop, client
<1>1. CASE MailboxChanges \/ PolicyFileChanges \/ Ask \/ LoadPolicy \/ OpenFails
           \/ ResolveVisibilityLabel \/ StartSearch \/ FetchPage \/ ReadMetadata
           \/ EndSearch \/ ReadFull \/ EndDetail \/ NotFound \/ GmailFails
           \/ DeadlineExceeded \/ LoseAnswer \/ KeyringSticks \/ KeyringRecovers
  <2>1. UNCHANGED client
    BY <1>1 DEF MailboxChanges, PolicyFileChanges, Ask, LoadPolicy, OpenFails,
     ResolveVisibilityLabel, StartSearch, FetchPage, ReadMetadata, EndSearch,
     ReadFull, EndDetail, NotFound, GmailFails, DeadlineExceeded, LoseAnswer,
     KeyringSticks, KeyringRecovers
  <2> QED
    BY <2>1
<1>2. CASE BeginAgain
  <2>1. feed' = <<>> /\ feedQueries' = {}
    BY <1>2 DEF BeginAgain
  <2>2. feedToken'.form # "broker" /\ feedToken'.returnedIDs = <<>>
    BY <1>2 DEF BeginAgain, FirstPage, ForeignToken, BareToken
  <2>3. IsInjective(<<>>)
    BY DEF IsInjective
  <2> QED
    BY <2>1, <2>2, <2>3
<1>3. CASE Answer
  <2>1. response \in Response /\ response # None
    BY <1>3, NoneAssumption DEF Answer, TypeOK, HandlerInv, HandlerType
  <2>2. CASE response.code = "ok"
    <3>1. /\ feed' = feed \o response.messages
          /\ feedToken' = response.pageToken
          /\ feedQueries' = IF response.messages = <<>> THEN feedQueries
                            ELSE feedQueries \cup {EffectiveQuery}
          /\ ended' <=> response.pageToken = FirstPage
      BY <1>3, <2>2, Zenon DEF Answer
    <3>2. IsInjective(feed')
      BY <2>1, <2>2, <3>1 DEF ResponseInv
    <3>3. \A q1, q2 \in feedQueries' : q1 = q2
      BY <2>1, <2>2, <3>1 DEF ResponseInv
    <3>4. CASE response.pageToken = FirstPage
      BY <3>1, <3>2, <3>3, <3>4 DEF FirstPage
    <3>5. CASE response.pageToken # FirstPage
      <4>1. /\ feedToken'.form = "broker" /\ feedToken'.returnedIDs = feed'
            /\ feedToken'.query = EffectiveQuery
            /\ feedQueries' \subseteq {EffectiveQuery}
        BY <2>1, <2>2, <3>1, <3>5 DEF ResponseInv
      <4> QED
        BY <3>2, <3>3, <4>1
    <3> QED
      BY <3>4, <3>5
  <2>3. CASE response.code # "ok"
    <3>1. UNCHANGED client
      BY <1>3, <2>3, Zenon DEF Answer
    <3> QED
      BY <3>1
  <2> QED
    BY <2>2, <2>3
<1> QED
  BY <1>1, <1>2, <1>3 DEF Next, Handler

\* The loop goes on counting as returned the feed and what this request adds,
\* each once.
LEMMA LoopInvStep == Inv /\ Next => LoopInv'
<1> SUFFICES ASSUME TypeOK, HandlerInv, TokenInv, LoopInv, Next PROVE LoopInv'
  BY DEF Inv, CursorMatchesFeed
<1> USE DEF env, loop, client
<1>1. CASE MailboxChanges
  <2>1. /\ UNCHANGED <<pc, req, pol, loop, feed, feedQueries>>
        /\ witnessed \subseteq witnessed'
    BY <1>1 DEF MailboxChanges
  <2> QED
    BY <2>1 DEF LoopInv, EffectiveQuery, Limit
<1>2. CASE PolicyFileChanges \/ KeyringSticks \/ KeyringRecovers
  BY <1>2 DEF PolicyFileChanges, KeyringSticks, KeyringRecovers, LoopInv, EffectiveQuery, Limit
<1>3. CASE StartSearch
  <2> SUFFICES ASSUME pc' = "loop" PROVE LoopInv'
    BY <1>3 DEF StartSearch, LoopInv, RespondWith
  <2>1. /\ DecodesUnder(req.pageToken, EffectiveQuery)
        /\ returnedIDs' = req.pageToken.returnedIDs
    BY <1>3 DEF StartSearch, RespondWith
  <2>2. /\ UNCHANGED <<req, pol, visibleMessages, feed, feedQueries, witnessed>>
        /\ visibleMessages = <<>> /\ req.pageToken = feedToken /\ ~ended /\ req \in Request
    BY <1>3 DEF StartSearch, HandlerInv
  <2>3. returnedIDs' = feed /\ feedQueries \subseteq {EffectiveQuery}
    <3>1. CASE feedToken.form = "broker"
      BY <2>1, <2>2, <3>1 DEF TokenInv, DecodesUnder
    <3>2. CASE feedToken.form # "broker"
      BY <2>1, <2>2, <3>2 DEF TokenInv
    <3> QED
      BY <3>1, <3>2
  <2>4. Limit' \in Nat /\ Len(visibleMessages') = 0
    BY <2>2, LimitIsPositive, SearchAssumption DEF Limit, Request
  <2>5. feed \o visibleMessages = feed /\ Range(visibleMessages) = {}
    BY <2>2, ConcatEmptySeq DEF TypeOK, ClientType, Range
  <2>6. EffectiveQuery' = EffectiveQuery
    BY <2>2 DEF EffectiveQuery
  <2> QED
    BY <2>2, <2>3, <2>4, <2>5, <2>6 DEF LoopInv, TokenInv
<1>4. CASE FetchPage
  <2>1. /\ UNCHANGED <<req, pol, returnedIDs, visibleMessages, feed, feedQueries, witnessed>>
        /\ pc = "loop"
    BY <1>4 DEF FetchPage, FetchDue, Wanting
  <2> QED
    BY <2>1 DEF LoopInv, EffectiveQuery, Limit
<1>5. CASE ReadMetadata
  <2> DEFINE m == Head(pendingIDs)
  <2>1. /\ UNCHANGED <<req, pol, feed, feedQueries, witnessed, pc>>
        /\ pc = "loop" /\ Len(visibleMessages) < Limit /\ pendingIDs # <<>>
    BY <1>5 DEF ReadMetadata, HeadDue, Wanting
  <2>2. CASE ~Returnable(m)
    BY <1>5, <2>1, <2>2 DEF ReadMetadata, LoopInv, EffectiveQuery, Limit
  <2>3. CASE Returnable(m)
    <3>1. /\ returnedIDs' = Append(returnedIDs, m)
          /\ visibleMessages' = Append(visibleMessages, m)
      BY <1>5, <2>3 DEF ReadMetadata
    <3>2. m \in Messages
      BY <2>1 DEF TypeOK, CursorType
    <3>3. m \in witnessed
      <4>1. pol # None
        BY <2>1, SearchAssumption DEF HandlerInv
      <4> QED
        BY <2>3, <3>2, <4>1 DEF HandlerInv, Returnable, Allowed
    <3>4. returnedIDs' = feed' \o visibleMessages'
      BY <2>1, <3>1, <3>2, AppendAfter DEF LoopInv, TypeOK, CursorType, ClientType
    <3>5. IsInjective(returnedIDs')
      BY <2>1, <2>3, <3>1, <3>2, AppendNew DEF LoopInv, Returnable, TypeOK, CursorType
    <3>6. Range(visibleMessages') \subseteq witnessed
      BY <2>1, <3>1, <3>2, <3>3, AppendNew DEF LoopInv, TypeOK, CursorType
    <3>7. Len(visibleMessages') <= Limit
      <4>1. Limit \in Nat
        BY <2>1, LimitIsPositive, SearchAssumption DEF HandlerInv, Limit, Request
      <4> QED
        BY <2>1, <3>1, <3>2, <4>1 DEF TypeOK, CursorType
    <3>8. Limit' = Limit /\ EffectiveQuery' = EffectiveQuery
      BY <2>1 DEF Limit, EffectiveQuery
    <3> QED
      BY <2>1, <3>4, <3>5, <3>6, <3>7, <3>8 DEF LoopInv
  <2> QED
    BY <2>2, <2>3
<1>6. CASE Ask \/ BeginAgain \/ LoadPolicy \/ OpenFails \/ ResolveVisibilityLabel
           \/ EndSearch \/ ReadFull \/ EndDetail \/ NotFound \/ GmailFails
           \/ DeadlineExceeded \/ Answer \/ LoseAnswer
  <2>1. pc' \notin {"loop", "stop"}
    BY <1>6 DEF Ask, BeginAgain, LoadPolicy, OpenFails, ResolveVisibilityLabel,
       EndSearch, ReadFull, EndDetail, NotFound, GmailFails, DeadlineExceeded,
       Answer, LoseAnswer, ClearHandler, RespondWith, DetailDue
  <2> QED
    BY <2>1 DEF LoopInv
<1> QED
  BY <1>1, <1>2, <1>3, <1>4, <1>5, <1>6 DEF Next, Handler

\* A response under way carries on from the feed, and its token lists both.
LEMMA ResponseInvStep == Inv /\ Next => ResponseInv'
<1> SUFFICES ASSUME TypeOK, HandlerInv, TokenInv, LoopInv, ResponseInv, Next
             PROVE  ResponseInv'
  BY DEF Inv, CursorMatchesFeed
<1> USE DEF env, loop, client
<1>1. CASE MailboxChanges
  <2>1. /\ UNCHANGED <<pc, req, pol, response, feed, feedQueries>>
        /\ witnessed \subseteq witnessed'
    BY <1>1 DEF MailboxChanges
  <2> QED
    BY <2>1 DEF ResponseInv, EffectiveQuery, Limit
<1>2. CASE PolicyFileChanges \/ KeyringSticks \/ KeyringRecovers \/ ReadFull \/ EndDetail
  BY <1>2 DEF PolicyFileChanges, KeyringSticks, KeyringRecovers, ReadFull, EndDetail,
     ResponseInv, EffectiveQuery, Limit
<1>3. CASE Ask \/ BeginAgain \/ LoadPolicy \/ FetchPage \/ ReadMetadata
  <2>1. response' = None
    BY <1>3 DEF Ask, BeginAgain, LoadPolicy, FetchPage, ReadMetadata, FetchDue,
       HeadDue, Wanting, HandlerInv
  <2> QED
    BY <2>1 DEF ResponseInv
<1>4. CASE OpenFails \/ NotFound \/ GmailFails \/ DeadlineExceeded
  <2>1. response'.code # "ok"
    BY <1>4 DEF OpenFails, NotFound, GmailFails, DeadlineExceeded, RespondWith,
       Failure, MapGmailError
  <2> QED
    BY <2>1 DEF ResponseInv
<1>5. CASE ResolveVisibilityLabel
  <2>1. response' = None \/ response'.code # "ok"
    BY <1>5 DEF ResolveVisibilityLabel, RespondWith, Failure, HandlerInv
  <2> QED
    BY <2>1 DEF ResponseInv
<1>6. CASE StartSearch
  <2>1. CASE response' = None \/ response'.code # "ok"
    BY <2>1 DEF ResponseInv
  <2>2. CASE response' = [code |-> "ok", messages |-> <<>>, pageToken |-> FirstPage]
    <3>1. feed' \o <<>> = feed' /\ Range(<<>>) = {} /\ IsInjective(feed')
      BY <1>6, ConcatEmptySeq DEF StartSearch, TypeOK, ClientType, Range, TokenInv
    <3>2. pol' \in PolicyFiles
      BY <1>6 DEF StartSearch, HandlerInv
    <3> QED
      BY <2>2, <3>1, <3>2 DEF ResponseInv
  <2> QED
    BY <1>6, <2>1, <2>2 DEF StartSearch, RespondWith, Failure, HandlerInv
<1>7. CASE EndSearch
  <2>1. /\ UNCHANGED <<req, pol, feed, feedQueries, witnessed>>
        /\ response'.messages = visibleMessages
        /\ response'.pageToken = EncodeSearchPageToken(EffectiveQuery, pendingIDs,
                                                       returnedIDs, gmailPageToken)
        /\ pc \in {"loop", "stop"}
    BY <1>7 DEF EndSearch
  <2>2. EffectiveQuery' = EffectiveQuery /\ Limit' = Limit /\ pol \in PolicyFiles
    BY <2>1 DEF EffectiveQuery, Limit, HandlerInv
  <2>3. /\ IsInjective(feed \o visibleMessages)
        /\ Range(visibleMessages) \subseteq witnessed
        /\ feedQueries \subseteq {EffectiveQuery}
    BY <2>1 DEF LoopInv
  <2>4. ASSUME response'.pageToken # FirstPage
        PROVE  /\ response'.pageToken.form = "broker"
               /\ response'.pageToken.returnedIDs = feed \o visibleMessages
               /\ response'.pageToken.query = EffectiveQuery
               /\ Len(visibleMessages) = Limit
    <3>1. response'.pageToken =
              [form |-> "broker", query |-> EffectiveQuery, pendingIDs |-> pendingIDs,
               returnedIDs |-> returnedIDs, gmailPageToken |-> gmailPageToken]
      BY <2>1, <2>4 DEF EncodeSearchPageToken
    <3>2. pc = "loop"
      BY <2>1, <2>4 DEF EncodeSearchPageToken, HandlerInv
    <3>3. Limit \in Nat /\ Len(visibleMessages) \in Nat
      <4>1. Limit \in Nat
        BY <3>2, LimitIsPositive, SearchAssumption DEF HandlerInv, Limit, Request
      <4>2. Len(visibleMessages) \in Nat
        BY DEF TypeOK, CursorType
      <4> QED
        BY <4>1, <4>2
    <3>4. Len(visibleMessages) = Limit
      BY <1>7, <3>2, <3>3 DEF EndSearch, Wanting, LoopInv
    <3> QED
      BY <3>1, <3>2, <3>4 DEF LoopInv
  <2> QED
    BY <2>1, <2>2, <2>3, <2>4 DEF ResponseInv
<1>8. CASE Answer \/ LoseAnswer
  BY <1>8 DEF Answer, LoseAnswer, ClearHandler, ResponseInv
<1> QED
  BY <1>1, <1>2, <1>3, <1>4, <1>5, <1>6, <1>7, <1>8 DEF Next, Handler

\* A client that has asked for nothing has an empty feed and an empty token.
LEMMA InvInit == Init => Inv
<1> SUFFICES ASSUME Init PROVE CursorMatchesFeed
  BY InitType DEF Inv
<1>1. IsInjective(<<>>)
  BY DEF IsInjective
<1>2. FirstPage.form = "first" /\ FirstPage.returnedIDs = <<>>
  BY DEF FirstPage
<1> QED
  BY <1>1, <1>2 DEF Init, CursorMatchesFeed, HandlerInv, TokenInv, LoopInv, ResponseInv

\* Every step, and a stutter, keeps the invariant.
LEMMA InvStep == Inv /\ [Next]_vars => Inv'
<1> SUFFICES ASSUME Inv, [Next]_vars PROVE Inv'
  OBVIOUS
<1>1. CASE Next
  BY <1>1, WorldStep, HandlerTypeStep, CursorTypeStep, ClientTypeStep, HandlerInvStep,
     TokenInvStep, LoopInvStep, ResponseInvStep DEF Inv, TypeOK, CursorMatchesFeed
<1>2. CASE UNCHANGED vars
  BY <1>2 DEF vars, env, loop, client, Inv, TypeOK, WorldType, HandlerType,
     CursorType, ClientType, CursorMatchesFeed, HandlerInv, TokenInv, LoopInv,
     ResponseInv, Allowed, EffectiveQuery, Limit
<1> QED
  BY <1>1, <1>2

\* The inductive invariant holds in every reachable state.
LEMMA InvAlways == Spec => []Inv
<1>1. Init => Inv
  BY InvInit
<1>2. Inv /\ [Next]_vars => Inv'
  BY InvStep
<1> QED
  BY <1>1, <1>2, PTL DEF Spec

\* The client's token, the handler's loop and the answer under way all list
\* exactly the client's feed, in every reachable state.
THEOREM CursorIsInvariant == Spec => []CursorMatchesFeed
<1>1. Inv => CursorMatchesFeed
  BY DEF Inv
<1> QED
  BY <1>1, InvAlways, PTL

\* Type correctness of MessageSearch.
THEOREM TypeCorrect == Spec => []TypeOK
<1>1. Inv => TypeOK
  BY DEF Inv
<1> QED
  BY <1>1, InvAlways, PTL

\* A client following next_page_token is never given a message twice.
THEOREM NoDuplicates == Spec => []FeedHasNoDuplicates
<1>1. Inv => FeedHasNoDuplicates
  BY DEF Inv, CursorMatchesFeed, TokenInv, FeedHasNoDuplicates
<1> QED
  BY <1>1, InvAlways, PTL

\* A page that names a next one is full.
THEOREM FullPages == Spec => []MorePagesMeansFullPage
<1>1. Inv => MorePagesMeansFullPage
  BY DEF Inv, CursorMatchesFeed, ResponseInv, MorePagesMeansFullPage
<1> QED
  BY <1>1, InvAlways, PTL

\* An answer carries only what its request's policy allowed at some moment.
THEOREM OnlyAllowed == Spec => []OnlyAllowedAreAnswered
<1>1. Inv => OnlyAllowedAreAnswered
  BY DEF Inv, CursorMatchesFeed, ResponseInv, OnlyAllowedAreAnswered
<1> QED
  BY <1>1, InvAlways, PTL

\* All of a feed was found under one effective query.
THEOREM OnePolicy == Spec => []OnePolicyPerFeed
<1>1. Inv => OnePolicyPerFeed
  <2> SUFFICES ASSUME Inv PROVE Cardinality(feedQueries) <= 1
    BY DEF OnePolicyPerFeed
  <2>1. \A q1, q2 \in feedQueries : q1 = q2
    BY DEF Inv, CursorMatchesFeed, TokenInv
  <2>2. CASE feedQueries = {}
    BY <2>2, FS_EmptySet
  <2>3. CASE feedQueries # {}
    <3>1. PICK q \in feedQueries : TRUE
      BY <2>3
    <3>2. feedQueries = {q}
      BY <2>1, <3>1
    <3>3. Cardinality({q}) = 1
      BY FS_Singleton
    <3> QED
      BY <3>2, <3>3
  <2> QED
    BY <2>2, <2>3
<1> QED
  BY <1>1, InvAlways, PTL

\* A step of the search is a step of SearchFeed's or leaves its variables alone.
LEMMA FeedStep == Inv /\ Inv' /\ [Next]_vars => [Feed!Next]_(Feed!vars)
<1> SUFFICES ASSUME Inv, Inv', [Next]_vars PROVE Feed!Next \/ UNCHANGED Feed!vars
  OBVIOUS
<1> USE DEF env, loop, client
<1>0. witnessed' \in SUBSET Messages
  BY DEF Inv, TypeOK, HandlerType
<1>1. CASE UNCHANGED <<feed, ended>>
  BY <1>0, <1>1 DEF Feed!Next, Feed!Observe
<1>2. CASE BeginAgain
  <2>1. feed' = <<>> /\ ended' = FALSE /\ UNCHANGED witnessed
    BY <1>2, Zenon DEF BeginAgain
  <2> QED
    BY <2>1, Zenon DEF Feed!Next, Feed!BeginAgain
<1>3. CASE Answer
  <2>1. response \in Response /\ response # None /\ ~ended
    BY <1>3, NoneAssumption
       DEF Answer, Inv, TypeOK, CursorMatchesFeed, HandlerInv, HandlerType
  <2>2. CASE response.code = "ok"
    <3>1. /\ feed' = feed \o response.messages /\ witnessed' = {}
          /\ ended' = (response.pageToken = FirstPage)
      BY <1>3, <2>2, Zenon DEF Answer, ClearHandler
    <3>2. response.messages \in Seq(Messages) /\ feed \in Seq(Messages)
      BY <2>1 DEF Response, Inv, TypeOK, ClientType
    <3>3. Range(response.messages) \subseteq witnessed /\ IsInjective(feed')
      BY <2>1, <2>2, <3>1 DEF Inv, CursorMatchesFeed, ResponseInv
    <3>4. /\ feed' \in Seq(Messages)
          /\ Len(feed') = Len(feed) + Len(response.messages)
          /\ \A i \in 1 .. Len(feed') :
                feed'[i] = IF i <= Len(feed) THEN feed[i]
                           ELSE response.messages[i - Len(feed)]
      BY <3>1, <3>2, ConcatProperties
    <3>a. Len(feed) \in Nat /\ Len(response.messages) \in Nat
      BY <3>2
    <3>5. Len(feed) <= Len(feed') /\ \A i \in 1 .. Len(feed) : feed'[i] = feed[i]
      BY <3>4, <3>a
    <3>6. \A i \in Len(feed) + 1 .. Len(feed') : feed'[i] \in witnessed
      <4> SUFFICES ASSUME NEW i \in Len(feed) + 1 .. Len(feed')
                   PROVE  feed'[i] \in witnessed
        OBVIOUS
      <4>1. feed'[i] = response.messages[i - Len(feed)]
            /\ i - Len(feed) \in 1 .. Len(response.messages)
        BY <3>2, <3>4
      <4>2. response.messages[i - Len(feed)] \in Range(response.messages)
        BY <3>2, <4>1 DEF Range
      <4> QED
        BY <3>3, <4>1, <4>2
    <3>7. ended' \in BOOLEAN
      BY <3>1, Zenon
    <3>8. Feed!IsInjective(feed')
      BY <3>3 DEF IsInjective, Feed!IsInjective
    <3>9. Feed!Deliver
      BY <2>1, <3>1, <3>4, <3>5, <3>6, <3>7, <3>8, Zenon DEF Feed!Deliver
    <3> QED
      BY <3>9 DEF Feed!Next
  <2>3. CASE response.code # "ok"
    <3>1. UNCHANGED <<feed, ended>>
      BY <1>3, <2>3, Zenon DEF Answer
    <3> QED
      BY <1>1, <3>1
  <2> QED
    BY <2>2, <2>3
<1>4. CASE MailboxChanges \/ PolicyFileChanges \/ Ask \/ LoadPolicy \/ OpenFails
           \/ ResolveVisibilityLabel \/ StartSearch \/ FetchPage \/ ReadMetadata
           \/ EndSearch \/ ReadFull \/ EndDetail \/ NotFound \/ GmailFails
           \/ DeadlineExceeded \/ LoseAnswer \/ KeyringSticks \/ KeyringRecovers
           \/ UNCHANGED vars
  <2>1. UNCHANGED <<feed, ended>>
    BY <1>4 DEF MailboxChanges, PolicyFileChanges, Ask, LoadPolicy, OpenFails,
     ResolveVisibilityLabel, StartSearch, FetchPage, ReadMetadata, EndSearch,
     ReadFull, EndDetail, NotFound, GmailFails, DeadlineExceeded, LoseAnswer,
     KeyringSticks, KeyringRecovers, vars
  <2> QED
    BY <1>1, <2>1
<1> QED
  BY <1>2, <1>3, <1>4 DEF Next, Handler

\* The search implements its promise: whatever happens around the broker, each
\* answer extends the client's feed with new, allowed messages and nothing else
\* ever changes it.
THEOREM SearchImplementsFeed == Spec => FeedSpec
<1>1. Init => Feed!Init
  BY DEF Init, Feed!Init
<1>2. Inv /\ Inv' /\ [Next]_vars => [Feed!Next]_(Feed!vars)
  BY FeedStep
<1> QED
  BY <1>1, <1>2, InvAlways, PTL DEF Spec, FeedSpec, Feed!Spec

(***************************************************************************)
(* A feed that reached its end is complete, where the mailbox stands still *)
(* and is paged soundly.                                                   *)
(***************************************************************************)
\* Gmail's pages lead from the first to each that lists anything, and none names
\* itself as the next.
SoundlyPaged(b) ==
    /\ \A t \in Tokens : b.listing[t].next # t
    /\ \A read \in SUBSET PageTokens :
          (NoToken \in read /\ \A t \in read : b.listing[t].next \in read)
              => \A t \in PageTokens \ read : b.listing[t].messages = <<>>

\* Searches begin at the first page, and every state of the mailbox is paged
\* soundly.
SoundPaging == BareTokens = {} /\ \A box \in Mailboxes : SoundlyPaged(box)

\* What policy p allows of what page t of box b lists.
Listed(p, b, t) == Range(b.listing[t].messages) \cap Allowed(p, b)

\* A cursor (pending, returned, token) accounts for the pages before its token: it
\* has not begun, or each allowed message of them is pending or was returned.
Accounted(p, b, pending, returned, token) ==
    \/ pending = <<>> /\ returned = <<>> /\ token = NoToken
    \/ \E read \in SUBSET PageTokens :
          /\ NoToken \in read
          /\ \A t \in read : /\ b.listing[t].next \in read \cup {token}
                             /\ Listed(p, b, t) \subseteq Range(pending) \cup Range(returned)

TokenAccounted(p, b, token) ==
    Accounted(p, b, token.pendingIDs, token.returnedIDs, token.gmailPageToken)

Complete(p, b, returned) == \A t \in PageTokens : Listed(p, b, t) \subseteq Range(returned)

\* Until the mailbox or the policy changes, whichever cursor is in play accounts
\* for what was listed, and without a next page nothing is missing.
ProgressInv ==
    (changes = 0 /\ SoundlyPaged(mailbox)) =>
        /\ pol # None => pol = policyFile
        /\ ~ended => TokenAccounted(policyFile, mailbox, feedToken)
        /\ (ended /\ HasVisibleSearchScope(policyFile)) => Complete(policyFile, mailbox, feed)
        /\ pc \in {"loop", "stop"} =>
              Accounted(policyFile, mailbox, pendingIDs, returnedIDs, gmailPageToken)
        /\ pc = "stop" => Complete(policyFile, mailbox, returnedIDs)
        /\ (response # None /\ response.code = "ok") =>
              IF response.pageToken = FirstPage
              THEN HasVisibleSearchScope(policyFile) =>
                      Complete(policyFile, mailbox, feed \o response.messages)
              ELSE TokenAccounted(policyFile, mailbox, response.pageToken)

\* A cursor that begins at the first page accounts for nothing, as it should; so
\* does one that will be refused.
LEMMA FirstPageAccounts ==
    \A p, b : TokenAccounted(p, b, FirstPage) /\ TokenAccounted(p, b, ForeignToken)
BY DEF TokenAccounted, Accounted, FirstPage, ForeignToken

\* A cursor that has begun, with nothing pending and no page to come, has
\* returned everything.
LEMMA EndIsComplete ==
    ASSUME NEW p, NEW b, SoundlyPaged(b), NEW returned,
           NEW read \in SUBSET PageTokens, NoToken \in read,
           \A t \in read : /\ b.listing[t].next \in read \cup {NoToken}
                           /\ Listed(p, b, t) \subseteq Range(<<>>) \cup Range(returned)
    PROVE  Complete(p, b, returned)
<1>1. \A t \in PageTokens \ read : b.listing[t].messages = <<>>
  BY DEF SoundlyPaged
<1>2. Range(<<>>) = {}
  BY DEF Range
<1> QED
  BY <1>1, <1>2 DEF Complete, Listed

\* Pending identifiers that were returned already may be left out.
LEMMA PendingIsEnough ==
    ASSUME NEW p, NEW b, NEW pending \in Seq(Messages), NEW returned \in Seq(Messages),
           NEW token, Accounted(p, b, pending, returned, token)
    PROVE  Accounted(p, b, UniqueIDsExcluding(pending, Range(returned)), returned, token)
<1> DEFINE left == UniqueIDsExcluding(pending, Range(returned))
<1>1. CASE pending = <<>> /\ returned = <<>> /\ token = NoToken
  <2>1. left \in Seq(Messages) /\ Range(left) \subseteq Range(pending)
    BY UniqueIDsExcludingIsUnique
  <2>2. Range(pending) = {}
    BY <1>1 DEF Range
  <2>3. left = <<>>
    <3> HIDE DEF left
    <3> QED
      BY <2>1, <2>2 DEF Range
  <2> QED
    BY <1>1, <2>3 DEF Accounted
<1>2. CASE ~(pending = <<>> /\ returned = <<>> /\ token = NoToken)
  <2>1. Range(pending) \ Range(returned) \subseteq Range(left)
    BY UniqueIDsExcludingIsComplete
  <2> HIDE DEF left
  <2>2. Range(pending) \cup Range(returned) \subseteq Range(left) \cup Range(returned)
    BY <2>1
  <2> QED
    BY <1>2, <2>2 DEF Accounted, left
<1> QED
  BY <1>1, <1>2

\* The initial state.
LEMMA ProgressInit == Init => ProgressInv
<1> SUFFICES ASSUME Init PROVE ProgressInv
  OBVIOUS
<1> QED
  BY FirstPageAccounts DEF Init, ProgressInv

\* Listing the next page: what is on it becomes pending, unless it was returned.
LEMMA FetchKeepsAccount ==
    ASSUME Inv, ProgressInv, FetchPage
    PROVE  ProgressInv'
<1> SUFFICES ASSUME changes = 0, SoundlyPaged(mailbox)
             PROVE  /\ Accounted(policyFile, mailbox, pendingIDs', returnedIDs, gmailPageToken')
                    /\ pc' = "stop" => Complete(policyFile, mailbox, returnedIDs)
  <2>1. /\ UNCHANGED <<env, pol, feed, feedToken, ended, response, returnedIDs>>
        /\ response = None
    BY DEF FetchPage, FetchDue, Wanting, Inv, CursorMatchesFeed, HandlerInv, client
  <2> QED
    BY <2>1 DEF ProgressInv, env
<1> DEFINE page  == mailbox.listing[gmailPageToken]
           fresh == UniqueIDsExcluding(page.messages, Range(returnedIDs))
<1>1. /\ mailbox \in Mailboxes /\ mailbox \in Mailbox /\ returnedIDs \in Seq(Messages)
      /\ gmailPageToken \in PageTokens /\ pendingIDs = <<>> /\ pc = "loop"
  BY SearchAssumption DEF Inv, TypeOK, WorldType, CursorType, FetchPage, FetchDue, Wanting
<1>2. page.messages \in Seq(Messages)
  BY <1>1 DEF Mailbox, GmailPage
<1>3. ~(gmailPageToken # NoToken /\ page.next = gmailPageToken)
  BY <1>1 DEF SoundlyPaged, PageTokens
<1>4. /\ pendingIDs' = fresh /\ gmailPageToken' = page.next
      /\ pc' = "stop" => fresh = <<>> /\ page.next = NoToken
  BY <1>3 DEF FetchPage, Exhausted
<1>5. Listed(policyFile, mailbox, gmailPageToken) \subseteq Range(fresh) \cup Range(returnedIDs)
  <2>1. Range(page.messages) \ Range(returnedIDs) \subseteq Range(fresh)
    BY <1>2, UniqueIDsExcludingIsComplete
  <2> HIDE DEF fresh
  <2> QED
    BY <2>1 DEF Listed
<1> HIDE DEF fresh
<1>6. PICK read \in SUBSET PageTokens :
         /\ NoToken \in read
         /\ \A t \in read :
               /\ mailbox.listing[t].next \in read \cup {page.next}
               /\ Listed(policyFile, mailbox, t) \subseteq Range(fresh) \cup Range(returnedIDs)
  <2>1. Accounted(policyFile, mailbox, <<>>, returnedIDs, gmailPageToken)
    BY <1>1 DEF ProgressInv
  <2>2. CASE gmailPageToken = NoToken /\ returnedIDs = <<>>
    <3> {NoToken} \in SUBSET PageTokens
      BY DEF PageTokens
    <3> WITNESS {NoToken} \in SUBSET PageTokens
    <3> QED
      BY <1>5, <2>2
  <2>3. ASSUME NEW before \in SUBSET PageTokens, NoToken \in before,
               \A t \in before :
                  /\ mailbox.listing[t].next \in before \cup {gmailPageToken}
                  /\ Listed(policyFile, mailbox, t) \subseteq Range(<<>>) \cup Range(returnedIDs)
        PROVE  \E read \in SUBSET PageTokens :
                  /\ NoToken \in read
                  /\ \A t \in read :
                        /\ mailbox.listing[t].next \in read \cup {page.next}
                        /\ Listed(policyFile, mailbox, t)
                              \subseteq Range(fresh) \cup Range(returnedIDs)
    <3>1. Range(<<>>) = {}
      BY DEF Range
    <3> before \cup {gmailPageToken} \in SUBSET PageTokens
      BY <1>1
    <3> WITNESS before \cup {gmailPageToken} \in SUBSET PageTokens
    <3> QED
      BY <1>5, <2>3, <3>1
  <2> QED
    BY <1>1, <2>1, <2>2, <2>3 DEF Accounted, PageTokens
<1>7. Accounted(policyFile, mailbox, fresh, returnedIDs, page.next)
  BY <1>6 DEF Accounted
<1>8. (fresh = <<>> /\ page.next = NoToken) => Complete(policyFile, mailbox, returnedIDs)
  BY <1>1, <1>6, EndIsComplete
<1> QED
  BY <1>4, <1>7, <1>8

\* Looking at a pending message: it is returned, was returned or is hidden.
LEMMA ReadKeepsAccount ==
    ASSUME Inv, ProgressInv, ReadMetadata
    PROVE  ProgressInv'
<1> SUFFICES ASSUME changes = 0, SoundlyPaged(mailbox)
             PROVE  Accounted(policyFile, mailbox, pendingIDs', returnedIDs', gmailPageToken)
  <2>1. /\ UNCHANGED <<env, pc, pol, feed, feedToken, ended, response, gmailPageToken>>
        /\ pc = "loop" /\ response = None
    BY DEF ReadMetadata, HeadDue, Wanting, Inv, CursorMatchesFeed, HandlerInv, client
  <2> QED
    BY <2>1 DEF ProgressInv, env
<1> DEFINE m == Head(pendingIDs)
<1>1. /\ pendingIDs \in Seq(Messages) /\ returnedIDs \in Seq(Messages) /\ pendingIDs # <<>>
      /\ pc = "loop" /\ pendingIDs' = Tail(pendingIDs) /\ m \in Messages
  BY DEF Inv, TypeOK, CursorType, ReadMetadata, HeadDue, Wanting
<1>2. pol = policyFile
  BY <1>1, SearchAssumption DEF Inv, CursorMatchesFeed, HandlerInv, ProgressInv
<1>3. Range(pendingIDs) \subseteq {m} \cup Range(Tail(pendingIDs))
  <2>1. ASSUME NEW i \in DOMAIN pendingIDs, i # 1
        PROVE  pendingIDs[i] \in Range(Tail(pendingIDs))
    <3>1. /\ i - 1 \in DOMAIN Tail(pendingIDs)
          /\ Tail(pendingIDs)[i - 1] = pendingIDs[i]
      BY <1>1, <2>1
    <3> QED
      BY <3>1 DEF Range
  <2>2. m = pendingIDs[1]
    BY <1>1
  <2> QED
    BY <2>1, <2>2 DEF Range
<1>4. Range(returnedIDs) \subseteq Range(returnedIDs')
  <2>1. CASE Returnable(m)
    <3>1. returnedIDs' = Append(returnedIDs, m)
      BY <2>1 DEF ReadMetadata
    <3> QED
      BY <1>1, <3>1, AppendNew
  <2>2. CASE ~Returnable(m)
    <3>1. returnedIDs' = returnedIDs
      BY <2>2 DEF ReadMetadata
    <3> QED
      BY <3>1
  <2> QED
    BY <2>1, <2>2
<1>5. m \in Allowed(policyFile, mailbox) => m \in Range(returnedIDs')
  <2>1. CASE Returnable(m)
    <3>1. returnedIDs' = Append(returnedIDs, m)
      BY <2>1 DEF ReadMetadata
    <3> QED
      BY <1>1, <3>1, AppendNew
  <2>2. CASE ~Returnable(m)
    <3>1. returnedIDs' = returnedIDs
      BY <2>2 DEF ReadMetadata
    <3> QED
      BY <1>2, <2>2, <3>1 DEF Returnable, Allowed
  <2> QED
    BY <2>1, <2>2
<1>6. PICK read \in SUBSET PageTokens :
         /\ NoToken \in read
         /\ \A t \in read :
               /\ mailbox.listing[t].next \in read \cup {gmailPageToken}
               /\ Listed(policyFile, mailbox, t) \subseteq Range(pendingIDs) \cup Range(returnedIDs)
  BY <1>1 DEF ProgressInv, Accounted
<1>7. ASSUME NEW t \in read
      PROVE  Listed(policyFile, mailbox, t) \subseteq Range(pendingIDs') \cup Range(returnedIDs')
  <2>1. Listed(policyFile, mailbox, t) \subseteq Allowed(policyFile, mailbox)
    BY DEF Listed
  <2>2. Listed(policyFile, mailbox, t) \subseteq Range(pendingIDs) \cup Range(returnedIDs)
    BY <1>6, <1>7
  <2> QED
    BY <1>1, <1>3, <1>4, <1>5, <2>1, <2>2
<1> QED
  BY <1>6, <1>7 DEF Accounted

\* The end of a search: its cursor is the next page token, or nothing is missing.
LEMMA EndKeepsAccount ==
    ASSUME Inv, ProgressInv, EndSearch
    PROVE  ProgressInv'
<1>1. /\ UNCHANGED <<env, pol, feed, feedToken, ended, returnedIDs>>
      /\ pc' \notin {"loop", "stop"} /\ pc \in {"loop", "stop"}
      /\ response'.messages = visibleMessages
      /\ response'.pageToken = EncodeSearchPageToken(EffectiveQuery, pendingIDs,
                                                     returnedIDs, gmailPageToken)
  BY DEF EndSearch, loop, client
<1> SUFFICES ASSUME changes = 0, SoundlyPaged(mailbox)
             PROVE  IF response'.pageToken = FirstPage
                    THEN Complete(policyFile, mailbox, feed \o visibleMessages)
                    ELSE TokenAccounted(policyFile, mailbox, response'.pageToken)
  BY <1>1 DEF ProgressInv, env
<1>2. returnedIDs = feed \o visibleMessages
  BY <1>1 DEF Inv, CursorMatchesFeed, LoopInv
<1>3. Accounted(policyFile, mailbox, pendingIDs, returnedIDs, gmailPageToken)
  BY <1>1 DEF ProgressInv
<1>4. CASE pendingIDs = <<>> /\ gmailPageToken = NoToken /\ pc = "stop"
  BY <1>1, <1>2, <1>4 DEF ProgressInv, EncodeSearchPageToken
<1>5. CASE pendingIDs = <<>> /\ gmailPageToken = NoToken /\ pc = "loop"
  <2>1. /\ visibleMessages \in Seq(Messages) /\ feed \in Seq(Messages)
        /\ Limit \in Nat \ {0} /\ mailbox \in Mailboxes
    BY <1>5, LimitIsPositive, SearchAssumption
       DEF Inv, TypeOK, WorldType, CursorType, ClientType, CursorMatchesFeed, HandlerInv,
           Limit, Request
  <2>2. visibleMessages # <<>>
    BY <1>5, <2>1 DEF EndSearch, Wanting
  <2>3. returnedIDs # <<>>
    BY <1>2, <2>1, <2>2, ConcatEqualIffEmpty
  <2>4. PICK read \in SUBSET PageTokens :
           /\ NoToken \in read
           /\ \A t \in read :
                 /\ mailbox.listing[t].next \in read \cup {NoToken}
                 /\ Listed(policyFile, mailbox, t) \subseteq Range(<<>>) \cup Range(returnedIDs)
    BY <1>3, <1>5, <2>3 DEF Accounted
  <2>5. Complete(policyFile, mailbox, returnedIDs)
    BY <2>1, <2>4, EndIsComplete
  <2> QED
    BY <1>1, <1>2, <1>5, <2>5 DEF EncodeSearchPageToken
<1>6. CASE ~(pendingIDs = <<>> /\ gmailPageToken = NoToken)
  <2>1. response'.pageToken = [form |-> "broker", query |-> EffectiveQuery,
                               pendingIDs |-> pendingIDs, returnedIDs |-> returnedIDs,
                               gmailPageToken |-> gmailPageToken]
    BY <1>1, <1>6 DEF EncodeSearchPageToken
  <2>2. response'.pageToken # FirstPage
    <3>1. response'.pageToken.form # FirstPage.form
      BY <2>1 DEF FirstPage
    <3> QED
      BY <3>1
  <2>3. TokenAccounted(policyFile, mailbox, response'.pageToken)
    BY <1>3, <2>1 DEF TokenAccounted
  <2> QED
    BY <2>2, <2>3
<1> QED
  BY <1>1, <1>4, <1>5, <1>6

\* The beginning of a search: the cursor of the request goes on.
LEMMA StartKeepsAccount ==
    ASSUME Inv, ProgressInv, StartSearch
    PROVE  ProgressInv'
<1> SUFFICES ASSUME changes = 0, SoundlyPaged(mailbox) PROVE ProgressInv'
  BY DEF ProgressInv, StartSearch, env
<1>1. /\ UNCHANGED <<env, pol, feed, feedToken, ended>>
      /\ pol = policyFile /\ ~ended /\ req.pageToken = feedToken /\ feedToken \in PageToken
      /\ response = None
  BY SearchAssumption DEF StartSearch, client, Inv, TypeOK, ClientType, CursorMatchesFeed,
     HandlerInv, ProgressInv
<1>2. CASE ~HasVisibleSearchScope(pol)
  <2>1. /\ response' = [code |-> "ok", messages |-> <<>>, pageToken |-> FirstPage]
        /\ pc' = "respond"
    BY <1>2 DEF StartSearch, RespondWith
  <2> QED
    BY <1>1, <1>2, <2>1 DEF ProgressInv, env
<1>3. CASE HasVisibleSearchScope(pol) /\ ~DecodesUnder(req.pageToken, EffectiveQuery)
  <2>1. response'.code # "ok" /\ pc' = "respond"
    BY <1>3 DEF StartSearch, RespondWith, Failure
  <2> QED
    BY <1>1, <2>1 DEF ProgressInv, env
<1>4. CASE HasVisibleSearchScope(pol) /\ DecodesUnder(req.pageToken, EffectiveQuery)
  <2>1. /\ pendingIDs' = UniqueIDsExcluding(feedToken.pendingIDs, Range(feedToken.returnedIDs))
        /\ returnedIDs' = feedToken.returnedIDs /\ gmailPageToken' = feedToken.gmailPageToken
        /\ pc' = "loop" /\ response' = response
    BY <1>1, <1>4 DEF StartSearch
  <2>2. /\ Accounted(policyFile, mailbox, feedToken.pendingIDs, feedToken.returnedIDs,
                     feedToken.gmailPageToken)
        /\ feedToken.pendingIDs \in Seq(Messages) /\ feedToken.returnedIDs \in Seq(Messages)
    BY <1>1 DEF ProgressInv, TokenAccounted, PageToken
  <2>3. Accounted(policyFile, mailbox, pendingIDs', returnedIDs', gmailPageToken')
    BY <2>1, <2>2, PendingIsEnough
  <2> QED
    BY <1>1, <2>1, <2>3 DEF ProgressInv, env
<1> QED
  BY <1>2, <1>3, <1>4

\* Every step keeps the account.
LEMMA ProgressStep == BareTokens = {} /\ Inv /\ ProgressInv /\ [Next]_vars => ProgressInv'
<1> SUFFICES ASSUME BareTokens = {}, Inv, ProgressInv, [Next]_vars PROVE ProgressInv'
  OBVIOUS
<1> USE DEF env, loop, client
<1>1. CASE MailboxChanges \/ PolicyFileChanges
  <2>1. changes' # 0
    BY <1>1 DEF MailboxChanges, PolicyFileChanges, Inv, TypeOK, WorldType
  <2> QED
    BY <2>1 DEF ProgressInv
<1>2. CASE Ask
  BY <1>2 DEF Ask, ProgressInv
<1>3. CASE BeginAgain
  <2>1. feedToken' \in {FirstPage, ForeignToken} /\ ~ended'
    BY <1>3 DEF BeginAgain
  <2>2. pc = "idle" /\ response = None
    BY <1>3 DEF BeginAgain, Inv, CursorMatchesFeed, HandlerInv
  <2> QED
    BY <1>3, <2>1, <2>2, FirstPageAccounts DEF BeginAgain, ProgressInv
<1>4. CASE LoadPolicy
  <2>1. response = None
    BY <1>4 DEF LoadPolicy, Inv, CursorMatchesFeed, HandlerInv
  <2> QED
    BY <1>4, <2>1 DEF LoadPolicy, ProgressInv
<1>5. CASE OpenFails \/ NotFound \/ GmailFails \/ DeadlineExceeded
  <2>1. /\ response'.code # "ok" /\ pc' = "respond"
        /\ UNCHANGED <<env, pol, client>>
    BY <1>5 DEF OpenFails, NotFound, GmailFails, DeadlineExceeded, RespondWith, Failure,
       MapGmailError
  <2> QED
    BY <2>1 DEF ProgressInv
<1>6. CASE ResolveVisibilityLabel
  <2>1. /\ UNCHANGED <<env, pol, client>> /\ pc' \notin {"loop", "stop"}
        /\ response' = None \/ response'.code # "ok"
    BY <1>6 DEF ResolveVisibilityLabel, RespondWith, Failure, Inv, CursorMatchesFeed, HandlerInv
  <2> QED
    BY <2>1 DEF ProgressInv
<1>7. CASE StartSearch
  BY <1>7, StartKeepsAccount
<1>8. CASE FetchPage
  BY <1>8, FetchKeepsAccount
<1>9. CASE ReadMetadata
  BY <1>9, ReadKeepsAccount
<1>10. CASE EndSearch
  BY <1>10, EndKeepsAccount
<1>11. CASE ReadFull \/ EndDetail
  BY <1>11 DEF ReadFull, EndDetail, DetailDue, ProgressInv
<1>12. CASE Answer
  <2>1. /\ UNCHANGED env /\ pc' = "idle" /\ pol' = None /\ response' = None /\ response # None
    BY <1>12 DEF Answer, ClearHandler, Inv, CursorMatchesFeed, HandlerInv
  <2>2. CASE response.code = "ok"
    <3>1. /\ feed' = feed \o response.messages /\ feedToken' = response.pageToken
          /\ ended' <=> response.pageToken = FirstPage
      BY <1>12, <2>2 DEF Answer
    <3> QED
      BY <2>1, <2>2, <3>1 DEF ProgressInv
  <2>3. CASE response.code # "ok"
    BY <1>12, <2>1, <2>3 DEF Answer, ProgressInv
  <2> QED
    BY <2>2, <2>3
<1>13. CASE LoseAnswer
  BY <1>13 DEF LoseAnswer, ClearHandler, ProgressInv
<1>14. CASE UNCHANGED vars
  BY <1>14 DEF vars, ProgressInv
<1>15. CASE KeyringSticks \/ KeyringRecovers
  BY <1>15 DEF KeyringSticks, KeyringRecovers, ProgressInv
<1> QED
  BY <1>1, <1>2, <1>3, <1>4, <1>5, <1>6, <1>7, <1>8, <1>9, <1>10, <1>11, <1>12, <1>13,
     <1>14, <1>15 DEF Next, Handler

\* In a mailbox that stands still and is paged soundly, a feed that reached its end
\* has every listed message its policy allows, whatever limits it was asked for
\* with and whatever failed or was lost on the way (searchVisibleMessages and its
\* cursor; of the hidden ones it says nothing).
THEOREM SoundlyPagedFeedsAreComplete ==
    ASSUME BareTokens = {}
    PROVE  Spec => [](SoundlyPaged(mailbox) => FeedIsComplete)
<1>1. Init => ProgressInv
  BY ProgressInit
<1>2. Inv /\ ProgressInv /\ [Next]_vars => ProgressInv'
  BY ProgressStep
<1>3. ProgressInv => (SoundlyPaged(mailbox) => FeedIsComplete)
  BY DEF ProgressInv, FeedIsComplete, Undisturbed, Complete, Listed
<1> QED
  BY <1>1, <1>2, <1>3, InvAlways, PTL DEF Spec

\* The same where Gmail pages every state of the mailbox soundly.
THEOREM EndedFeedsAreComplete ==
    ASSUME SoundPaging
    PROVE  Spec => []FeedIsComplete
<1>1. BareTokens = {}
  BY DEF SoundPaging
<1>2. Inv => SoundlyPaged(mailbox)
  BY DEF SoundPaging, Inv, TypeOK, WorldType
<1>3. Spec => [](SoundlyPaged(mailbox) => FeedIsComplete)
  BY <1>1, SoundlyPagedFeedsAreComplete
<1> QED
  BY <1>2, <1>3, InvAlways, PTL

(***************************************************************************)
(* A search of a mailbox in which nothing is hidden fails only when Gmail  *)
(* does, where the context lasts for going through the listing twice.      *)
(***************************************************************************)
\* A listing goes through its pages at a cost: a call for each page and one for
\* each message on it.
Costs(b, pass) ==
    \A t \in PageTokens :
        LET page == b.listing[t]
        IN  1 + Len(page.messages) + (IF page.next = NoToken THEN 0 ELSE pass[page.next])
                <= pass[t]

\* The longest answer there is.
MostAnswered == IF MaxSearchResults <= 0 THEN DefaultSearchLimit ELSE MaxSearchResults

\* The context lasts for resolving the label, for two passes over the listing and
\* for the full messages of the longest answer.
Lasts(b, pass) == Costs(b, pass) /\ 1 + 2 * pass[NoToken] + MostAnswered <= CallBudget
Ample(b) == \E pass \in [PageTokens -> Nat] : Lasts(b, pass)
Pass(b) == CHOOSE pass \in [PageTokens -> Nat] : Lasts(b, pass)

\* Everything that is listed is there, and the policy shows it.
NothingHidden(p, b) ==
    \A t \in PageTokens : Range(b.listing[t].messages) \subseteq Allowed(p, b) \cap b.present

Healthy(p, b) == SoundlyPaged(b) /\ NothingHidden(p, b) /\ Ample(b)

\* What a search from a cursor may still cost.  The first page is listed anew only
\* once, to find that nothing is left.
Left(p, b, pending, returned, token) ==
    Len(pending) + Pass(b)[token]
        + (IF \/ Complete(p, b, returned)
              \/ token = NoToken /\ (pending # <<>> \/ returned # <<>>)
           THEN 0 ELSE Pass(b)[NoToken])

Cheap(p, b, pending, returned, token) ==
    /\ Range(pending) \subseteq b.present \cap Allowed(p, b)
    /\ Left(p, b, pending, returned, token) <= 2 * Pass(b)[NoToken]

CheapToken(token) ==
    Cheap(policyFile, mailbox, token.pendingIDs, token.returnedIDs, token.gmailPageToken)

GmailErrors == {"not_found", "rate_limited", "gmail_api_error"}

\* Until something changes or fails, whichever cursor is in play can be paid for
\* with the calls that are left.
HealthInv ==
    (changes = 0 /\ failures = 0 /\ Healthy(policyFile, mailbox)) =>
        /\ ~ended => CheapToken(feedToken)
        /\ pc \in {"policy", "resolve"} => calls = 0
        /\ pc = "start" => calls <= 1
        /\ pc \in {"loop", "stop", "detail"} =>
              /\ Range(visibleMessages) \subseteq mailbox.present
              /\ Len(visibleMessages) <= Limit
        /\ pc = "loop" =>
              /\ Cheap(policyFile, mailbox, pendingIDs, returnedIDs, gmailPageToken)
              /\ calls + Left(policyFile, mailbox, pendingIDs, returnedIDs, gmailPageToken)
                    <= 1 + 2 * Pass(mailbox)[NoToken]
        /\ pc = "stop" => calls <= 1 + 2 * Pass(mailbox)[NoToken]
        /\ pc = "detail" => calls <= 1 + 2 * Pass(mailbox)[NoToken] + shaped
        /\ response # None =>
              /\ response.code \notin GmailErrors
              /\ (response.code = "ok" /\ response.pageToken # FirstPage)
                    => CheapToken(response.pageToken)

\* The chosen costs are costs.
LEMMA PassIsACost ==
    ASSUME NEW b \in Mailboxes, Ample(b)
    PROVE  /\ 1 + 2 * Pass(b)[NoToken] + MostAnswered <= CallBudget
           /\ NoToken \in PageTokens
           /\ \A t \in PageTokens :
                 LET page == b.listing[t]
                 IN  /\ page.messages \in Seq(Messages) /\ page.next \in PageTokens
                     /\ Len(page.messages) \in Nat
                     /\ Pass(b)[t] \in Nat /\ 1 + Len(page.messages) <= Pass(b)[t]
                     /\ page.next # NoToken =>
                           1 + Len(page.messages) + Pass(b)[page.next] <= Pass(b)[t]
<1>1. Pass(b) \in [PageTokens -> Nat] /\ Lasts(b, Pass(b))
  BY DEF Ample, Pass
<1>2. NoToken \in PageTokens /\ \A t \in PageTokens : Pass(b)[t] \in Nat
  BY <1>1 DEF PageTokens
<1>3. b \in Mailbox
  BY SearchAssumption
<1>4. ASSUME NEW t \in PageTokens
      PROVE  LET page == b.listing[t]
             IN  /\ page.messages \in Seq(Messages) /\ page.next \in PageTokens
                 /\ Len(page.messages) \in Nat
                 /\ Pass(b)[t] \in Nat /\ 1 + Len(page.messages) <= Pass(b)[t]
                 /\ page.next # NoToken =>
                       1 + Len(page.messages) + Pass(b)[page.next] <= Pass(b)[t]
  <2> DEFINE page == b.listing[t]
  <2>1. page.messages \in Seq(Messages) /\ page.next \in PageTokens
    BY <1>3 DEF Mailbox, GmailPage
  <2>2. Len(page.messages) \in Nat
    BY <2>1
  <2>3. 1 + Len(page.messages) + (IF page.next = NoToken THEN 0 ELSE Pass(b)[page.next])
            <= Pass(b)[t]
    BY <1>1 DEF Lasts, Costs
  <2>4. Pass(b)[t] \in Nat /\ Pass(b)[page.next] \in Nat
    BY <1>2, <2>1
  <2> HIDE DEF page
  <2>5. /\ 1 + Len(page.messages) <= Pass(b)[t]
        /\ page.next # NoToken => 1 + Len(page.messages) + Pass(b)[page.next] <= Pass(b)[t]
    BY <2>2, <2>3, <2>4
  <2> QED
    BY <2>1, <2>2, <2>4, <2>5 DEF page
<1> QED
  BY <1>1, <1>2, <1>4 DEF Lasts

\* No answer is longer than the longest.
LEMMA LimitIsAtMost ==
    /\ MostAnswered \in Nat
    /\ \A l \in Int : NormalizeSearchLimit(l, MaxSearchResults) <= MostAnswered
BY SearchAssumption DEF NormalizeSearchLimit, MostAnswered

\* uniqueIDsExcluding lengthens nothing.
LEMMA UniqueIDsAreFewer ==
    ASSUME NEW S, NEW ids \in Seq(S), NEW excluded
    PROVE  /\ Len(UniqueIDsExcluding(ids, excluded)) \in Nat
           /\ Len(UniqueIDsExcluding(ids, excluded)) <= Len(ids)
<1> DEFINE P == FirstOccurrences(ids, excluded)
<1>1. Len(ids) \in Nat /\ DOMAIN ids = 1 .. Len(ids)
  OBVIOUS
<1>2. P \in SUBSET (1 .. Len(ids))
  BY <1>1 DEF FirstOccurrences
<1> HIDE DEF P
<1>3. Len(AtPositions(ids, P)) = Cardinality(P) /\ Len(AtPositions(ids, P)) \in Nat
  BY <1>2, AtPositionsProperties
<1>4. IsFiniteSet(1 .. Len(ids)) /\ Cardinality(1 .. Len(ids)) = Len(ids)
  BY <1>1, FS_Interval, 1 \in Int
<1>5. Cardinality(P) <= Cardinality(1 .. Len(ids))
  BY <1>2, <1>4, FS_Subset
<1> QED
  BY <1>3, <1>4, <1>5 DEF UniqueIDsExcluding, P

\* What is left is a number, at least that of the pending messages and a page.
LEMMA LeftIsACount ==
    ASSUME NEW p, NEW b \in Mailboxes, Ample(b), NEW pending \in Seq(Messages),
           NEW returned, NEW token \in PageTokens
    PROVE  /\ Left(p, b, pending, returned, token) \in Nat
           /\ 1 + Len(pending) <= Left(p, b, pending, returned, token)
<1>1. /\ Pass(b)[token] \in Nat /\ Pass(b)[NoToken] \in Nat
      /\ Len(b.listing[token].messages) \in Nat
      /\ 1 + Len(b.listing[token].messages) <= Pass(b)[token]
  BY PassIsACost
<1>2. Len(pending) \in Nat
  OBVIOUS
<1> QED
  BY <1>1, <1>2 DEF Left

\* A search from the first page can be paid for.
LEMMA FirstPageIsCheap ==
    ASSUME NEW p, NEW b \in Mailboxes, Ample(b)
    PROVE  Cheap(p, b, <<>>, <<>>, NoToken)
<1>1. Pass(b)[NoToken] \in Nat
  BY PassIsACost
<1>2. Range(<<>>) = {} /\ Len(<<>>) = 0
  BY DEF Range
<1> QED
  BY <1>1, <1>2 DEF Cheap, Left

\* It costs no more when pending identifiers that were returned are left out.
LEMMA StartIsCheap ==
    ASSUME NEW p, NEW b \in Mailboxes, Ample(b), NEW pending \in Seq(Messages),
           NEW returned \in Seq(Messages), NEW token \in PageTokens,
           Cheap(p, b, pending, returned, token)
    PROVE  Cheap(p, b, UniqueIDsExcluding(pending, Range(returned)), returned, token)
<1> DEFINE left == UniqueIDsExcluding(pending, Range(returned))
<1>1. /\ left \in Seq(Messages) /\ Range(left) \subseteq Range(pending)
      /\ Len(left) \in Nat /\ Len(left) <= Len(pending) /\ Len(pending) \in Nat
  BY UniqueIDsExcludingIsUnique, UniqueIDsAreFewer
<1>2. Range(pending) \ Range(returned) \subseteq Range(left)
  BY UniqueIDsExcludingIsComplete
<1> HIDE DEF left
<1>3. (pending # <<>> \/ returned # <<>>) => (left # <<>> \/ returned # <<>>)
  <2> SUFFICES ASSUME pending # <<>>, returned = <<>> PROVE left # <<>>
    OBVIOUS
  <2>1. 1 \in DOMAIN pending
    BY EmptySeq
  <2>2. pending[1] \in Range(pending) /\ Range(returned) = {}
    BY <2>1 DEF Range
  <2>3. Range(left) # {}
    BY <1>2, <2>2
  <2> QED
    BY <2>3 DEF Range
<1>4. Pass(b)[token] \in Nat /\ Pass(b)[NoToken] \in Nat
  BY PassIsACost
<1>5. Left(p, b, left, returned, token) <= Left(p, b, pending, returned, token)
  BY <1>1, <1>3, <1>4 DEF Left
<1>6. Left(p, b, left, returned, token) \in Nat /\ Left(p, b, pending, returned, token) \in Nat
  BY <1>1, LeftIsACount
<1> QED
  BY <1>1, <1>4, <1>5, <1>6 DEF Cheap, left

\* Reading a pending message that is not hidden uses up its call.
LEMMA ReadIsCheap ==
    ASSUME NEW p, NEW b \in Mailboxes, Ample(b), NEW pending \in Seq(Messages), pending # <<>>,
           NEW returned \in Seq(Messages), NEW after \in Seq(Messages), NEW token \in PageTokens,
           Range(returned) \subseteq Range(after), Head(pending) \in Range(after),
           Cheap(p, b, pending, returned, token)
    PROVE  /\ Cheap(p, b, Tail(pending), after, token)
           /\ Left(p, b, Tail(pending), after, token) + 1 <= Left(p, b, pending, returned, token)
<1>1. /\ Tail(pending) \in Seq(Messages) /\ Len(pending) \in Nat
      /\ Len(Tail(pending)) = Len(pending) - 1
      /\ \A i \in DOMAIN Tail(pending) : /\ i + 1 \in DOMAIN pending
                                         /\ Tail(pending)[i] = pending[i + 1]
  OBVIOUS
<1>2. Range(Tail(pending)) \subseteq Range(pending)
  BY <1>1 DEF Range
<1>3. after # <<>>
  BY DEF Range
<1>4. Complete(p, b, returned) => Complete(p, b, after)
  BY DEF Complete
<1>5. Pass(b)[token] \in Nat /\ Pass(b)[NoToken] \in Nat
  BY PassIsACost
<1>6. Left(p, b, Tail(pending), after, token) + 1 <= Left(p, b, pending, returned, token)
  BY <1>1, <1>3, <1>4, <1>5 DEF Left
<1>7. /\ Left(p, b, Tail(pending), after, token) \in Nat
      /\ Left(p, b, pending, returned, token) \in Nat
  BY <1>1, LeftIsACount
<1> QED
  BY <1>2, <1>5, <1>6, <1>7 DEF Cheap

\* So does listing a page, unless it ends the search.
LEMMA FetchIsCheap ==
    ASSUME NEW p, NEW b \in Mailboxes, Healthy(p, b),
           NEW returned \in Seq(Messages), NEW token \in PageTokens,
           Accounted(p, b, <<>>, returned, token), Cheap(p, b, <<>>, returned, token),
           NEW fresh, fresh = UniqueIDsExcluding(b.listing[token].messages, Range(returned)),
           ~Exhausted(fresh, b.listing[token].next)
    PROVE  /\ Cheap(p, b, fresh, returned, b.listing[token].next)
           /\ Left(p, b, fresh, returned, b.listing[token].next) + 1
                 <= Left(p, b, <<>>, returned, token)
<1> DEFINE page == b.listing[token]
<1>1. /\ page.messages \in Seq(Messages) /\ page.next \in PageTokens
      /\ Len(page.messages) \in Nat
      /\ Pass(b)[token] \in Nat /\ 1 + Len(page.messages) <= Pass(b)[token]
      /\ page.next # NoToken =>
            1 + Len(page.messages) + Pass(b)[page.next] <= Pass(b)[token]
      /\ Pass(b)[NoToken] \in Nat /\ Pass(b)[page.next] \in Nat
  BY PassIsACost DEF Healthy
<1>2. Range(page.messages) \subseteq Allowed(p, b) \cap b.present
  BY DEF Healthy, NothingHidden
<1>3. /\ fresh \in Seq(Messages) /\ Len(fresh) \in Nat /\ Len(fresh) <= Len(page.messages)
      /\ Range(fresh) \subseteq Range(page.messages) \ Range(returned)
  BY <1>1, UniqueIDsExcludingIsUnique, UniqueIDsAreFewer
<1>4. Complete(p, b, returned) => fresh = <<>>
  <2> SUFFICES ASSUME Complete(p, b, returned) PROVE fresh = <<>>
    OBVIOUS
  <2>1. Range(page.messages) \subseteq Range(returned)
    BY <1>2 DEF Complete, Listed
  <2>2. Range(fresh) = {}
    BY <1>3, <2>1
  <2>3. 1 \notin DOMAIN fresh
    BY <2>2 DEF Range
  <2> HIDE DEF page
  <2> QED
    BY <1>3, <2>3, EmptySeq
<1>5. (token = NoToken /\ returned # <<>>) => Complete(p, b, returned)
  <2> SUFFICES ASSUME token = NoToken, returned # <<>> PROVE Complete(p, b, returned)
    OBVIOUS
  <2>1. PICK read \in SUBSET PageTokens :
           /\ NoToken \in read
           /\ \A t \in read :
                 /\ b.listing[t].next \in read \cup {NoToken}
                 /\ Listed(p, b, t) \subseteq Range(<<>>) \cup Range(returned)
    BY DEF Accounted
  <2> QED
    BY <2>1, EndIsComplete DEF Healthy
<1>6. page.next # NoToken \/ fresh # <<>>
  BY DEF Exhausted
<1>7. Len(<<>>) = 0
  OBVIOUS
<1>8. Left(p, b, fresh, returned, page.next) + 1 <= Left(p, b, <<>>, returned, token)
  <2> HIDE DEF page
  <2>1. CASE Complete(p, b, returned)
    <3>1. Left(p, b, <<>>, returned, token) = Pass(b)[token]
      BY <1>1, <1>7, <2>1 DEF Left
    <3>2. fresh = <<>> /\ page.next # NoToken
      BY <1>4, <1>6, <2>1
    <3>3. Left(p, b, fresh, returned, page.next) = Pass(b)[page.next]
      BY <1>1, <1>7, <2>1, <3>2 DEF Left
    <3> QED
      BY <1>1, <3>1, <3>2, <3>3
  <2>2. CASE ~Complete(p, b, returned)
    <3>1. Left(p, b, <<>>, returned, token) = Pass(b)[token] + Pass(b)[NoToken]
      BY <1>1, <1>5, <1>7, <2>2 DEF Left
    <3>2. CASE page.next # NoToken
      <4>1. Left(p, b, fresh, returned, page.next)
               = Len(fresh) + Pass(b)[page.next] + Pass(b)[NoToken]
        BY <1>1, <1>3, <2>2, <3>2 DEF Left
      <4> QED
        BY <1>1, <1>3, <3>1, <3>2, <4>1
    <3>3. CASE page.next = NoToken
      <4>1. Left(p, b, fresh, returned, page.next) = Len(fresh) + Pass(b)[NoToken]
        BY <1>1, <1>3, <1>6, <2>2, <3>3 DEF Left
      <4> QED
        BY <1>1, <1>3, <3>1, <4>1
    <3> QED
      BY <3>2, <3>3
  <2> QED
    BY <2>1, <2>2
<1>9. /\ Left(p, b, fresh, returned, page.next) \in Nat
      /\ Left(p, b, <<>>, returned, token) \in Nat
  BY <1>1, <1>3, EmptySeq, LeftIsACount DEF Healthy
<1> QED
  BY <1>1, <1>2, <1>3, <1>8, <1>9 DEF Cheap

\* The mailbox, the policy and the cursor as the lemmas above take them.
LEMMA HealthyWorld ==
    ASSUME Inv, ProgressInv, changes = 0, Healthy(policyFile, mailbox)
    PROVE  /\ mailbox \in Mailboxes /\ SoundlyPaged(mailbox) /\ Ample(mailbox)
           /\ pol # None => pol = policyFile
           /\ Pass(mailbox)[NoToken] \in Nat /\ MostAnswered \in Nat
           /\ 1 + 2 * Pass(mailbox)[NoToken] + MostAnswered <= CallBudget
           /\ CallBudget \in Nat /\ calls \in Nat
           /\ pendingIDs \in Seq(Messages) /\ returnedIDs \in Seq(Messages)
           /\ visibleMessages \in Seq(Messages) /\ Len(visibleMessages) \in Nat
           /\ shaped \in Nat /\ shaped <= Len(visibleMessages)
           /\ gmailPageToken \in PageTokens
           /\ pc # "idle" => Limit \in Nat \ {0} /\ Limit <= MostAnswered
<1>1. /\ mailbox \in Mailboxes /\ SoundlyPaged(mailbox) /\ Ample(mailbox)
      /\ pol # None => pol = policyFile
  BY DEF Inv, TypeOK, WorldType, Healthy, ProgressInv
<1>2. /\ Pass(mailbox)[NoToken] \in Nat /\ MostAnswered \in Nat
      /\ 1 + 2 * Pass(mailbox)[NoToken] + MostAnswered <= CallBudget
  BY <1>1, PassIsACost, LimitIsAtMost
<1>3. CallBudget \in Nat /\ calls \in 0 .. CallBudget
  BY BoundTypes DEF Inv, TypeOK, HandlerType
<1>4. /\ pendingIDs \in Seq(Messages) /\ returnedIDs \in Seq(Messages)
      /\ visibleMessages \in Seq(Messages) /\ gmailPageToken \in PageTokens
      /\ shaped \in 0 .. Len(visibleMessages)
  BY DEF Inv, TypeOK, CursorType
<1>5. pc # "idle" => Limit \in Nat \ {0} /\ Limit <= MostAnswered
  <2> SUFFICES ASSUME pc # "idle" PROVE Limit \in Nat \ {0} /\ Limit <= MostAnswered
    OBVIOUS
  <2>1. req.limit \in Int
    BY SearchAssumption DEF Inv, CursorMatchesFeed, HandlerInv, Request
  <2> QED
    BY <2>1, LimitIsPositive, LimitIsAtMost DEF Limit
<1>6. Len(visibleMessages) \in Nat
  BY <1>4
<1> QED
  BY <1>1, <1>2, <1>3, <1>4, <1>5, <1>6

\* The initial state.
LEMMA HealthInit == Init => HealthInv
<1> SUFFICES ASSUME Init, Healthy(policyFile, mailbox) PROVE HealthInv
  BY DEF HealthInv
<1>1. CheapToken(feedToken)
  BY FirstPageIsCheap DEF Init, Healthy, CheapToken, FirstPage
<1> QED
  BY <1>1 DEF Init, HealthInv

\* No call comes too late.
LEMMA CallsAreInTime ==
    ASSUME Inv, ProgressInv, HealthInv, changes = 0, failures = 0,
           Healthy(policyFile, mailbox), CallDue
    PROVE  calls < CallBudget
<1>1. CASE pc = "resolve"
  BY <1>1, HealthyWorld DEF HealthInv
<1>2. CASE FetchDue \/ HeadDue
  <2> DEFINE left == Left(policyFile, mailbox, pendingIDs, returnedIDs, gmailPageToken)
  <2>1. left \in Nat /\ 1 + Len(pendingIDs) <= left /\ Len(pendingIDs) \in Nat
    BY HealthyWorld, LeftIsACount
  <2>2. calls + left <= 1 + 2 * Pass(mailbox)[NoToken]
    BY <1>2 DEF HealthInv, FetchDue, HeadDue, Wanting
  <2> HIDE DEF left
  <2> QED
    BY <2>1, <2>2, HealthyWorld
<1>3. CASE DetailDue
  <2>1. /\ calls <= 1 + 2 * Pass(mailbox)[NoToken] + shaped
        /\ Len(visibleMessages) <= Limit /\ shaped < Len(visibleMessages) /\ pc # "idle"
    BY <1>3 DEF HealthInv, DetailDue
  <2> QED
    BY <2>1, HealthyWorld
<1> QED
  BY <1>1, <1>2, <1>3 DEF CallDue

\* The client's cursor becomes the loop's.
LEMMA StartKeepsHealth ==
    ASSUME Inv, ProgressInv, HealthInv, StartSearch
    PROVE  HealthInv'
<1> SUFFICES ASSUME changes = 0, failures = 0, Healthy(policyFile, mailbox) PROVE HealthInv'
  BY DEF HealthInv, StartSearch, env
<1>1. /\ UNCHANGED <<mailbox, policyFile, changes, failures, calls, feedToken, ended,
                     visibleMessages, req>>
      /\ visibleMessages = <<>> /\ calls <= 1 /\ ~ended /\ CheapToken(feedToken)
      /\ req.pageToken = feedToken /\ feedToken \in PageToken /\ response = None
      /\ pc # "idle"
  BY DEF StartSearch, env, client, HealthInv, Inv, TypeOK, ClientType, CursorMatchesFeed, HandlerInv
<1>2. CASE pc' = "respond"
  <2>1. \/ response' = [code |-> "ok", messages |-> <<>>, pageToken |-> FirstPage]
        \/ response' = Failure("invalid_params")
    BY <1>2 DEF StartSearch, RespondWith
  <2>2. response'.code \notin GmailErrors
        /\ ~(response'.code = "ok" /\ response'.pageToken # FirstPage)
    BY <2>1 DEF Failure, GmailErrors
  <2> QED
    BY <1>1, <1>2, <2>2 DEF HealthInv, CheapToken
<1>3. CASE pc' = "loop" /\ response' = response /\ returnedIDs' = feedToken.returnedIDs
           /\ gmailPageToken' = feedToken.gmailPageToken
           /\ pendingIDs' = UniqueIDsExcluding(feedToken.pendingIDs, Range(feedToken.returnedIDs))
  <2>1. /\ feedToken.pendingIDs \in Seq(Messages) /\ feedToken.returnedIDs \in Seq(Messages)
        /\ feedToken.gmailPageToken \in PageTokens
    BY <1>1 DEF PageToken
  <2>2. /\ Cheap(policyFile, mailbox, pendingIDs', returnedIDs', gmailPageToken')
        /\ pendingIDs' \in Seq(Messages)
    BY <1>1, <1>3, <2>1, StartIsCheap, HealthyWorld, UniqueIDsExcludingIsUnique DEF CheapToken
  <2> DEFINE left == Left(policyFile, mailbox, pendingIDs', returnedIDs', gmailPageToken')
  <2>3. left \in Nat /\ left <= 2 * Pass(mailbox)[NoToken]
    BY <1>3, <2>1, <2>2, LeftIsACount, HealthyWorld DEF Cheap
  <2> HIDE DEF left
  <2>4. calls + left <= 1 + 2 * Pass(mailbox)[NoToken]
    BY <1>1, <2>3, HealthyWorld
  <2>5. Limit' = Limit /\ Limit >= 0 /\ Len(visibleMessages) = 0 /\ Range(visibleMessages) = {}
    BY <1>1, HealthyWorld DEF Limit, Range
  <2>6. /\ Len(visibleMessages') <= Limit' /\ Range(visibleMessages') \subseteq mailbox'.present
    BY <1>1, <2>5
  <2> QED
    BY <1>1, <1>3, <2>2, <2>4, <2>6 DEF HealthInv, CheapToken, left
<1> QED
  BY <1>1, <1>2, <1>3 DEF StartSearch, RespondWith

\* Listing a page.
LEMMA FetchKeepsHealth ==
    ASSUME Inv, ProgressInv, HealthInv, FetchPage
    PROVE  HealthInv'
<1> SUFFICES ASSUME changes = 0, failures = 0, Healthy(policyFile, mailbox) PROVE HealthInv'
  BY DEF HealthInv, FetchPage, env
<1> DEFINE page  == mailbox.listing[gmailPageToken]
           fresh == UniqueIDsExcluding(page.messages, Range(returnedIDs))
           full  == 1 + 2 * Pass(mailbox)[NoToken]
           left  == Left(policyFile, mailbox, <<>>, returnedIDs, gmailPageToken)
<1>1. /\ UNCHANGED <<mailbox, policyFile, changes, failures, feedToken, ended, returnedIDs,
                     visibleMessages, req, response>>
      /\ response = None /\ pc = "loop" /\ pendingIDs = <<>> /\ calls' = calls + 1
      /\ ~ended => CheapToken(feedToken)
      /\ Range(visibleMessages) \subseteq mailbox.present /\ Len(visibleMessages) <= Limit
      /\ Cheap(policyFile, mailbox, <<>>, returnedIDs, gmailPageToken) /\ calls + left <= full
      /\ Accounted(policyFile, mailbox, <<>>, returnedIDs, gmailPageToken)
  BY DEF FetchPage, FetchDue, Wanting, UseCall, env, client, HealthInv, Inv, CursorMatchesFeed,
     HandlerInv, ProgressInv, Healthy
<1>2. ~(gmailPageToken # NoToken /\ page.next = gmailPageToken)
  BY HealthyWorld DEF SoundlyPaged, PageTokens
<1>3. /\ pendingIDs' = fresh /\ gmailPageToken' = page.next
      /\ pc' = IF Exhausted(fresh, page.next) THEN "stop" ELSE "loop"
  BY <1>2 DEF FetchPage
<1>4. /\ left \in Nat /\ 1 <= left /\ full \in Nat /\ calls \in Nat
  <2>1. <<>> \in Seq(Messages) /\ Len(<<>>) = 0
    OBVIOUS
  <2>2. left \in Nat /\ 1 + Len(<<>>) <= left
    BY <2>1, HealthyWorld, LeftIsACount
  <2> HIDE DEF left
  <2> QED
    BY <2>1, <2>2, HealthyWorld
<1>5. Limit' = Limit
  BY <1>1 DEF Limit
<1>6. CASE pc' = "stop"
  <2>1. calls' <= full
    <3> HIDE DEF left, full
    <3> QED
      BY <1>1, <1>4
  <2> QED
    BY <1>1, <1>5, <1>6, <2>1 DEF HealthInv, CheapToken
<1>7. CASE pc' = "loop"
  <2> DEFINE then == Left(policyFile, mailbox, fresh, returnedIDs, page.next)
  <2>1. /\ Cheap(policyFile, mailbox, fresh, returnedIDs, page.next)
        /\ then + 1 <= left
    BY <1>1, <1>3, <1>7, FetchIsCheap, HealthyWorld
  <2>2. fresh \in Seq(Messages) /\ page.next \in PageTokens
    BY HealthyWorld, PassIsACost, UniqueIDsExcludingIsUnique
  <2>3. then \in Nat
    BY <2>2, HealthyWorld, LeftIsACount
  <2>4. calls' + then <= full
    <3> HIDE DEF left, full, then
    <3> QED
      BY <1>1, <1>4, <2>1, <2>3
  <2> QED
    BY <1>1, <1>3, <1>5, <1>7, <2>1, <2>4 DEF HealthInv, CheapToken
<1> QED
  BY <1>3, <1>6, <1>7

\* Looking at a pending message, which is neither hidden nor gone.
LEMMA ReadKeepsHealth ==
    ASSUME Inv, ProgressInv, HealthInv, ReadMetadata
    PROVE  HealthInv'
<1> SUFFICES ASSUME changes = 0, failures = 0, Healthy(policyFile, mailbox) PROVE HealthInv'
  BY DEF HealthInv, ReadMetadata, env
<1> DEFINE m     == Head(pendingIDs)
           full  == 1 + 2 * Pass(mailbox)[NoToken]
           left  == Left(policyFile, mailbox, pendingIDs, returnedIDs, gmailPageToken)
           then  == Left(policyFile, mailbox, Tail(pendingIDs), returnedIDs', gmailPageToken)
<1>1. /\ UNCHANGED <<mailbox, policyFile, changes, failures, feedToken, ended, pc,
                     gmailPageToken, req, response>>
      /\ response = None /\ pc = "loop" /\ pendingIDs # <<>> /\ calls' = calls + 1
      /\ pendingIDs' = Tail(pendingIDs) /\ m \in mailbox.present
      /\ ~ended => CheapToken(feedToken)
      /\ Range(visibleMessages) \subseteq mailbox.present /\ Len(visibleMessages) < Limit
      /\ Cheap(policyFile, mailbox, pendingIDs, returnedIDs, gmailPageToken)
      /\ calls + left <= full
  BY DEF ReadMetadata, HeadDue, Wanting, UseCall, env, client, HealthInv, Inv, CursorMatchesFeed,
     HandlerInv
<1>2. m \in Messages /\ m \in Range(pendingIDs) /\ Tail(pendingIDs) \in Seq(Messages)
  <2>1. m = pendingIDs[1] /\ 1 \in DOMAIN pendingIDs /\ Tail(pendingIDs) \in Seq(Messages)
    BY <1>1, HealthyWorld, EmptySeq
  <2>2. pendingIDs[1] \in Range(pendingIDs) /\ pendingIDs[1] \in Messages
    BY <2>1, HealthyWorld DEF Range
  <2> QED
    BY <2>1, <2>2
<1>3. m \in Allowed(policyFile, mailbox) /\ pol = policyFile
  BY <1>1, <1>2, HealthyWorld, SearchAssumption DEF Cheap, Inv, CursorMatchesFeed, HandlerInv
<1>4. /\ returnedIDs' \in Seq(Messages) /\ Range(returnedIDs) \subseteq Range(returnedIDs')
      /\ m \in Range(returnedIDs')
      /\ Range(visibleMessages') \subseteq mailbox.present /\ Len(visibleMessages') <= Limit
  <2>1. CASE Returnable(m)
    <3>1. visibleMessages' = Append(visibleMessages, m) /\ returnedIDs' = Append(returnedIDs, m)
      BY <2>1 DEF ReadMetadata
    <3>2. /\ Range(Append(returnedIDs, m)) = Range(returnedIDs) \cup {m}
          /\ Range(Append(visibleMessages, m)) = Range(visibleMessages) \cup {m}
      BY <1>2, HealthyWorld, AppendNew
    <3>3. /\ Append(returnedIDs, m) \in Seq(Messages)
          /\ Len(Append(visibleMessages, m)) = Len(visibleMessages) + 1
      BY <1>2, HealthyWorld, AppendProperties
    <3>4. Len(visibleMessages) + 1 <= Limit
      BY <1>1, HealthyWorld
    <3> HIDE DEF m
    <3> QED
      BY <1>1, <3>1, <3>2, <3>3, <3>4
  <2>2. CASE ~Returnable(m)
    <3>1. visibleMessages' = visibleMessages /\ returnedIDs' = returnedIDs
      BY <2>2 DEF ReadMetadata
    <3>2. m \in Range(returnedIDs)
      BY <1>3, <2>2 DEF Returnable, Allowed
    <3>3. Len(visibleMessages) <= Limit
      BY <1>1, HealthyWorld
    <3> QED
      BY <1>1, <3>1, <3>2, <3>3, HealthyWorld
  <2> QED
    BY <2>1, <2>2
<1>5. /\ Cheap(policyFile, mailbox, Tail(pendingIDs), returnedIDs', gmailPageToken)
      /\ then + 1 <= left
  BY <1>1, <1>4, ReadIsCheap, HealthyWorld
<1>6. left \in Nat /\ then \in Nat
  BY <1>2, <1>4, HealthyWorld, LeftIsACount
<1>7. calls' + then <= full
  <2>1. full \in Nat /\ calls \in Nat
    BY HealthyWorld
  <2> HIDE DEF left, then, full
  <2> QED
    BY <1>1, <1>5, <1>6, <2>1
<1>8. Limit' = Limit
  BY <1>1 DEF Limit
<1> QED
  BY <1>1, <1>4, <1>5, <1>7, <1>8 DEF HealthInv, CheapToken

\* What is left of the listing becomes the next page token.
LEMMA EndKeepsHealth ==
    ASSUME Inv, ProgressInv, HealthInv, EndSearch
    PROVE  HealthInv'
<1> SUFFICES ASSUME changes = 0, failures = 0, Healthy(policyFile, mailbox) PROVE HealthInv'
  BY DEF HealthInv, EndSearch, env
<1> DEFINE full == 1 + 2 * Pass(mailbox)[NoToken]
           left == Left(policyFile, mailbox, pendingIDs, returnedIDs, gmailPageToken)
<1>1. /\ UNCHANGED <<mailbox, policyFile, changes, failures, feedToken, ended, req, calls,
                     visibleMessages, shaped>>
      /\ pc \in {"loop", "stop"} /\ pc' \in {"detail", "respond"}
      /\ response'.code = "ok"
      /\ response'.pageToken = EncodeSearchPageToken(EffectiveQuery, pendingIDs, returnedIDs,
                                                     gmailPageToken)
      /\ ~ended => CheapToken(feedToken)
      /\ Range(visibleMessages) \subseteq mailbox.present /\ Len(visibleMessages) <= Limit
  BY DEF EndSearch, env, loop, client, HealthInv
<1>2. response'.pageToken # FirstPage => CheapToken(response'.pageToken)
  <2> SUFFICES ASSUME response'.pageToken # FirstPage PROVE CheapToken(response'.pageToken)
    OBVIOUS
  <2>1. pc = "loop"
    BY <1>1 DEF EncodeSearchPageToken, Inv, CursorMatchesFeed, HandlerInv
  <2>2. Cheap(policyFile, mailbox, pendingIDs, returnedIDs, gmailPageToken)
    BY <2>1 DEF HealthInv
  <2> QED
    BY <1>1, <2>2 DEF EncodeSearchPageToken, CheapToken
<1>3. calls <= full + shaped
  <2>1. CASE pc = "loop"
    <3>1. left \in Nat /\ calls + left <= full
      BY <2>1, HealthyWorld, LeftIsACount DEF HealthInv
    <3>2. full \in Nat /\ calls \in Nat /\ shaped \in Nat
      BY HealthyWorld
    <3> HIDE DEF left, full
    <3> QED
      BY <3>1, <3>2
  <2>2. CASE pc = "stop"
    <3>1. calls <= full /\ full \in Nat /\ calls \in Nat /\ shaped \in Nat
      BY <2>2, HealthyWorld DEF HealthInv
    <3> HIDE DEF full
    <3> QED
      BY <3>1
  <2> QED
    BY <1>1, <2>1, <2>2
<1>4. Limit' = Limit /\ "ok" \notin GmailErrors
  BY <1>1 DEF Limit, GmailErrors
<1> QED
  BY <1>1, <1>2, <1>3, <1>4 DEF HealthInv, CheapToken

\* Fetching a full message is paid for by the answer's length.
LEMMA DetailKeepsHealth ==
    ASSUME Inv, ProgressInv, HealthInv, ReadFull \/ EndDetail
    PROVE  HealthInv'
<1> SUFFICES ASSUME changes = 0, failures = 0, Healthy(policyFile, mailbox) PROVE HealthInv'
  BY DEF HealthInv, ReadFull, EndDetail, env
<1>1. /\ UNCHANGED <<mailbox, policyFile, changes, failures, feedToken, ended, req,
                     visibleMessages, response>>
      /\ pc = "detail" /\ Limit' = Limit
  BY DEF ReadFull, EndDetail, DetailDue, env, loop, client, Limit
<1>2. CASE ReadFull
  <2>1. calls <= 1 + 2 * Pass(mailbox)[NoToken] + shaped
    BY <1>1 DEF HealthInv
  <2>2. calls' = calls + 1 /\ shaped' = shaped + 1 /\ pc' = "detail"
    BY <1>1, <1>2 DEF ReadFull, UseCall
  <2>3. calls' <= 1 + 2 * Pass(mailbox)[NoToken] + shaped'
    BY <2>1, <2>2, HealthyWorld
  <2> QED
    BY <1>1, <2>2, <2>3 DEF HealthInv, CheapToken
<1>3. CASE EndDetail
  <2>1. pc' = "respond"
    BY <1>3 DEF EndDetail
  <2> QED
    BY <1>1, <2>1 DEF HealthInv, CheapToken
<1> QED
  BY <1>2, <1>3

\* Neither a missing message nor the deadline ends a request.
LEMMA NothingIsMissing ==
    ASSUME Inv, ProgressInv, HealthInv, NotFound \/ DeadlineExceeded
    PROVE  HealthInv'
<1> SUFFICES ASSUME changes = 0, failures = 0, Healthy(policyFile, mailbox) PROVE FALSE
  BY DEF HealthInv, NotFound, DeadlineExceeded, env
<1>1. CASE NotFound
  <2>1. CASE HeadDue /\ Head(pendingIDs) \notin mailbox.present
    <3>1. pendingIDs # <<>> /\ Range(pendingIDs) \subseteq mailbox.present
      BY <2>1 DEF HeadDue, Wanting, HealthInv, Cheap
    <3>2. Head(pendingIDs) = pendingIDs[1] /\ 1 \in DOMAIN pendingIDs
      BY <3>1, HealthyWorld, EmptySeq
    <3> QED
      BY <2>1, <3>1, <3>2 DEF Range
  <2>2. CASE DetailDue /\ visibleMessages[shaped + 1] \notin mailbox.present
    <3>1. shaped + 1 \in DOMAIN visibleMessages
      BY <2>2, HealthyWorld DEF DetailDue
    <3>2. Range(visibleMessages) \subseteq mailbox.present
      BY <2>2 DEF DetailDue, HealthInv
    <3> QED
      BY <2>2, <3>1, <3>2 DEF Range
  <2> QED
    BY <1>1, <2>1, <2>2 DEF NotFound
<1>2. CASE DeadlineExceeded
  <2>1. calls < CallBudget /\ calls = CallBudget
    BY <1>2, CallsAreInTime DEF DeadlineExceeded
  <2> QED
    BY <2>1, HealthyWorld
<1> QED
  BY <1>1, <1>2

\* Every step keeps what is left within what the context lasts for.
LEMMA HealthStep ==
    BareTokens = {} /\ Inv /\ ProgressInv /\ HealthInv /\ [Next]_vars => HealthInv'
<1> SUFFICES ASSUME BareTokens = {}, Inv, ProgressInv, HealthInv, [Next]_vars PROVE HealthInv'
  OBVIOUS
<1> USE DEF env, loop, client
<1>1. CASE MailboxChanges \/ PolicyFileChanges
  <2>1. changes' # 0
    BY <1>1 DEF MailboxChanges, PolicyFileChanges, Inv, TypeOK, WorldType
  <2> QED
    BY <2>1 DEF HealthInv
<1>2. CASE Ask
  <2>1. response = None /\ pc' = "policy" /\ calls' = 0
    BY <1>2 DEF Ask, Inv, CursorMatchesFeed, HandlerInv
  <2> QED
    BY <1>2, <2>1 DEF Ask, HealthInv, CheapToken
<1>3. CASE BeginAgain
  <2>1. /\ feedToken' \in {FirstPage, ForeignToken} /\ pc = "idle" /\ response = None
        /\ UNCHANGED <<mailbox, policyFile, changes, failures, pc, response>>
    BY <1>3 DEF BeginAgain, Inv, CursorMatchesFeed, HandlerInv
  <2>2. Healthy(policyFile, mailbox) => Cheap(policyFile, mailbox, <<>>, <<>>, NoToken)
    BY FirstPageIsCheap DEF Healthy, Inv, TypeOK, WorldType
  <2>3. /\ feedToken'.pendingIDs = <<>> /\ feedToken'.returnedIDs = <<>>
        /\ feedToken'.gmailPageToken = NoToken
    BY <2>1 DEF FirstPage, ForeignToken
  <2> QED
    BY <2>1, <2>2, <2>3 DEF HealthInv, CheapToken
<1>4. CASE LoadPolicy
  <2>1. response = None /\ response' = None /\ pc = "policy" /\ pc' \in {"start", "resolve"}
    BY <1>4 DEF LoadPolicy, Inv, CursorMatchesFeed, HandlerInv
  <2> QED
    BY <1>4, <2>1 DEF LoadPolicy, HealthInv, CheapToken
<1>5. CASE OpenFails \/ GmailFails
  <2>1. failures' # 0
    BY <1>5 DEF OpenFails, GmailFails, Inv, TypeOK, WorldType
  <2> QED
    BY <2>1 DEF HealthInv
<1>6. CASE ResolveVisibilityLabel
  <2>1. /\ UNCHANGED <<mailbox, policyFile, changes, failures, feedToken, ended>>
        /\ pc = "resolve" /\ calls' = calls + 1
        /\ \/ pc' = "start" /\ response' = None
           \/ pc' = "respond" /\ response' = Failure("internal_error")
    BY <1>6 DEF ResolveVisibilityLabel, UseCall, RespondWith, Inv, CursorMatchesFeed, HandlerInv
  <2>2. Failure("internal_error").code \notin GmailErrors \cup {"ok"}
    BY DEF Failure, GmailErrors
  <2> QED
    BY <2>1, <2>2 DEF HealthInv, CheapToken
<1>7. CASE StartSearch
  BY <1>7, StartKeepsHealth
<1>8. CASE FetchPage
  BY <1>8, FetchKeepsHealth
<1>9. CASE ReadMetadata
  BY <1>9, ReadKeepsHealth
<1>10. CASE EndSearch
  BY <1>10, EndKeepsHealth
<1>11. CASE ReadFull \/ EndDetail
  BY <1>11, DetailKeepsHealth
<1>12. CASE NotFound \/ DeadlineExceeded
  BY <1>12, NothingIsMissing
<1>13. CASE Answer
  <2>1. /\ UNCHANGED <<mailbox, policyFile, changes, failures>>
        /\ pc' = "idle" /\ response' = None /\ response # None
    BY <1>13 DEF Answer, ClearHandler, Inv, CursorMatchesFeed, HandlerInv
  <2>2. CASE response.code = "ok"
    <3>1. feedToken' = response.pageToken /\ (ended' <=> response.pageToken = FirstPage)
      BY <1>13, <2>2 DEF Answer
    <3> QED
      BY <2>1, <2>2, <3>1 DEF HealthInv, CheapToken
  <2>3. CASE response.code # "ok"
    BY <1>13, <2>1, <2>3 DEF Answer, HealthInv, CheapToken
  <2> QED
    BY <2>2, <2>3
<1>14. CASE LoseAnswer
  BY <1>14 DEF LoseAnswer, ClearHandler, HealthInv, CheapToken
<1>15. CASE UNCHANGED vars
  BY <1>15 DEF vars, HealthInv, CheapToken, Limit
<1>16. CASE KeyringSticks \/ KeyringRecovers
  <2>1. failures' # 0
    BY <1>16 DEF KeyringSticks, KeyringRecovers, Inv, TypeOK, WorldType
  <2> QED
    BY <2>1 DEF HealthInv
<1> QED
  BY <1>1, <1>2, <1>3, <1>4, <1>5, <1>6, <1>7, <1>8, <1>9, <1>10, <1>11, <1>12, <1>13,
     <1>14, <1>15, <1>16 DEF Next, Handler

\* In a mailbox that stands still, where nothing that is listed is hidden or gone
\* and the context lasts for two passes over the listing, a search is answered
\* with a Gmail error only when Gmail fails: the loop lists the first page again
\* once at most, wherever the client's pages end (searchVisibleMessages).
THEOREM HealthySearchesSucceed ==
    ASSUME BareTokens = {}
    PROVE  Spec => [](Healthy(policyFile, mailbox) => HealthySearchSucceeds)
<1>1. Init => ProgressInv /\ HealthInv
  BY ProgressInit, HealthInit
<1>2. Inv /\ ProgressInv /\ HealthInv /\ [Next]_vars => ProgressInv' /\ HealthInv'
  BY ProgressStep, HealthStep
<1>3. HealthInv => (Healthy(policyFile, mailbox) => HealthySearchSucceeds)
  BY DEF HealthInv, HealthySearchSucceeds, Undisturbed, GmailErrors
<1> QED
  BY <1>1, <1>2, <1>3, InvAlways, PTL DEF Spec

=============================================================================
