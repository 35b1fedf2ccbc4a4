-------------------------- MODULE ThreadSearchProofs -------------------------
(***************************************************************************)
(* Proofs about ThreadSearch, for every mailbox of threads, policy, page   *)
(* size and budget: what a summary tells of its thread, and that the       *)
(* search is the search for messages, so that what is proved of that       *)
(* search (MessageSearchProofs) is true of this one.                       *)
(***************************************************************************)
EXTENDS ThreadSearch, SearchIDsProofs

(***************************************************************************)
(* Summaries.                                                              *)
(***************************************************************************)
\* s is the summary of the messages of its thread that a view shows.
Tells(s, view) ==
    /\ Shown(s.thread, view) # <<>>
    /\ s = BuildThreadSummary(s.thread, Shown(s.thread, view))

\* The dates that are shown are Gmail's, rounded down: they keep their order.
LEMMA ReceivedInOrder ==
    /\ \A m \in Messages : ReceivedAt(m) \in Nat /\ InternalDate[m] \in Nat
    /\ \A m, n \in Messages :
          InternalDate[m] <= InternalDate[n] => ReceivedAt(m) <= ReceivedAt(n)
<1>1. \A d \in Nat : d \div 1000 \in Nat
  OBVIOUS
<1>2. \A d, e \in Nat : d <= e => d \div 1000 <= e \div 1000
  OBVIOUS
<1>3. \A m \in Messages : InternalDate[m] \in Nat
  BY ThreadSearchAssumption
<1> QED
  BY <1>1, <1>2, <1>3 DEF ReceivedAt

\* The messages of a thread that a view shows, each once.
LEMMA ShownProperties ==
    ASSUME NEW thread, NEW view \in SUBSET Messages
    PROVE  /\ Shown(thread, view) \in Seq(Messages)
           /\ IsInjective(Shown(thread, view))
           /\ Range(Shown(thread, view)) = {m \in view : ThreadOf[m] = thread}
<1> DEFINE T == {m \in view : ThreadOf[m] = thread}
<1>1. /\ MessageOrder \in Seq(Messages) /\ IsInjective(MessageOrder)
      /\ Range(MessageOrder) = Messages
  BY ThreadSearchAssumption
<1> HIDE DEF T
<1>2. /\ Keep(MessageOrder, T) \in Seq(Messages)
      /\ Range(Keep(MessageOrder, T)) = Messages \cap T
      /\ IsInjective(Keep(MessageOrder, T))
  BY <1>1, KeepProperties
<1> QED
  BY <1>2 DEF Shown, MessagesOf, T

\* The fields of a summary.
LEMMA SummaryFields ==
    ASSUME NEW s, NEW thread, NEW visible, s = BuildThreadSummary(thread, visible)
    PROVE  /\ s.thread = thread
           /\ s.newest = SummaryNewest(visible) /\ s.count = Len(visible)
           /\ s.participants = UNION {MessageParticipants(m) : m \in Range(visible)}
           /\ s.lastMessageAt = ReceivedAt(SummaryNewest(visible))
BY DEF BuildThreadSummary

\* What the policy leaves of a thread is what its view shows of it.
LEMMA VisibleIsShown ==
    ASSUME NEW p, NEW box \in MailStates, NEW thread
    PROVE  /\ VisibleThreadMessages(p, box, thread) = Shown(thread, View(p, box))
           /\ View(p, box) \in SUBSET Messages
<1> DEFINE inThread == {m \in box.present : ThreadOf[m] = thread}
           allowed  == {m \in box.present : AllowsMessage(p, m, box.labels[m])}
<1>1. Keep(Keep(MessageOrder, inThread), allowed) = Keep(MessageOrder, inThread \cap allowed)
  BY ThreadSearchAssumption, KeepOfKeep
<1>2. inThread \cap allowed = {m \in allowed : ThreadOf[m] = thread}
  OBVIOUS
<1>3. box.present \in SUBSET Messages
  BY ThreadSearchAssumption DEF MailState
<1> QED
  BY <1>1, <1>2, <1>3 DEF VisibleThreadMessages, Shown, MessagesOf, View

\* The message a summary shows is the first of the greatest date.
LEMMA NewestIsFirst ==
    ASSUME NEW s \in Seq(Messages), s # <<>>, NEW date \in [Messages -> Nat]
    PROVE  \E i \in DOMAIN s : /\ NewestMessage(s, date) = s[i]
                               /\ \A j \in DOMAIN s : date[s[j]] <= date[s[i]]
                               /\ \A j \in 1 .. i - 1 : date[s[j]] < date[s[i]]
BY FirstOfTheGreatest DEF NewestMessage

\* A summary says what the view it was made from shows.
LEMMA SummaryDescribes ==
    ASSUME NEW s, NEW view \in SUBSET Messages, Tells(s, view)
    PROVE  Describes(s, view)
<1> DEFINE shown == Shown(s.thread, view)
           date  == [m \in Messages |-> ReceivedAt(m)]
<1>1. shown \in Seq(Messages) /\ IsInjective(shown) /\ shown # <<>>
  BY ShownProperties DEF Tells
<1>2. /\ s.newest = SummaryNewest(shown) /\ s.count = Len(shown)
      /\ s.participants = UNION {MessageParticipants(m) : m \in Range(shown)}
      /\ s.lastMessageAt = ReceivedAt(SummaryNewest(shown))
  BY SummaryFields DEF Tells
<1>3. s.count = Cardinality(Range(shown))
  BY <1>1, <1>2, LengthCounts
<1>4. date \in [Messages -> Nat]
  BY ReceivedInOrder
<1>5. PICK i \in DOMAIN shown : /\ s.newest = shown[i]
                                /\ \A j \in DOMAIN shown : date[shown[j]] <= date[shown[i]]
  BY <1>1, <1>2, <1>4, NewestIsFirst DEF SummaryNewest
<1>6. \A j \in DOMAIN shown : date[shown[j]] = ReceivedAt(shown[j])
  BY <1>1
<1>7. \A m \in Range(shown) : ReceivedAt(m) <= s.lastMessageAt
  BY <1>2, <1>5, <1>6 DEF Range
<1>8. s.newest \in Range(shown)
  BY <1>5 DEF Range
<1> QED
  BY <1>2, <1>3, <1>7, <1>8 DEF Describes

\* A reply drafted at the moment a summary tells of answers the message it shows,
\* or one that came later in the same second.
LEMMA AnchorIsListed ==
    ASSUME NEW s, NEW view \in SUBSET Messages, Tells(s, view)
    PROVE  LET anchor == NewestMessage(Shown(s.thread, view), InternalDate)
           IN  /\ ReceivedAt(anchor) = s.lastMessageAt
               /\ anchor # s.newest =>
                     /\ ReceivedAt(s.newest) = ReceivedAt(anchor)
                     /\ InternalDate[s.newest] < InternalDate[anchor]
<1> DEFINE shown  == Shown(s.thread, view)
           date   == [m \in Messages |-> ReceivedAt(m)]
           anchor == NewestMessage(shown, InternalDate)
<1>1. shown \in Seq(Messages) /\ shown # <<>>
  BY ShownProperties DEF Tells
<1>2. s.newest = SummaryNewest(shown) /\ s.lastMessageAt = ReceivedAt(s.newest)
  BY SummaryFields DEF Tells
<1>3. date \in [Messages -> Nat] /\ InternalDate \in [Messages -> Nat]
  BY ReceivedInOrder, ThreadSearchAssumption
<1>4. PICK n \in DOMAIN shown : /\ s.newest = shown[n]
                                /\ \A j \in DOMAIN shown : date[shown[j]] <= date[shown[n]]
                                /\ \A j \in 1 .. n - 1 : date[shown[j]] < date[shown[n]]
  BY <1>1, <1>2, <1>3, NewestIsFirst DEF SummaryNewest
<1>5. PICK a \in DOMAIN shown :
         /\ anchor = shown[a]
         /\ \A j \in DOMAIN shown : InternalDate[shown[j]] <= InternalDate[shown[a]]
         /\ \A j \in 1 .. a - 1 : InternalDate[shown[j]] < InternalDate[shown[a]]
  BY <1>1, <1>3, NewestIsFirst
<1>6. /\ DOMAIN shown = 1 .. Len(shown) /\ Len(shown) \in Nat
      /\ \A j \in DOMAIN shown : shown[j] \in Messages
      /\ \A m \in Messages : date[m] = ReceivedAt(m)
  BY <1>1
<1> HIDE DEF shown, date, anchor
<1>7. ReceivedAt(shown[n]) = ReceivedAt(shown[a])
  <2>1. ReceivedAt(shown[a]) <= ReceivedAt(shown[n])
    BY <1>4, <1>6
  <2>2. ReceivedAt(shown[n]) <= ReceivedAt(shown[a])
    BY <1>5, <1>6, ReceivedInOrder
  <2> QED
    BY <1>6, <2>1, <2>2, ReceivedInOrder
<1>8. ASSUME a # n PROVE InternalDate[shown[n]] < InternalDate[shown[a]]
  <2>1. a \notin 1 .. n - 1
    <3>1. ReceivedAt(shown[n]) \in Nat
      BY <1>6, ReceivedInOrder
    <3> QED
      BY <1>4, <1>6, <1>7, <3>1
  <2>2. n \in 1 .. a - 1
    BY <1>6, <1>8, <2>1
  <2> QED
    BY <1>5, <2>2
<1>9. /\ ReceivedAt(anchor) = s.lastMessageAt
      /\ anchor # s.newest =>
            /\ ReceivedAt(s.newest) = ReceivedAt(anchor)
            /\ InternalDate[s.newest] < InternalDate[anchor]
  BY <1>2, <1>4, <1>5, <1>7, <1>8
<1> QED
  BY <1>9 DEF anchor, shown

\* What the summary of visible messages is made of.
LEMMA SummaryType ==
    ASSUME NEW thread \in Threads, NEW visible \in Seq(Messages), visible # <<>>
    PROVE  BuildThreadSummary(thread, visible) \in Summary
<1>1. ASSUME NEW m \in Messages
      PROVE  MessageParticipants(m) \in SUBSET (Addresses \cup {Malformed})
  <2> DEFINE h == Headers[m]
             first == SubSeq(h.from, 1, IF h.from = <<>> THEN 0 ELSE 1)
             all == first \o h.to \o h.cc \o h.bcc
  <2>1. /\ h.from \in Seq(Value) /\ h.to \in Seq(Value)
        /\ h.cc \in Seq(Value) /\ h.bcc \in Seq(Value)
    BY <1>1, ThreadSearchAssumption DEF People
  <2>2. first \in Seq(Value)
    <3>1. CASE h.from = <<>>
      <4>1. first = <<>>
        BY <3>1
      <4> QED
        BY <4>1
    <3>2. CASE h.from # <<>>
      <4>1. Len(h.from) \in Nat /\ Len(h.from) # 0
        BY <2>1, <3>2
      <4> QED
        BY <2>1, <3>2, <4>1, SubSeqProperties
    <3> QED
      BY <3>1, <3>2
  <2> HIDE DEF first, h
  <2>3. all \in Seq(Value)
    BY <2>1, <2>2
  <2> HIDE DEF all
  <2>4. \A i \in DOMAIN all : Lower(all)[i] \in Addresses \cup {Malformed}
    <3>1. \A i \in DOMAIN all : all[i] \in Written \cup {Malformed}
      BY <2>3 DEF Value
    <3> QED
      BY <3>1 DEF Lower, Written
  <2>5. DOMAIN Lower(all) = DOMAIN all
    BY DEF Lower
  <2> QED
    BY <2>4, <2>5 DEF MessageParticipants, Range, all, first, h
<1>2. \A i \in DOMAIN visible : visible[i] \in Messages
  OBVIOUS
<1>3. Range(visible) \subseteq Messages
  BY <1>2 DEF Range
<1>4. SummaryNewest(visible) \in Messages
  <2>1. [m \in Messages |-> ReceivedAt(m)] \in [Messages -> Nat]
    BY ReceivedInOrder
  <2> QED
    BY <1>2, <2>1, NewestIsFirst DEF SummaryNewest
<1>5. UNION {MessageParticipants(m) : m \in Range(visible)}
         \in SUBSET (Addresses \cup {Malformed})
  BY <1>1, <1>3
<1>6. Len(visible) \in Nat /\ ReceivedAt(SummaryNewest(visible)) \in Nat
  BY <1>4, ReceivedInOrder
<1> QED
  BY <1>4, <1>5, <1>6 DEF BuildThreadSummary, Summary

(***************************************************************************)
(* The invariant: what each stage of the handler has at hand, and that it  *)
(* tells only of what was visible.                                         *)
(***************************************************************************)
Types ==
    /\ mailbox \in MailStates /\ policyFile \in PolicyFiles
    /\ req \in Request \cup {None} /\ pol \in PolicyFiles \cup {None}
    /\ response \in Response \cup {None}
    /\ pendingIDs \in Seq(Threads) /\ returnedIDs \in Seq(Threads)
    /\ gmailPageToken \in PageTokens /\ threads \in Seq(Summary)
    /\ feed \in Seq(Threads) /\ feedToken \in Loop!PageToken
    /\ views \in SUBSET SUBSET Messages

Stages ==
    /\ pc \in {"idle", "policy", "resolve", "start", "loop", "stop", "respond"}
    /\ pc # "idle" => req \in Request
    /\ pc \in {"resolve", "start", "loop", "stop"} => pol \in PolicyFiles
    /\ pc \in {"idle", "policy"} => pol = None
    /\ pc \in {"idle", "policy", "resolve", "start"} => threads = <<>>
    /\ pc = "respond" <=> response # None
    /\ (response # None /\ response.threads # <<>>) => pol \in PolicyFiles

\* The summaries tell of what the request was shown, and its policy shows it.
Told ==
    /\ pol # None => View(pol, mailbox) \in views
    /\ \A s \in Range(threads) : \E view \in views : Tells(s, view)
    /\ response # None => \A s \in Range(response.threads) : \E view \in views : Tells(s, view)

SummaryInv == Types /\ Stages /\ Told

\* The constants of page tokens and answers have the types of their sets.
LEMMA TokenTypes ==
    /\ Loop!FirstPage \in Loop!PageToken /\ Loop!ForeignToken \in Loop!PageToken
    /\ \A t \in PageTokens : Loop!BareToken(t) \in Loop!PageToken
    /\ \A q \in SearchQueries(UserQueries), p, r \in Seq(Threads), t \in PageTokens :
          Loop!EncodeSearchPageToken(q, p, r, t) \in Loop!PageToken
    /\ \A c \in Loop!Codes : Failure(c) \in Response /\ Failure(c).threads = <<>>
    /\ {"internal_error", "invalid_params"} \subseteq Loop!Codes
    /\ \A status \in {"404", "429", "5xx", "deadline"} : Loop!MapGmailError(status) \in Loop!Codes
<1>1. /\ Loop!FirstPage \in Loop!PageToken /\ Loop!ForeignToken \in Loop!PageToken
      /\ \A t \in PageTokens : Loop!BareToken(t) \in Loop!PageToken
  BY DEF Loop!FirstPage, Loop!ForeignToken, Loop!BareToken, Loop!PageToken, PageTokens, Loop!PageTokens
<1>2. SearchQueries(UserQueries) \subseteq Loop!SearchQueries(UserQueries)
  BY DEF SearchQueries, Loop!SearchQueries
<1>3. \A q \in SearchQueries(UserQueries), p, r \in Seq(Threads), t \in PageTokens :
         Loop!EncodeSearchPageToken(q, p, r, t) \in Loop!PageToken
  BY <1>1, <1>2 DEF Loop!EncodeSearchPageToken, Loop!PageToken, PageTokens, Loop!PageTokens
<1>4. \A c \in Loop!Codes : Failure(c) \in Response /\ Failure(c).threads = <<>>
  BY <1>1 DEF Failure, Response
<1> QED
  BY <1>1, <1>3, <1>4 DEF Loop!Codes, Loop!MapGmailError

\* What is told of threads names them.
LEMMA IDsType ==
    /\ IDs(<<>>) = <<>>
    /\ \A ss \in Seq(Summary) :
          /\ IDs(ss) \in Seq(Threads) /\ Len(IDs(ss)) = Len(ss)
          /\ IDs(ss) = <<>> <=> ss = <<>>
    /\ \A ss \in Seq(Summary), s \in Summary : IDs(Append(ss, s)) = Append(IDs(ss), s.thread)
<1>1. IDs(<<>>) = <<>>
  BY DEF IDs
<1>2. ASSUME NEW ss \in Seq(Summary)
      PROVE  /\ IDs(ss) \in Seq(Threads) /\ Len(IDs(ss)) = Len(ss)
             /\ IDs(ss) = <<>> <=> ss = <<>>
  <2>1. DOMAIN ss = 1 .. Len(ss) /\ Len(ss) \in Nat /\ \A i \in DOMAIN ss : ss[i] \in Summary
    OBVIOUS
  <2>2. IDs(ss) = [i \in 1 .. Len(ss) |-> ss[i].thread] /\ \A i \in 1 .. Len(ss) : ss[i].thread \in Threads
    BY <2>1 DEF IDs, Summary
  <2>3. IDs(ss) \in Seq(Threads) /\ Len(IDs(ss)) = Len(ss)
    BY <2>1, <2>2
  <2>4. IDs(ss) = <<>> <=> ss = <<>>
    BY <2>1, <2>3
  <2> QED
    BY <2>3, <2>4
<1>3. ASSUME NEW ss \in Seq(Summary), NEW s \in Summary
      PROVE  IDs(Append(ss, s)) = Append(IDs(ss), s.thread)
  <2> DEFINE more == Append(ss, s)
  <2>1. /\ more \in Seq(Summary) /\ Len(more) = Len(ss) + 1 /\ Len(ss) \in Nat
        /\ DOMAIN more = 1 .. Len(ss) + 1
        /\ \A i \in 1 .. Len(ss) + 1 : more[i] = IF i = Len(ss) + 1 THEN s ELSE ss[i]
    OBVIOUS
  <2>2. /\ DOMAIN IDs(more) = 1 .. Len(ss) + 1
        /\ \A i \in 1 .. Len(ss) + 1 :
              IDs(more)[i] = IF i = Len(ss) + 1 THEN s.thread ELSE ss[i].thread
    BY <2>1 DEF IDs
  <2>3. /\ IDs(ss) \in Seq(Threads) /\ Len(IDs(ss)) = Len(ss)
        /\ IDs(more) \in Seq(Threads) /\ Len(IDs(more)) = Len(ss) + 1
    BY <1>2, <2>1
  <2>4. \A i \in 1 .. Len(ss) : IDs(ss)[i] = ss[i].thread
    BY <2>1 DEF IDs
  <2>5. /\ IDs(ss) \in Seq(Threads) /\ Len(IDs(ss)) = Len(ss) /\ IDs(more) \in Seq(Threads)
        /\ Len(IDs(more)) = Len(ss) + 1
        /\ \A i \in 1 .. Len(ss) : IDs(ss)[i] = ss[i].thread
    BY <2>3, <2>4
  <2>6. s.thread \in Threads
    BY DEF Summary
  <2> HIDE DEF more
  <2>7. /\ Append(IDs(ss), s.thread) \in Seq(Threads)
        /\ Len(Append(IDs(ss), s.thread)) = Len(ss) + 1
        /\ \A i \in 1 .. Len(ss) + 1 :
              Append(IDs(ss), s.thread)[i] = IF i = Len(ss) + 1 THEN s.thread ELSE ss[i].thread
    BY <2>5, <2>6
  <2>8. IDs(more) = Append(IDs(ss), s.thread)
    BY <2>1, <2>2, <2>5, <2>7
  <2> QED
    BY <2>8 DEF more
<1> QED
  BY <1>1, <1>2, <1>3

\* The effective query of a request is a query.
LEMMA QueryType ==
    ASSUME req \in Request, pol \in PolicyFiles
    PROVE  EffectiveQuery \in SearchQueries(UserQueries)
BY ThreadSearchAssumption DEF Request, Policy, EffectiveQuery, SearchQuery, SearchQueries

\* The initial state.
LEMMA SummaryInit == Init => SummaryInv
<1> SUFFICES ASSUME Init PROVE SummaryInv
  OBVIOUS
<1>1. Range(<<>>) = {}
  BY DEF Range
<1>2. Types
  BY TokenTypes DEF Init, Types, PageTokens
<1>3. Stages
  BY DEF Init, Stages
<1>4. Told
  BY <1>1 DEF Init, Told
<1> QED
  BY <1>2, <1>3, <1>4 DEF SummaryInv

\* A handler that is through has nothing left.
LEMMA ClearKeeps ==
    ASSUME Types, ClearHandler, UNCHANGED env, feed' \in Seq(Threads), feedToken' \in Loop!PageToken
    PROVE  SummaryInv'
<1>1. Range(<<>>) = {}
  BY DEF Range
<1>2. Types'
  BY DEF Types, ClearHandler, env, PageTokens
<1>3. Stages'
  BY DEF Stages, ClearHandler
<1>4. Told'
  BY <1>1 DEF Told, ClearHandler
<1> QED
  BY <1>2, <1>3, <1>4 DEF SummaryInv

\* A request that fails tells of nothing.
LEMMA FailureKeeps ==
    ASSUME SummaryInv, pc # "idle", NEW c \in Loop!Codes, RespondWith(Failure(c)),
           UNCHANGED <<mailbox, policyFile, req, pol, loop, client, views>>
    PROVE  SummaryInv'
<1>1. response' \in Response /\ response'.threads = <<>> /\ pc' = "respond" /\ response' # None
  BY TokenTypes, LoopAssumption DEF RespondWith
<1>2. Range(<<>>) = {}
  BY DEF Range
<1>3. Types'
  BY <1>1 DEF SummaryInv, Types, loop, client
<1>4. Stages'
  BY <1>1 DEF SummaryInv, Types, Stages, loop, client
<1>5. Told'
  BY <1>1, <1>2 DEF SummaryInv, Told, loop
<1> QED
  BY <1>3, <1>4, <1>5 DEF SummaryInv

\* The next pending thread is told of as the mailbox shows it at that moment.
LEMMA ReadKeeps ==
    ASSUME SummaryInv, ReadThread
    PROVE  SummaryInv'
<1> DEFINE thread  == Head(pendingIDs)
           visible == VisibleThreadMessages(pol, mailbox, thread)
           s       == BuildThreadSummary(thread, visible)
           view    == View(pol, mailbox)
<1>1. /\ Types /\ Stages /\ Told
      /\ pc = "loop" /\ pendingIDs # <<>> /\ pendingIDs' = Tail(pendingIDs)
      /\ UNCHANGED <<env, pc, req, pol, gmailPageToken, response, client, views>>
      /\ \/ UNCHANGED <<threads, returnedIDs>>
         \/ /\ visible # <<>> /\ threads' = Append(threads, s)
            /\ returnedIDs' = Append(returnedIDs, thread)
  BY DEF SummaryInv, ReadThread, HeadDue, Wanting, Remembered
<1>2. /\ pendingIDs \in Seq(Threads) /\ returnedIDs \in Seq(Threads) /\ threads \in Seq(Summary)
      /\ mailbox \in MailStates /\ pol \in PolicyFiles /\ response = None
  BY <1>1 DEF Types, Stages
<1>3. thread \in Threads /\ pendingIDs' \in Seq(Threads)
  BY <1>1, <1>2
<1>4. visible = Shown(thread, view) /\ view \in SUBSET Messages
  BY <1>2, VisibleIsShown
<1>5. visible \in Seq(Messages)
  BY <1>4, ShownProperties
<1>6. view \in views
  BY <1>1, <1>2, LoopAssumption, ThreadSearchAssumption DEF Told
<1>7. ASSUME visible # <<>> PROVE s \in Summary /\ Tells(s, view)
  <2>1. s \in Summary
    BY <1>3, <1>5, <1>7, SummaryType
  <2>2. s.thread = thread
    BY SummaryFields
  <2> QED
    BY <1>4, <1>7, <2>1, <2>2 DEF Tells
<1> HIDE DEF thread, visible, s, view
<1>8. threads' \in Seq(Summary) /\ returnedIDs' \in Seq(Threads)
  <2>1. CASE UNCHANGED <<threads, returnedIDs>>
    BY <1>2, <2>1
  <2>2. CASE /\ visible # <<>> /\ threads' = Append(threads, s)
             /\ returnedIDs' = Append(returnedIDs, thread)
    BY <1>2, <1>3, <1>7, <2>2
  <2> QED
    BY <1>1, <2>1, <2>2
<1>9. \A x \in Range(threads') : \E v \in views : Tells(x, v)
  <2>1. CASE UNCHANGED threads
    BY <1>1, <2>1 DEF Told
  <2>2. CASE visible # <<>> /\ threads' = Append(threads, s)
    <3>1. Range(threads') \subseteq Range(threads) \cup {s}
      BY <1>2, <1>7, <2>2 DEF Range
    <3> QED
      BY <1>1, <1>6, <1>7, <2>2, <3>1 DEF Told
  <2> QED
    BY <1>1, <2>1, <2>2
<1>10. Types'
  BY <1>1, <1>3, <1>8 DEF Types, env, client
<1>11. Stages'
  BY <1>1 DEF Stages
<1>12. Told'
  BY <1>1, <1>2, <1>9 DEF Told, env
<1> QED
  BY <1>10, <1>11, <1>12 DEF SummaryInv

\* The beginning of a search takes its cursor from the request.
LEMMA StartKeeps ==
    ASSUME SummaryInv, StartSearch
    PROVE  SummaryInv'
<1>1. /\ Types /\ Stages /\ Told /\ pc = "start" /\ threads = <<>> /\ response = None
      /\ req \in Request /\ pol \in PolicyFiles
      /\ UNCHANGED <<env, req, pol, threads, calls, client, views, failures, lost>>
  BY DEF SummaryInv, Stages, StartSearch
<1>2. Range(<<>>) = {}
  BY DEF Range
<1>3. CASE /\ RespondWith([code |-> "ok", threads |-> <<>>, pageToken |-> Loop!FirstPage])
           /\ UNCHANGED <<pendingIDs, returnedIDs, gmailPageToken>>
  <2> DEFINE r == [code |-> "ok", threads |-> <<>>, pageToken |-> Loop!FirstPage]
  <2>1. r \in Response /\ r.threads = <<>> /\ r # None /\ response' = r /\ pc' = "respond"
    BY <1>3, TokenTypes, LoopAssumption DEF Response, Loop!Codes, RespondWith
  <2> HIDE DEF r
  <2>2. Types'
    BY <1>1, <1>3, <2>1 DEF Types, env, client
  <2>3. Stages'
    BY <1>1, <2>1 DEF Stages
  <2>4. Told'
    BY <1>1, <1>2, <2>1 DEF Told, env
  <2> QED
    BY <2>2, <2>3, <2>4 DEF SummaryInv
<1>4. CASE /\ RespondWith(Failure("invalid_params"))
           /\ UNCHANGED <<pendingIDs, returnedIDs, gmailPageToken>>
  BY <1>1, <1>4, FailureKeeps, TokenTypes DEF env, loop
<1>5. CASE /\ pendingIDs' = PendingOf(req.pageToken)
           /\ returnedIDs' = req.pageToken.returnedIDs
           /\ gmailPageToken' = req.pageToken.gmailPageToken
           /\ pc' = "loop"
           /\ UNCHANGED response
  <2>1. /\ req.pageToken.pendingIDs \in Seq(Threads) /\ req.pageToken.returnedIDs \in Seq(Threads)
        /\ req.pageToken.gmailPageToken \in PageTokens
    BY <1>1 DEF Request, Loop!PageToken, Loop!PageTokens, PageTokens
  <2>2. pendingIDs' \in Seq(Threads)
    BY <1>5, <2>1, UniqueIDsExcludingIsUnique DEF PendingOf
  <2>3. Types'
    BY <1>1, <1>5, <2>1, <2>2 DEF Types, env, client
  <2>4. Stages'
    BY <1>1, <1>5 DEF Stages
  <2>5. Told'
    BY <1>1, <1>5 DEF Told, env
  <2> QED
    BY <2>3, <2>4, <2>5 DEF SummaryInv
<1> QED
  BY <1>3, <1>4, <1>5 DEF StartSearch

\* A page that is listed is a page of threads.
LEMMA FetchKeeps ==
    ASSUME SummaryInv, FetchPage
    PROVE  SummaryInv'
<1> DEFINE page  == mailbox.listing[gmailPageToken]
           fresh == UniqueIDsExcluding(page.threads, Range(returnedIDs))
<1>1. /\ Types /\ Stages /\ Told /\ pc = "loop" /\ pc' \in {"loop", "stop"}
      /\ pendingIDs' = pendingIDs \/ pendingIDs' = fresh
      /\ gmailPageToken' = NoToken \/ gmailPageToken' = page.next
      /\ UNCHANGED <<env, req, pol, returnedIDs, threads, response, client, views>>
  BY DEF SummaryInv, FetchPage, FetchDue, Wanting
<1>2. page \in ThreadPage
  BY <1>1, ThreadSearchAssumption DEF Types, MailState
<1>3. fresh \in Seq(Threads) /\ page.next \in PageTokens
  BY <1>2, UniqueIDsExcludingIsUnique DEF ThreadPage
<1> HIDE DEF page, fresh
<1>4. Types'
  BY <1>1, <1>3 DEF Types, env, client, PageTokens
<1>5. Stages'
  BY <1>1 DEF Stages
<1>6. Told'
  BY <1>1 DEF Told, env
<1> QED
  BY <1>4, <1>5, <1>6 DEF SummaryInv

\* The end of a search answers with what the loop found.
LEMMA EndKeeps ==
    ASSUME SummaryInv, EndSearch
    PROVE  SummaryInv'
<1> DEFINE token == Loop!EncodeSearchPageToken(EffectiveQuery, pendingIDs, returnedIDs,
                                               gmailPageToken)
           r == [code |-> "ok", threads |-> threads, pageToken |-> token]
<1>1. /\ Types /\ Stages /\ Told /\ pc \in {"loop", "stop"} /\ pc' = "respond" /\ response' = r
      /\ UNCHANGED <<env, req, pol, loop, client, views>>
  BY DEF SummaryInv, EndSearch, RespondWith
<1>2. req \in Request /\ pol \in PolicyFiles
  BY <1>1 DEF Stages
<1>3. EffectiveQuery \in SearchQueries(UserQueries)
  BY <1>2, QueryType
<1>4. token \in Loop!PageToken
  BY <1>1, <1>3, TokenTypes DEF Types
<1> HIDE DEF token
<1>5. r \in Response /\ r.threads = threads /\ r # None
  BY <1>1, <1>4, LoopAssumption DEF Types, Response, Loop!Codes
<1> HIDE DEF r
<1>6. Types'
  BY <1>1, <1>5 DEF Types, env, client, loop
<1>7. Stages'
  BY <1>1, <1>2, <1>5 DEF Stages
<1>8. Told'
  BY <1>1, <1>5 DEF Told, env, loop
<1> QED
  BY <1>6, <1>7, <1>8 DEF SummaryInv

\* Every step, and a stutter, keeps the invariant.
LEMMA SummaryStep == SummaryInv /\ [Next]_vars => SummaryInv'
<1> SUFFICES ASSUME SummaryInv, [Next]_vars PROVE SummaryInv'
  OBVIOUS
<1>0. Types /\ Stages /\ Told
  BY DEF SummaryInv
<1>1. CASE MailboxChanges
  <2>1. /\ mailbox' \in MailStates
        /\ views' = IF pol = None THEN views ELSE views \cup {View(pol, mailbox')}
        /\ UNCHANGED <<policyFile, pc, req, pol, loop, response, client>>
    BY <1>1 DEF MailboxChanges
  <2>2. views' \in SUBSET SUBSET Messages /\ views \subseteq views'
    BY <1>0, <2>1, VisibleIsShown DEF Types
  <2>3. Types'
    BY <1>0, <2>1, <2>2 DEF Types, loop, client
  <2>4. Stages'
    BY <1>0, <2>1 DEF Stages, loop
  <2>5. Told'
    BY <1>0, <2>1, <2>2 DEF Told, loop
  <2> QED
    BY <2>3, <2>4, <2>5 DEF SummaryInv
<1>2. CASE PolicyFileChanges
  <2>1. /\ policyFile' \in PolicyFiles
        /\ UNCHANGED <<mailbox, pc, req, pol, loop, response, client, views>>
    BY <1>2 DEF PolicyFileChanges
  <2> QED
    BY <1>0, <2>1 DEF SummaryInv, Types, Stages, Told, loop, client
<1>3. CASE Ask
  <2>1. /\ pc = "idle" /\ pc' = "policy" /\ req' \in Request
        /\ UNCHANGED <<env, pol, loop, response, client, views>>
    BY <1>0, <1>3 DEF Ask, Request, Types
  <2> QED
    BY <1>0, <2>1 DEF SummaryInv, Types, Stages, Told, env, loop, client
<1>4. CASE BeginAgain
  <2>1. /\ feedToken' \in Loop!PageToken /\ feed' = <<>>
        /\ UNCHANGED <<env, pc, req, pol, loop, response, views>>
    BY <1>4, TokenTypes, ThreadSearchAssumption DEF BeginAgain, PageTokens
  <2> QED
    BY <1>0, <2>1 DEF SummaryInv, Types, Stages, Told, env, loop
<1>5. CASE LoadPolicy
  <2>1. /\ pc = "policy" /\ pol' = policyFile /\ views' = {View(policyFile, mailbox)}
        /\ pc' \in {"start", "resolve"}
        /\ UNCHANGED <<env, req, loop, response, client>>
        /\ threads = <<>> /\ response = None /\ req \in Request
    BY <1>0, <1>5 DEF LoadPolicy, Stages
  <2>2. views' \in SUBSET SUBSET Messages
    BY <1>0, <2>1, VisibleIsShown DEF Types
  <2>3. Range(<<>>) = {}
    BY DEF Range
  <2>4. Types'
    BY <1>0, <2>1, <2>2 DEF Types, env, loop, client
  <2>5. Stages'
    BY <1>0, <2>1 DEF Types, Stages, loop
  <2>6. Told'
    BY <2>1, <2>3 DEF Told, env, loop
  <2> QED
    BY <2>4, <2>5, <2>6 DEF SummaryInv
<1>6. CASE OpenFails \/ NotFound \/ GmailFails \/ DeadlineExceeded
  <2>1. PICK c \in Loop!Codes : RespondWith(Failure(c))
    BY <1>6, TokenTypes DEF OpenFails, NotFound, GmailFails, DeadlineExceeded
  <2>2. pc # "idle"
    BY <1>6 DEF OpenFails, NotFound, GmailFails, DeadlineExceeded, CallDue, HeadDue,
       FetchDue, Wanting
  <2>3. UNCHANGED <<mailbox, policyFile, req, pol, loop, client, views>>
    BY <1>6 DEF OpenFails, NotFound, GmailFails, DeadlineExceeded, env
  <2> QED
    BY <2>1, <2>2, <2>3, FailureKeeps
<1>7. CASE ResolveVisibilityLabel
  <2>1. /\ pc = "resolve" /\ UNCHANGED <<env, req, pol, loop, client, views>>
        /\ \/ pc' = "start" /\ UNCHANGED response
           \/ RespondWith(Failure("internal_error"))
    BY <1>7 DEF ResolveVisibilityLabel
  <2>2. CASE pc' = "start" /\ UNCHANGED response
    BY <1>0, <2>1, <2>2 DEF SummaryInv, Types, Stages, Told, env, loop, client
  <2>3. CASE RespondWith(Failure("internal_error"))
    BY <2>1, <2>3, FailureKeeps, TokenTypes DEF env
  <2> QED
    BY <2>1, <2>2, <2>3
<1>8. CASE StartSearch
  BY <1>8, StartKeeps
<1>9. CASE FetchPage
  BY <1>9, FetchKeeps
<1>10. CASE ReadThread
  BY <1>10, ReadKeeps
<1>11. CASE EndSearch
  BY <1>11, EndKeeps
<1>12. CASE Answer
  <2>1. response \in Response /\ feed \in Seq(Threads) /\ feedToken \in Loop!PageToken
    BY <1>0, <1>12 DEF Answer, Types, Stages
  <2>2. /\ IDs(response.threads) \in Seq(Threads) /\ response.pageToken \in Loop!PageToken
    BY <2>1, IDsType DEF Response
  <2>3. feed' \in Seq(Threads) /\ feedToken' \in Loop!PageToken
    <3>1. CASE response.code = "ok"
      <4>1. feed' = feed \o IDs(response.threads) /\ feedToken' = response.pageToken
        BY <1>12, <3>1 DEF Answer
      <4> QED
        BY <2>1, <2>2, <4>1
    <3>2. CASE response.code # "ok"
      BY <1>12, <2>1, <3>2 DEF Answer, client
    <3> QED
      BY <3>1, <3>2
  <2> QED
    BY <1>0, <1>12, <2>3, ClearKeeps DEF Answer
<1>13. CASE LoseAnswer
  BY <1>0, <1>13, ClearKeeps DEF LoseAnswer, client, Types
<1>14. CASE UNCHANGED vars
  BY <1>0, <1>14 DEF SummaryInv, Types, Stages, Told, vars, env, loop, client
<1> QED
  BY <1>1, <1>2, <1>3, <1>4, <1>5, <1>6, <1>7, <1>8, <1>9, <1>10, <1>11, <1>12, <1>13,
     <1>14 DEF Next, Handler

\* At every moment of a search the handler has what its stage needs, and tells
\* only of what its policy showed.
THEOREM SummariesAreInvariant == Spec => []SummaryInv
<1>1. Init => SummaryInv
  BY SummaryInit
<1>2. SummaryInv /\ [Next]_vars => SummaryInv'
  BY SummaryStep
<1> QED
  BY <1>1, <1>2, PTL DEF Spec

\* Each summary tells of exactly the messages of its thread that one look at the
\* mailbox showed (handleSearchThreads reads a thread once,
\* BuildThreadSummary summarises what is left of it).
THEOREM SummariesAreOneViewHolds == Spec => []SummariesAreOneView
<1>1. SummaryInv => SummariesAreOneView
  <2> SUFFICES ASSUME SummaryInv,
                      NEW s \in Range(threads) \cup
                                (IF response = None THEN {} ELSE Range(response.threads))
               PROVE  \E view \in views : Describes(s, view)
    BY DEF SummariesAreOneView
  <2>1. PICK view \in views : Tells(s, view)
    BY DEF SummaryInv, Told
  <2>2. view \in SUBSET Messages
    BY DEF SummaryInv, Types
  <2> QED
    BY <2>1, <2>2, SummaryDescribes
<1> QED
  BY <1>1, SummariesAreInvariant, PTL

\* A reply drafted at the moment a summary tells of answers the message it shows
\* or a later one of the same second (newestMessage and NewestMessage choose by
\* different dates).
THEOREM RepliesAnswerWhatIsListed == Spec => []ReplyAnswersWhatIsListed
<1>1. SummaryInv => ReplyAnswersWhatIsListed
  <2> SUFFICES ASSUME SummaryInv, NEW s \in Range(threads)
               PROVE  \E view \in views :
                         /\ Describes(s, view)
                         /\ LET shown  == Shown(s.thread, view)
                                anchor == NewestMessage(shown, InternalDate)
                            IN  /\ ReceivedAt(anchor) = s.lastMessageAt
                                /\ anchor # s.newest =>
                                     /\ ReceivedAt(s.newest) = ReceivedAt(anchor)
                                     /\ InternalDate[s.newest] < InternalDate[anchor]
    BY DEF ReplyAnswersWhatIsListed
  <2>1. PICK view \in views : Tells(s, view)
    BY DEF SummaryInv, Told
  <2>2. view \in SUBSET Messages
    BY DEF SummaryInv, Types
  <2> QED
    BY <2>1, <2>2, SummaryDescribes, AnchorIsListed, Zenon
<1> QED
  BY <1>1, SummariesAreInvariant, PTL

(***************************************************************************)
(* The search for threads is the search for messages, over threads.        *)
(***************************************************************************)
\* The two say the same of lists.
LEMMA SameLists ==
    /\ \A s : Loop!Range(s) = Range(s)
    /\ \A ids, excluded : Loop!UniqueIDsExcluding(ids, excluded) = UniqueIDsExcluding(ids, excluded)
<1>1. \A s : Loop!Range(s) = Range(s)
  BY DEF Loop!Range, Range
<1>2. ASSUME NEW ids, NEW excluded
      PROVE  Loop!UniqueIDsExcluding(ids, excluded) = UniqueIDsExcluding(ids, excluded)
  BY DEF Loop!UniqueIDsExcluding, UniqueIDsExcluding, Loop!AtPositions, AtPositions,
     Loop!FirstOccurrences, FirstOccurrences, Loop!Rank, Rank, Loop!Cardinality, Cardinality
<1> QED
  BY <1>1, <1>2

\* The listing of a mailbox, over threads.
LEMMA MappedListing ==
    ASSUME NEW box \in MailStates
    PROVE  /\ AsMailbox(box) \in AsMailboxes
           /\ AsMailbox(box).present = {ThreadOf[m] : m \in box.present}
           /\ AsMailbox(box).named = box.named
           /\ \A t \in PageTokens :
                 /\ AsMailbox(box).listing[t].messages = box.listing[t].threads
                 /\ AsMailbox(box).listing[t].next = box.listing[t].next
BY DEF AsMailbox, AsMailboxes

\* A thread is there when one of its messages is.
LEMMA MappedPresence ==
    ASSUME NEW box \in MailStates, NEW thread
    PROVE  MessagesOf(thread, box.present) # <<>> <=> thread \in AsMailbox(box).present
<1>1. box.present \in SUBSET Messages
  BY ThreadSearchAssumption DEF MailState
<1>2. /\ MessageOrder \in Seq(Messages) /\ Range(MessageOrder) = Messages
  BY ThreadSearchAssumption
<1> DEFINE T == {m \in box.present : ThreadOf[m] = thread}
<1>3. Keep(MessageOrder, T) = <<>> <=> Messages \cap T = {}
  BY <1>2, KeepProperties
<1> QED
  BY <1>1, <1>3, MappedListing DEF MessagesOf

\* A policy allows a thread when it shows one of its messages.
LEMMA MappedPolicy ==
    ASSUME NEW p \in PolicyFiles, NEW box \in MailStates, NEW thread \in Threads
    PROVE  Loop!AllowsMessage(p, thread, AsMailbox(box).labels[thread])
              <=> \E m \in View(p, box) : ThreadOf[m] = thread
<1> DEFINE in(t)    == {m \in box.present : ThreadOf[m] = t}
           sent(t)  == \E m \in in(t) : m \in OwnerMessages \/ SentLabel \in box.labels[m]
           label(t) == (IF sent(t) THEN {Mark} ELSE {}) \cup
                       UNION {box.labels[m] : m \in in(t)}
           there    == in(thread)
           own      == sent(thread)
           carried  == UNION {box.labels[m] : m \in there}
<1>1. /\ p.visibilityLabel \in Labels \cup {NoLabel} /\ box.present \in SUBSET Messages
      /\ \A m \in Messages : box.labels[m] \in SUBSET Labels
      /\ Mark \notin Labels /\ Mark # NoLabel
  BY ThreadSearchAssumption, LoopAssumption DEF Policy, MailState
<1>2. \/ own /\ AsMailbox(box).labels[thread] = carried \cup {Mark}
      \/ ~own /\ AsMailbox(box).labels[thread] = carried \cup {}
  <2>1. AsMailbox(box).labels[thread] = carried \cup (IF own THEN {Mark} ELSE {})
    <3>1. AsMailbox(box).labels = [t \in Threads |-> label(t)]
      BY DEF AsMailbox
    <3>2. label(thread) = carried \cup (IF own THEN {Mark} ELSE {})
      OBVIOUS
    <3> HIDE DEF label, own, carried
    <3> QED
      BY <3>1, <3>2
  <2> HIDE DEF own, carried
  <2>2. CASE own
    BY <2>1, <2>2
  <2>3. CASE ~own
    BY <2>1, <2>3
  <2> QED
    BY <2>2, <2>3
<1>3. Mark \in AsMailbox(box).labels[thread] <=> own
  <2>1. Mark \notin carried
    BY <1>1
  <2> HIDE DEF own, carried
  <2> QED
    BY <1>2, <2>1
<1>4. \A l \in Labels : l \in AsMailbox(box).labels[thread]
                           <=> \E m \in there : l \in box.labels[m]
  <2> TAKE l \in Labels
  <2>1. l # Mark
    BY <1>1
  <2>2. l \in AsMailbox(box).labels[thread] <=> l \in carried
    <3> HIDE DEF own, carried
    <3> QED
      BY <1>2, <2>1
  <2> QED
    BY <2>2
<1>5. Loop!IsOwnerSent(p, thread, AsMailbox(box).labels[thread])
         <=> \E m \in there : IsOwnerSent(p, m, box.labels[m])
  BY <1>3 DEF Loop!IsOwnerSent, IsOwnerSent
<1>6. Loop!HasVisibilityLabel(p, AsMailbox(box).labels[thread])
         <=> \E m \in there : HasVisibilityLabel(p, box.labels[m])
  BY <1>1, <1>4 DEF Loop!HasVisibilityLabel, HasVisibilityLabel
<1>7. (\E m \in View(p, box) : ThreadOf[m] = thread)
         <=> \E m \in there : AllowsMessage(p, m, box.labels[m])
  BY DEF View
<1> QED
  BY <1>5, <1>6, <1>7 DEF Loop!AllowsMessage, AllowsMessage

\* What a policy allows of the threads is what it shows.
LEMMA MappedView ==
    ASSUME NEW p \in PolicyFiles, NEW box \in MailStates
    PROVE  Loop!Allowed(p, AsMailbox(box)) = {ThreadOf[m] : m \in View(p, box)}
<1>1. View(p, box) \in SUBSET Messages
  BY VisibleIsShown
<1>2. \A m \in Messages : ThreadOf[m] \in Threads
  BY ThreadSearchAssumption
<1> QED
  BY <1>1, <1>2, MappedPolicy DEF Loop!Allowed

\* A thread is left something when the policy allows it.
LEMMA MappedVisibility ==
    ASSUME NEW p \in PolicyFiles, NEW box \in MailStates, NEW thread \in Threads
    PROVE  VisibleThreadMessages(p, box, thread) # <<>>
              <=> Loop!AllowsMessage(p, thread, AsMailbox(box).labels[thread])
<1>1. /\ VisibleThreadMessages(p, box, thread) = Shown(thread, View(p, box))
      /\ View(p, box) \in SUBSET Messages
  BY VisibleIsShown
<1>2. /\ Shown(thread, View(p, box)) \in Seq(Messages)
      /\ Range(Shown(thread, View(p, box))) = {m \in View(p, box) : ThreadOf[m] = thread}
  BY <1>1, ShownProperties
<1>3. Shown(thread, View(p, box)) = <<>> <=> Range(Shown(thread, View(p, box))) = {}
  <2> DEFINE s == Shown(thread, View(p, box))
  <2>1. s \in Seq(Messages)
    BY <1>2
  <2> HIDE DEF s
  <2>2. Len(s) \in Nat /\ DOMAIN s = 1 .. Len(s)
    BY <2>1
  <2>3. s = <<>> <=> DOMAIN s = {}
    BY <2>1, <2>2, EmptySeq
  <2> QED
    BY <2>3 DEF Range, s
<1> QED
  BY <1>1, <1>2, <1>3, MappedPolicy

\* The request and the answer of the one are a request and an answer of the other.
MappedRequest(r) ==
    IF r = None THEN None
    ELSE [userQuery |-> r.userQuery, pageToken |-> r.pageToken, limit |-> r.limit,
          wantDetail |-> FALSE]
MappedResponse(r) ==
    IF r = None THEN None
    ELSE [code |-> r.code, messages |-> IDs(r.threads), pageToken |-> r.pageToken]

\* None of them is missing there that is not missing here.
LEMMA MappedRecords ==
    /\ MappedRequest(None) = None /\ MappedResponse(None) = None
    /\ \A r \in Request : MappedRequest(r) # None
    /\ \A r \in Response : MappedResponse(r) # None
<1>1. ASSUME NEW r \in Request PROVE MappedRequest(r) # None
  <2>1. r # None
    BY LoopAssumption
  <2>2. MappedRequest(r) \in Loop!Request
    BY <2>1 DEF MappedRequest, Request, Loop!Request
  <2> QED
    BY <2>2, LoopAssumption
<1>2. ASSUME NEW r \in Response PROVE MappedResponse(r) # None
  <2>1. r # None /\ IDs(r.threads) \in Seq(Threads)
    BY LoopAssumption, IDsType DEF Response
  <2>2. MappedResponse(r) \in Loop!Response
    BY <2>1 DEF MappedResponse, Response, Loop!Response
  <2> QED
    BY <2>2, LoopAssumption
<1> QED
  BY <1>1, <1>2 DEF MappedRequest, MappedResponse

\* The loop's conditions are those of the other loop.
LEMMA SameConditions ==
    ASSUME SummaryInv
    PROVE  /\ Loop!Wanting <=> Wanting
           /\ Loop!FetchDue <=> FetchDue
           /\ Loop!HeadDue <=> HeadDue
           /\ Loop!CallDue <=> CallDue
           /\ ~Loop!DetailDue
           /\ pc # "idle" => Loop!EffectiveQuery = EffectiveQuery
<1>1. Types /\ Stages
  BY DEF SummaryInv
<1>2. pc # "idle" => req \in Request /\ req # None
  BY <1>1, LoopAssumption DEF Stages
<1>3. pc # "idle" => Loop!Limit = Limit /\ Loop!EffectiveQuery = EffectiveQuery
  BY <1>2 DEF Loop!Limit, Limit, Loop!EffectiveQuery, EffectiveQuery, Loop!SearchQuery, SearchQuery
<1>4. Len(IDs(threads)) = Len(threads)
  BY <1>1, IDsType DEF Types
<1>5. Loop!Wanting <=> Wanting
  BY <1>3, <1>4 DEF Loop!Wanting, Wanting
<1>6. ~Loop!DetailDue
  BY <1>1 DEF Stages, Loop!DetailDue
<1> QED
  BY <1>3, <1>5, <1>6 DEF Loop!FetchDue, FetchDue, Loop!HeadDue, HeadDue, Loop!CallDue, CallDue

\* The initial states are its initial states.
LEMMA InitMaps == Init => Loop!Init
<1> SUFFICES ASSUME Init PROVE Loop!Init
  OBVIOUS
<1>1. AsMailbox(mailbox) \in AsMailboxes
  BY MappedListing DEF Init
<1>2. {ThreadOf[m] : m \in UNION views} = {} /\ IDs(threads) = <<>>
  BY IDsType DEF Init
<1> QED
  BY <1>1, <1>2 DEF Init, Loop!Init

\* The world and the client move as they do there.
LEMMA WorldMaps ==
    ASSUME SummaryInv, MailboxChanges \/ PolicyFileChanges \/ Ask \/ BeginAgain
    PROVE  Loop!MailboxChanges \/ Loop!PolicyFileChanges \/ Loop!Ask \/ Loop!BeginAgain
<1> USE DEF env, loop, client, Loop!env, Loop!loop, Loop!client
<1>0. Types /\ Stages
  BY DEF SummaryInv
<1>1. CASE MailboxChanges
  <2>1. mailbox' \in MailStates /\ AsMailbox(mailbox') \in AsMailboxes
    BY <1>1, MappedListing DEF MailboxChanges
  <2>2. {ThreadOf[m] : m \in UNION views'} =
           IF pol = None THEN {ThreadOf[m] : m \in UNION views}
           ELSE {ThreadOf[m] : m \in UNION views} \cup Loop!Allowed(pol, AsMailbox(mailbox'))
    <3>1. CASE pol = None
      BY <1>1, <3>1 DEF MailboxChanges
    <3>2. CASE pol # None
      <4>1. Loop!Allowed(pol, AsMailbox(mailbox')) = {ThreadOf[m] : m \in View(pol, mailbox')}
        BY <1>0, <2>1, <3>2, MappedView DEF Types
      <4>2. UNION views' = (UNION views) \cup View(pol, mailbox')
        BY <1>1, <3>2 DEF MailboxChanges
      <4> QED
        BY <3>2, <4>1, <4>2
    <3> QED
      BY <3>1, <3>2
  <2>3. Loop!MailboxChanges
    BY <1>1, <2>1, <2>2 DEF MailboxChanges, Loop!MailboxChanges
  <2> QED
    BY <2>3
<1>2. CASE PolicyFileChanges
  BY <1>2 DEF PolicyFileChanges, Loop!PolicyFileChanges
<1>3. CASE Ask
  <2>1. PICK uq \in UserQueries, l \in Limits :
           req' = [userQuery |-> uq, pageToken |-> feedToken, limit |-> l]
    BY <1>3 DEF Ask
  <2>2. req' \in Request
    BY <1>0, <2>1 DEF Types, Request
  <2>3. MappedRequest(req') = [userQuery |-> uq, pageToken |-> feedToken, limit |-> l,
                               wantDetail |-> FALSE]
    BY <2>1, <2>2, LoopAssumption DEF MappedRequest
  <2>4. Loop!Ask
    BY <1>3, <2>3 DEF Ask, Loop!Ask, MappedRequest
  <2> QED
    BY <2>4
<1>4. CASE BeginAgain
  BY <1>4 DEF BeginAgain, Loop!BeginAgain
<1> QED
  BY <1>1, <1>2, <1>3, <1>4

\* An answer of the one is an answer of the other.
LEMMA RespondMaps ==
    ASSUME NEW code \in Loop!Codes, NEW ss \in Seq(Summary), NEW token \in Loop!PageToken
    PROVE  MappedResponse([code |-> code, threads |-> ss, pageToken |-> token])
              = [code |-> code, messages |-> IDs(ss), pageToken |-> token]
<1>1. [code |-> code, threads |-> ss, pageToken |-> token] \in Response
  BY DEF Response
<1> QED
  BY <1>1, LoopAssumption DEF MappedResponse

\* And a failure is a failure.
LEMMA FailureMaps ==
    ASSUME NEW code \in Loop!Codes, RespondWith(Failure(code))
    PROVE  Loop!RespondWith(Loop!Failure(code))
<1>0. <<>> \in Seq(Summary) /\ Loop!FirstPage \in Loop!PageToken
  BY TokenTypes
<1>1. MappedResponse([code |-> code, threads |-> <<>>, pageToken |-> Loop!FirstPage])
         = [code |-> code, messages |-> IDs(<<>>), pageToken |-> Loop!FirstPage]
  BY <1>0, RespondMaps
<1> QED
  BY <1>1, IDsType DEF RespondWith, Failure, Loop!RespondWith, Loop!Failure, MappedResponse

\* Opening fails, and Gmail's calls, as they do there.
LEMMA FailuresMap ==
    ASSUME SummaryInv,
           OpenFails \/ ResolveVisibilityLabel \/ NotFound \/ GmailFails \/ DeadlineExceeded
    PROVE  Loop!OpenFails \/ Loop!ResolveVisibilityLabel \/ Loop!NotFound \/ Loop!GmailFails
              \/ Loop!DeadlineExceeded
<1> USE DEF env, loop, client, Loop!env, Loop!loop, Loop!client
<1>1. CASE OpenFails
  <2>1. Loop!RespondWith(Loop!Failure("internal_error"))
    BY <1>1, FailureMaps, TokenTypes DEF OpenFails
  <2>2. Loop!OpenFails
    BY <1>1, <2>1 DEF OpenFails, Loop!OpenFails
  <2> QED
    BY <2>2
<1>2. CASE ResolveVisibilityLabel
  <2>1. AsMailbox(mailbox).named = mailbox.named
    BY DEF AsMailbox
  <2>2. pol.visibilityLabel \notin mailbox.named => Loop!RespondWith(Loop!Failure("internal_error"))
    BY <1>2, FailureMaps, TokenTypes DEF ResolveVisibilityLabel
  <2>3. Loop!ResolveVisibilityLabel
    BY <1>2, <2>1, <2>2 DEF ResolveVisibilityLabel, Loop!ResolveVisibilityLabel, UseCall,
       Loop!UseCall
  <2> QED
    BY <2>3
<1>3. CASE NotFound
  <2>1. Loop!HeadDue /\ mailbox \in MailStates
    BY <1>3, SameConditions DEF NotFound, SummaryInv, Types
  <2>2. Head(pendingIDs) \notin AsMailbox(mailbox).present
    BY <1>3, <2>1, MappedPresence DEF NotFound, HeadThere
  <2>3. Loop!RespondWith(Loop!Failure(Loop!MapGmailError("404")))
    BY <1>3, FailureMaps, TokenTypes DEF NotFound
  <2>4. Loop!NotFound
    BY <1>3, <2>1, <2>2, <2>3 DEF NotFound, Loop!NotFound, UseCall, Loop!UseCall
  <2> QED
    BY <2>4
<1>4. CASE GmailFails
  <2>1. Loop!CallDue
    BY <1>4, SameConditions DEF GmailFails
  <2>2. PICK status \in {"429", "5xx"} : RespondWith(Failure(Loop!MapGmailError(status)))
    BY <1>4 DEF GmailFails
  <2>3. Loop!RespondWith(Loop!Failure(Loop!MapGmailError(status)))
    BY <2>2, FailureMaps, TokenTypes
  <2>4. Loop!GmailFails
    BY <1>4, <2>1, <2>3 DEF GmailFails, Loop!GmailFails, UseCall, Loop!UseCall
  <2> QED
    BY <2>4
<1>5. CASE DeadlineExceeded
  <2>1. Loop!CallDue
    BY <1>5, SameConditions DEF DeadlineExceeded
  <2>2. Loop!RespondWith(Loop!Failure(Loop!MapGmailError("deadline")))
    BY <1>5, FailureMaps, TokenTypes DEF DeadlineExceeded
  <2>3. Loop!DeadlineExceeded
    BY <1>5, <2>1, <2>2 DEF DeadlineExceeded, Loop!DeadlineExceeded
  <2> QED
    BY <2>3
<1> QED
  BY <1>1, <1>2, <1>3, <1>4, <1>5

\* Loading the policy and beginning the search.
LEMMA StartMaps ==
    ASSUME SummaryInv, LoadPolicy \/ StartSearch
    PROVE  Loop!LoadPolicy \/ Loop!StartSearch
<1> USE DEF env, loop, client, Loop!env, Loop!loop, Loop!client
<1>0. Types /\ Stages
  BY DEF SummaryInv
<1>1. CASE LoadPolicy
  <2>1. Loop!Allowed(policyFile, AsMailbox(mailbox)) =
           {ThreadOf[m] : m \in View(policyFile, mailbox)}
    BY <1>0, MappedView DEF Types
  <2>2. {ThreadOf[m] : m \in UNION views'} = Loop!Allowed(policyFile, AsMailbox(mailbox))
    <3>1. UNION views' = View(policyFile, mailbox)
      BY <1>1 DEF LoadPolicy
    <3> QED
      BY <2>1, <3>1
  <2>3. Loop!LoadPolicy
    BY <1>1, <2>2 DEF LoadPolicy, Loop!LoadPolicy
  <2> QED
    BY <2>3
<1>2. CASE StartSearch
  <2>1. /\ pc = "start" /\ req \in Request /\ req # None
        /\ Loop!EffectiveQuery = EffectiveQuery
        /\ Loop!HasVisibleSearchScope(pol) <=> HasVisibleSearchScope(pol)
        /\ MappedRequest(req).pageToken = req.pageToken
    BY <1>0, <1>2, SameConditions, LoopAssumption
       DEF StartSearch, Stages, Loop!HasVisibleSearchScope, HasVisibleSearchScope, MappedRequest
  <2>2. UNCHANGED <<env, req, pol, threads, calls, client, views, failures, lost>>
    BY <1>2 DEF StartSearch
  <2>3. CASE ~HasVisibleSearchScope(pol)
    <3>1. /\ RespondWith([code |-> "ok", threads |-> <<>>, pageToken |-> Loop!FirstPage])
          /\ UNCHANGED <<pendingIDs, returnedIDs, gmailPageToken>>
      BY <1>2, <2>3 DEF StartSearch
    <3>2. <<>> \in Seq(Summary) /\ Loop!FirstPage \in Loop!PageToken /\ "ok" \in Loop!Codes
      BY TokenTypes DEF Loop!Codes
    <3>3. MappedResponse([code |-> "ok", threads |-> <<>>, pageToken |-> Loop!FirstPage])
             = [code |-> "ok", messages |-> IDs(<<>>), pageToken |-> Loop!FirstPage]
      BY <3>2, RespondMaps
    <3>4. Loop!RespondWith([code |-> "ok", messages |-> <<>>, pageToken |-> Loop!FirstPage])
      BY <3>1, <3>3, IDsType DEF RespondWith, Loop!RespondWith, MappedResponse
    <3>5. Loop!StartSearch
      BY <2>1, <2>2, <2>3, <3>1, <3>4 DEF Loop!StartSearch
    <3> QED
      BY <3>5
  <2>4. CASE HasVisibleSearchScope(pol) /\ ~Loop!DecodesUnder(req.pageToken, EffectiveQuery)
    <3>1. /\ RespondWith(Failure("invalid_params"))
          /\ UNCHANGED <<pendingIDs, returnedIDs, gmailPageToken>>
      BY <1>2, <2>4 DEF StartSearch
    <3>2. Loop!RespondWith(Loop!Failure("invalid_params"))
      BY <3>1, FailureMaps, TokenTypes
    <3>3. Loop!StartSearch
      BY <2>1, <2>2, <2>4, <3>1, <3>2 DEF Loop!StartSearch, MappedRequest
    <3> QED
      BY <3>3
  <2>5. CASE HasVisibleSearchScope(pol) /\ Loop!DecodesUnder(req.pageToken, EffectiveQuery)
    <3>1. /\ pendingIDs' = PendingOf(req.pageToken)
          /\ returnedIDs' = req.pageToken.returnedIDs
          /\ gmailPageToken' = req.pageToken.gmailPageToken
          /\ pc' = "loop"
          /\ UNCHANGED response
      BY <1>2, <2>5 DEF StartSearch
    <3>2. pendingIDs' = Loop!UniqueIDsExcluding(req.pageToken.pendingIDs,
                                                Loop!Range(req.pageToken.returnedIDs))
      BY <3>1, SameLists DEF PendingOf
    <3>3. Loop!StartSearch
      BY <2>1, <2>2, <2>5, <3>1, <3>2 DEF Loop!StartSearch, MappedRequest
    <3> QED
      BY <3>3
  <2> QED
    BY <2>3, <2>4, <2>5
<1> QED
  BY <1>1, <1>2

\* Listing a page.
LEMMA FetchMaps ==
    ASSUME SummaryInv, FetchPage
    PROVE  Loop!FetchPage
<1> DEFINE page  == mailbox.listing[gmailPageToken]
           other == AsMailbox(mailbox).listing[gmailPageToken]
           fresh == UniqueIDsExcluding(page.threads, Range(returnedIDs))
<1>1. Loop!FetchDue
  BY SameConditions DEF FetchPage
<1>2. other.messages = page.threads /\ other.next = page.next
  BY MappedListing DEF SummaryInv, Types
<1>3. Loop!UniqueIDsExcluding(other.messages, Loop!Range(returnedIDs)) = fresh
  BY <1>2, SameLists
<1>4. /\ Loop!UseCall
      /\ UNCHANGED <<env, req, pol, returnedIDs, threads, response, client, views,
                     failures, lost>>
  BY DEF FetchPage, UseCall, Loop!UseCall
<1>5. CASE gmailPageToken # NoToken /\ page.next = gmailPageToken
  <2>1. gmailPageToken' = NoToken /\ pc' = "stop" /\ UNCHANGED pendingIDs
    BY <1>5 DEF FetchPage
  <2> QED
    BY <1>1, <1>2, <1>4, <1>5, <2>1
       DEF Loop!FetchPage, env, client, Loop!env, Loop!client
<1>6. CASE ~(gmailPageToken # NoToken /\ page.next = gmailPageToken)
  <2>1. /\ pendingIDs' = fresh /\ gmailPageToken' = page.next
        /\ pc' = IF fresh = <<>> /\ page.next = NoToken THEN "stop" ELSE "loop"
    BY <1>6 DEF FetchPage
  <2> HIDE DEF fresh, page
  <2> QED
    BY <1>1, <1>2, <1>3, <1>4, <1>6, <2>1
       DEF Loop!FetchPage, Loop!Exhausted, env, client, Loop!env, Loop!client
<1> QED
  BY <1>5, <1>6

\* Looking at the next thread.
LEMMA ReadMaps ==
    ASSUME SummaryInv, ReadThread
    PROVE  Loop!ReadMetadata
<1> DEFINE thread  == Head(pendingIDs)
           visible == VisibleThreadMessages(pol, mailbox, thread)
           s       == BuildThreadSummary(thread, visible)
<1>1. /\ Types /\ Stages /\ pc = "loop" /\ pendingIDs # <<>>
      /\ pendingIDs' = Tail(pendingIDs) /\ HeadThere # <<>> /\ HeadDue /\ UseCall
      /\ UNCHANGED <<env, pc, req, pol, gmailPageToken, response, client, views,
                     failures, lost>>
  BY DEF SummaryInv, ReadThread, HeadDue, Wanting
<1>2. /\ pendingIDs \in Seq(Threads) /\ threads \in Seq(Summary)
      /\ mailbox \in MailStates /\ pol \in PolicyFiles
  BY <1>1 DEF Types, Stages
<1>3. thread \in Threads
  BY <1>1, <1>2
<1>4. Loop!HeadDue /\ Loop!UseCall /\ thread \in AsMailbox(mailbox).present
  BY <1>1, <1>2, SameConditions, MappedPresence DEF HeadThere, UseCall, Loop!UseCall
<1>5. Loop!Returnable(thread) <=> (thread \notin Range(returnedIDs) /\ visible # <<>>)
  BY <1>2, <1>3, MappedVisibility, SameLists DEF Loop!Returnable
<1>6. ASSUME visible # <<>>
      PROVE  IDs(Append(threads, s)) = Append(IDs(threads), thread)
  <2>1. visible \in Seq(Messages)
    <3>1. visible = Shown(thread, View(pol, mailbox)) /\ View(pol, mailbox) \in SUBSET Messages
      BY <1>2, VisibleIsShown
    <3> HIDE DEF visible
    <3> QED
      BY <3>1, ShownProperties
  <2>2. s \in Summary
    BY <1>3, <1>6, <2>1, SummaryType
  <2>3. s.thread = thread
    BY SummaryFields
  <2> QED
    BY <1>2, <2>2, <2>3, IDsType
<1>7. CASE thread \notin Range(returnedIDs) /\ visible # <<>>
  <2>1. threads' = Append(threads, s) /\ returnedIDs' = Append(returnedIDs, thread)
    BY <1>7 DEF ReadThread, Remembered
  <2>2. IDs(threads') = Append(IDs(threads), thread)
    BY <1>6, <1>7, <2>1
  <2> HIDE DEF visible, s
  <2> QED
    BY <1>1, <1>4, <1>5, <1>7, <2>1, <2>2
       DEF Loop!ReadMetadata, env, client, Loop!env, Loop!client
<1>8. CASE ~(thread \notin Range(returnedIDs) /\ visible # <<>>)
  <2>1. UNCHANGED <<threads, returnedIDs>>
    BY <1>8 DEF ReadThread
  <2> HIDE DEF visible, s
  <2> QED
    BY <1>1, <1>4, <1>5, <1>8, <2>1
       DEF Loop!ReadMetadata, env, client, Loop!env, Loop!client
<1> QED
  BY <1>7, <1>8

\* Ending the search.
LEMMA EndMaps ==
    ASSUME SummaryInv, EndSearch
    PROVE  Loop!EndSearch
<1> DEFINE token == Loop!EncodeSearchPageToken(EffectiveQuery, pendingIDs, returnedIDs,
                                               gmailPageToken)
<1>1. /\ Types /\ Stages /\ pc \in {"loop", "stop"} /\ pc' = "respond"
      /\ response' = [code |-> "ok", threads |-> threads, pageToken |-> token]
      /\ pc = "stop" \/ (pc = "loop" /\ ~Wanting)
      /\ UNCHANGED <<env, req, pol, loop, calls, client, views, failures, lost>>
  BY DEF SummaryInv, EndSearch, RespondWith
<1>2. /\ req \in Request /\ req # None /\ pol \in PolicyFiles /\ threads \in Seq(Summary)
      /\ Loop!EffectiveQuery = EffectiveQuery
      /\ Loop!Wanting <=> Wanting
  BY <1>1, SameConditions, LoopAssumption DEF Types, Stages
<1>3. token \in Loop!PageToken
  BY <1>1, <1>2, QueryType, TokenTypes DEF Types
<1>4. MappedResponse([code |-> "ok", threads |-> threads, pageToken |-> token])
         = [code |-> "ok", messages |-> IDs(threads), pageToken |-> token]
  <2>1. "ok" \in Loop!Codes
    BY DEF Loop!Codes
  <2> HIDE DEF token
  <2> QED
    BY <1>2, <1>3, <2>1, RespondMaps
<1>5. MappedResponse(response') =
         [code |-> "ok", messages |-> IDs(threads),
          pageToken |-> Loop!EncodeSearchPageToken(Loop!EffectiveQuery, pendingIDs, returnedIDs,
                                                   gmailPageToken)]
  BY <1>1, <1>2, <1>4
<1>6. MappedRequest(req).wantDetail = FALSE
  BY <1>2 DEF MappedRequest
<1> QED
  BY <1>1, <1>2, <1>5, <1>6
     DEF MappedRequest, MappedResponse, Loop!EndSearch, env, loop, client, Loop!env, Loop!loop,
         Loop!client

\* The answer arrives, or does not.
LEMMA AnswerMaps ==
    ASSUME SummaryInv, Answer \/ LoseAnswer
    PROVE  Loop!Answer \/ Loop!LoseAnswer
<1> USE DEF env, client, Loop!env, Loop!client
<1>0. Types /\ Stages
  BY DEF SummaryInv
<1>1. ClearHandler => Loop!ClearHandler
  <2> SUFFICES ASSUME ClearHandler PROVE Loop!ClearHandler
    OBVIOUS
  <2>1. IDs(threads') = <<>> /\ {ThreadOf[m] : m \in UNION views'} = {}
    BY IDsType DEF ClearHandler
  <2> QED
    BY <2>1 DEF ClearHandler, Loop!ClearHandler
<1>2. CASE Answer
  <2>1. /\ pc = "respond" /\ response \in Response /\ response # None
        /\ UNCHANGED <<env, failures, lost>> /\ Loop!ClearHandler
    BY <1>0, <1>1, <1>2 DEF Answer, Types, Stages
  <2>2. MappedResponse(response) = [code |-> response.code, messages |-> IDs(response.threads),
                                    pageToken |-> response.pageToken]
    BY <2>1 DEF MappedResponse
  <2>3. /\ response.threads \in Seq(Summary)
        /\ IDs(response.threads) = <<>> <=> response.threads = <<>>
        /\ Loop!EffectiveQuery = EffectiveQuery
    BY <2>1, IDsType, SameConditions DEF Response
  <2>4. CASE response.code = "ok"
    <3>1. /\ feed' = feed \o IDs(response.threads)
          /\ feedToken' = response.pageToken
          /\ feedQueries' = IF IDs(response.threads) = <<>> THEN feedQueries
                            ELSE feedQueries \cup {Loop!EffectiveQuery}
          /\ ended' = (response.pageToken = Loop!FirstPage)
      BY <1>2, <2>3, <2>4 DEF Answer
    <3>2. Loop!Answer
      BY <2>1, <2>2, <2>4, <3>1 DEF Loop!Answer, MappedResponse
    <3> QED
      BY <3>2
  <2>5. CASE response.code # "ok"
    <3>1. UNCHANGED client
      BY <1>2, <2>5 DEF Answer
    <3>2. Loop!Answer
      BY <2>1, <2>2, <2>5, <3>1 DEF Loop!Answer, MappedResponse
    <3> QED
      BY <3>2
  <2> QED
    BY <2>4, <2>5
<1>3. CASE LoseAnswer
  <2>1. Loop!LoseAnswer
    BY <1>1, <1>3 DEF LoseAnswer, Loop!LoseAnswer
  <2> QED
    BY <2>1
<1> QED
  BY <1>2, <1>3

\* A step of this search is a step of the other, or leaves its variables alone.
LEMMA StepMaps == SummaryInv /\ [Next]_vars => [Loop!Next]_(Loop!vars)
<1> SUFFICES ASSUME SummaryInv, [Next]_vars PROVE Loop!Next \/ UNCHANGED Loop!vars
  OBVIOUS
<1>1. CASE MailboxChanges \/ PolicyFileChanges \/ Ask \/ BeginAgain
  BY <1>1, WorldMaps DEF Loop!Next
<1>2. CASE OpenFails \/ ResolveVisibilityLabel \/ NotFound \/ GmailFails \/ DeadlineExceeded
  BY <1>2, FailuresMap DEF Loop!Next, Loop!Handler
<1>3. CASE LoadPolicy \/ StartSearch
  BY <1>3, StartMaps DEF Loop!Next, Loop!Handler
<1>4. CASE FetchPage
  BY <1>4, FetchMaps DEF Loop!Next, Loop!Handler
<1>5. CASE ReadThread
  BY <1>5, ReadMaps DEF Loop!Next, Loop!Handler
<1>6. CASE EndSearch
  BY <1>6, EndMaps DEF Loop!Next, Loop!Handler
<1>7. CASE Answer \/ LoseAnswer
  BY <1>7, AnswerMaps DEF Loop!Next, Loop!Handler
<1>8. CASE UNCHANGED vars
  BY <1>8 DEF vars, env, loop, client, Loop!vars, Loop!env, Loop!loop, Loop!client
<1> QED
  BY <1>1, <1>2, <1>3, <1>4, <1>5, <1>6, <1>7, <1>8 DEF Next, Handler

\* The search for threads implements the search for messages, over threads: the
\* loop that the code has twice is one (handleSearchThreads, searchVisibleMessages).
THEOREM ThreadSearchImplementsLoop == Spec => LoopSpec
<1>1. Init => Loop!Init
  BY InitMaps
<1>2. SummaryInv /\ [Next]_vars => [Loop!Next]_(Loop!vars)
  BY StepMaps
<1> QED
  BY <1>1, <1>2, SummariesAreInvariant, PTL DEF Spec, LoopSpec, Loop!Spec

(***************************************************************************)
(* What is proved of the search for messages is true of the search for     *)
(* threads.                                                                *)
(***************************************************************************)
\* The proofs about the search for messages, read as Loop reads that search.
Search == INSTANCE MessageSearchProofs WITH
    Messages        <- Threads,
    OwnerMessages   <- {},
    Labels          <- Labels \cup {Mark},
    SentLabel       <- Mark,
    Mailboxes       <- AsMailboxes,
    mailbox         <- AsMailbox(mailbox),
    stuck           <- FALSE,
    req             <- MappedRequest(req),
    visibleMessages <- IDs(threads),
    shaped          <- 0,
    response        <- MappedResponse(response),
    witnessed       <- {ThreadOf[m] : m \in UNION views}

\* What those proofs assume of the constants.
LEMMA SearchAssumptions ==
    /\ Mark \in Labels \cup {Mark} /\ NoLabel \notin Labels \cup {Mark} /\ {} \subseteq Threads
    /\ NoToken \notin Tokens /\ BareTokens \subseteq Tokens
    /\ DefaultSearchLimit \in Nat \ {0} /\ MaxSearchResults \in Int /\ Limits \subseteq Int
    /\ AsMailboxes \subseteq Search!Mailbox /\ PolicyFiles \subseteq Search!Policy
    /\ {CallBudget, MaxChanges, MaxFailures, MaxLost} \subseteq Nat
    /\ None \notin Search!Policy /\ None \notin Search!SearchQueries(UserQueries)
    /\ None \notin Search!Response /\ None \notin Search!Request
<1>1. NoLabel \notin Labels \cup {Mark}
  BY VisibilityAssumption, LoopAssumption
<1>2. ASSUME NEW box \in MailStates PROVE AsMailbox(box) \in Search!Mailbox
  <2> DEFINE in(t)   == {m \in box.present : ThreadOf[m] = t}
             own(t)  == \E m \in in(t) : m \in OwnerMessages \/ SentLabel \in box.labels[m]
             mark(t) == IF own(t) THEN {Mark} ELSE {}
             all(t)  == UNION {box.labels[m] : m \in in(t)}
  <2>1. /\ box.listing \in [PageTokens -> ThreadPage] /\ box.present \in SUBSET Messages
        /\ box.labels \in [Messages -> SUBSET Labels] /\ box.named \in SUBSET Labels
    BY ThreadSearchAssumption DEF MailState
  <2>2. \A t \in Threads : mark(t) \in SUBSET (Labels \cup {Mark})
    <3> HIDE DEF own
    <3> QED
      OBVIOUS
  <2>3. \A t \in Threads : all(t) \in SUBSET (Labels \cup {Mark})
    BY <2>1
  <2>4. AsMailbox(box).labels = [t \in Threads |-> mark(t) \cup all(t)]
    BY DEF AsMailbox
  <2> HIDE DEF mark, all
  <2>5. AsMailbox(box).labels \in [Threads -> SUBSET (Labels \cup {Mark})]
    BY <2>2, <2>3, <2>4
  <2>6. AsMailbox(box).listing \in [Search!PageTokens -> Search!GmailPage]
    <3>1. \A t \in PageTokens :
             [messages |-> box.listing[t].threads, next |-> box.listing[t].next]
                \in Search!GmailPage
      BY <2>1 DEF ThreadPage, Search!GmailPage, Search!PageTokens, PageTokens
    <3>2. AsMailbox(box).listing =
             [t \in PageTokens |-> [messages |-> box.listing[t].threads,
                                    next     |-> box.listing[t].next]]
      BY DEF AsMailbox
    <3> QED
      BY <3>1, <3>2 DEF Search!PageTokens, PageTokens
  <2>7. AsMailbox(box).present \in SUBSET Threads /\ AsMailbox(box).named \in SUBSET Labels
    BY <2>1, MappedListing, ThreadSearchAssumption
  <2>8. AsMailbox(box) = [listing |-> AsMailbox(box).listing, labels |-> AsMailbox(box).labels,
                          present |-> AsMailbox(box).present, named |-> AsMailbox(box).named]
    BY DEF AsMailbox
  <2> QED
    BY <2>5, <2>6, <2>7, <2>8 DEF Search!Mailbox
<1>3. PolicyFiles \subseteq Search!Policy
  BY ThreadSearchAssumption DEF Policy, Search!Policy
<1>4. None \notin Search!Response /\ None \notin Search!Request
  BY LoopAssumption DEF Search!Response, Search!Request, Search!PageToken, Search!PageTokens,
     Search!SearchQueries, Search!Codes, Loop!Response, Loop!Request, Loop!PageToken,
     Loop!PageTokens, Loop!SearchQueries, Loop!Codes
<1>5. None \notin Search!Policy /\ None \notin Search!SearchQueries(UserQueries)
  BY LoopAssumption DEF Search!Policy, Search!SearchQueries, Loop!Policy, Loop!SearchQueries
<1> QED
  BY <1>1, <1>2, <1>3, <1>4, <1>5, ThreadSearchAssumption DEF AsMailboxes

\* Loop and the search those proofs are about are the same specification.
LEMMA SameSearch == Loop!Spec => Search!Spec
<1> USE DEF MappedRequest, MappedResponse, Loop!env, Search!env, Loop!loop, Search!loop, Loop!client, Search!client, Loop!vars,
         Search!vars, Loop!FirstPage, Search!FirstPage, Loop!ForeignToken,
         Search!ForeignToken, Loop!BareToken,
         Search!BareToken, Loop!Failure, Search!Failure, Loop!MapGmailError,
         Search!MapGmailError, Loop!NormalizeSearchLimit, Search!NormalizeSearchLimit,
         Loop!DecodesUnder, Search!DecodesUnder, Loop!EncodeSearchPageToken,
         Search!EncodeSearchPageToken, Loop!EffectiveQuery, Search!EffectiveQuery,
         Loop!Limit, Search!Limit, Loop!Allowed, Search!Allowed, Loop!AllowsMessage,
         Search!AllowsMessage, Loop!HasVisibilityLabel, Search!HasVisibilityLabel,
         Loop!IsOwnerSent, Search!IsOwnerSent, Loop!HasVisibleSearchScope,
         Search!HasVisibleSearchScope, Loop!SearchQuery, Search!SearchQuery,
         Loop!UniqueIDsExcluding, Search!UniqueIDsExcluding, Loop!AtPositions,
         Search!AtPositions, Loop!FirstOccurrences, Search!FirstOccurrences, Loop!Rank,
         Search!Rank, Loop!Cardinality, Search!Cardinality, Loop!Range, Search!Range,
         Loop!ClearHandler, Search!ClearHandler, Loop!RespondWith, Search!RespondWith,
         Loop!UseCall, Search!UseCall, Loop!Wanting, Search!Wanting, Loop!FetchDue,
         Search!FetchDue, Loop!HeadDue, Search!HeadDue, Loop!DetailDue,
         Search!DetailDue, Loop!CallDue, Search!CallDue, Loop!Exhausted,
         Search!Exhausted, Loop!Returnable, Search!Returnable
<1>1. Loop!Init => Search!Init
  BY DEF Loop!Init, Search!Init
<1>2. [Loop!Next]_(Loop!vars) => [Search!Next]_(Search!vars)
  <2>1. Loop!MailboxChanges => Search!MailboxChanges
    BY DEF Loop!MailboxChanges, Search!MailboxChanges
  <2>2. Loop!PolicyFileChanges => Search!PolicyFileChanges
    BY DEF Loop!PolicyFileChanges, Search!PolicyFileChanges
  <2>3. Loop!Ask => Search!Ask
    BY DEF Loop!Ask, Search!Ask
  <2>4. Loop!BeginAgain => Search!BeginAgain
    BY DEF Loop!BeginAgain, Search!BeginAgain
  <2>5. Loop!LoadPolicy => Search!LoadPolicy
    BY DEF Loop!LoadPolicy, Search!LoadPolicy
  <2>6. Loop!OpenFails => Search!OpenFails
    BY DEF Loop!OpenFails, Search!OpenFails
  <2>7. Loop!ResolveVisibilityLabel => Search!ResolveVisibilityLabel
    BY DEF Loop!ResolveVisibilityLabel, Search!ResolveVisibilityLabel
  <2>8. Loop!StartSearch => Search!StartSearch
    BY DEF Loop!StartSearch, Search!StartSearch
  <2>9. Loop!FetchPage => Search!FetchPage
    BY DEF Loop!FetchPage, Search!FetchPage
  <2>10. Loop!ReadMetadata => Search!ReadMetadata
    BY DEF Loop!ReadMetadata, Search!ReadMetadata
  <2>11. Loop!EndSearch => Search!EndSearch
    BY DEF Loop!EndSearch, Search!EndSearch
  <2>12. Loop!ReadFull => Search!ReadFull
    BY DEF Loop!ReadFull, Search!ReadFull
  <2>13. Loop!EndDetail => Search!EndDetail
    BY DEF Loop!EndDetail, Search!EndDetail
  <2>14. Loop!NotFound => Search!NotFound
    BY DEF Loop!NotFound, Search!NotFound
  <2>15. Loop!GmailFails => Search!GmailFails
    BY DEF Loop!GmailFails, Search!GmailFails
  <2>16. Loop!DeadlineExceeded => Search!DeadlineExceeded
    BY DEF Loop!DeadlineExceeded, Search!DeadlineExceeded
  <2>17. Loop!Answer => Search!Answer
    BY DEF Loop!Answer, Search!Answer
  <2>18. Loop!LoseAnswer => Search!LoseAnswer
    BY DEF Loop!LoseAnswer, Search!LoseAnswer
  <2>19. Loop!KeyringSticks => Search!KeyringSticks
    BY DEF Loop!KeyringSticks, Search!KeyringSticks
  <2>20. Loop!KeyringRecovers => Search!KeyringRecovers
    BY DEF Loop!KeyringRecovers, Search!KeyringRecovers
  <2> QED
    BY <2>1, <2>2, <2>3, <2>4, <2>5, <2>6, <2>7, <2>8, <2>9, <2>10, <2>11, <2>12,
       <2>13, <2>14, <2>15, <2>16, <2>17, <2>18, <2>19, <2>20
       DEF Loop!Next, Loop!Handler, Search!Next, Search!Handler
<1> QED
  BY <1>1, <1>2, PTL DEF Loop!Spec, Search!Spec

\* The state of that search is typed and keeps its invariant in every reachable
\* state of this one.
LEMMA SearchInvariants == Spec => [](Search!TypeOK /\ Search!CursorMatchesFeed)
<1>1. Search!Spec => []Search!TypeOK
  BY SearchAssumptions, Search!TypeCorrect
<1>2. Search!Spec => []Search!CursorMatchesFeed
  BY SearchAssumptions, Search!CursorIsInvariant
<1> QED
  BY <1>1, <1>2, SameSearch, ThreadSearchImplementsLoop, PTL DEF LoopSpec

\* Type correctness of ThreadSearch.
THEOREM ThreadSearchTypeCorrect == Spec => []TypeOK
<1>1. Search!TypeOK => Loop!TypeOK
  BY DEF Loop!TypeOK, Search!TypeOK, Loop!WorldType, Search!WorldType, Loop!HandlerType,
     Search!HandlerType, Loop!CursorType, Search!CursorType, Loop!ClientType,
     Search!ClientType, Loop!Request, Search!Request, Loop!PageToken, Search!PageToken,
     Loop!Response, Search!Response, Loop!Codes, Search!Codes, Loop!PageTokens,
     Search!PageTokens, Loop!SearchQueries, Search!SearchQueries, MappedRequest,
     MappedResponse
<1>2. SummaryInv /\ Loop!TypeOK => TypeOK
  BY DEF SummaryInv, Types, TypeOK, Response
<1> QED
  BY <1>1, <1>2, SearchInvariants, SummariesAreInvariant, PTL

\* What is proved of the feed of messages holds of the feed of threads: no thread
\* comes twice, all of a feed was found under one effective query, a page that
\* names a next one is full, and what is answered the policy showed.
THEOREM ThreadFeedsKeepTheirPromises ==
    Spec => [](/\ Loop!FeedHasNoDuplicates /\ Loop!OnePolicyPerFeed
               /\ Loop!MorePagesMeansFullPage /\ Loop!OnlyAllowedAreAnswered)
<1>1. Search!Spec => []Search!FeedHasNoDuplicates
  BY SearchAssumptions, Search!NoDuplicates
<1>2. Search!Spec => []Search!OnePolicyPerFeed
  BY SearchAssumptions, Search!OnePolicy
<1>3. Search!Spec => []Search!MorePagesMeansFullPage
  BY SearchAssumptions, Search!FullPages
<1>4. Search!Spec => []Search!OnlyAllowedAreAnswered
  BY SearchAssumptions, Search!OnlyAllowed
<1>5. Search!FeedHasNoDuplicates => Loop!FeedHasNoDuplicates
  BY DEF Search!FeedHasNoDuplicates, Loop!FeedHasNoDuplicates, Search!IsInjective,
     Loop!IsInjective
<1>6. Search!OnePolicyPerFeed => Loop!OnePolicyPerFeed
  BY DEF Search!OnePolicyPerFeed, Loop!OnePolicyPerFeed, Search!Cardinality, Loop!Cardinality
<1>7. Search!MorePagesMeansFullPage => Loop!MorePagesMeansFullPage
  BY DEF Search!MorePagesMeansFullPage, Loop!MorePagesMeansFullPage, Search!FirstPage,
     Loop!FirstPage, Search!Limit, Loop!Limit, Search!NormalizeSearchLimit,
     Loop!NormalizeSearchLimit, MappedRequest, MappedResponse
<1>8. Search!OnlyAllowedAreAnswered => Loop!OnlyAllowedAreAnswered
  BY DEF Search!OnlyAllowedAreAnswered, Loop!OnlyAllowedAreAnswered, Search!Range, Loop!Range,
     MappedResponse
<1> QED
  BY <1>1, <1>2, <1>3, <1>4, <1>5, <1>6, <1>7, <1>8, SameSearch, ThreadSearchImplementsLoop,
     PTL DEF LoopSpec

\* Gmail's pages lead from the first to each that lists anything.
LeadsOn(box) ==
    \A read \in SUBSET PageTokens :
        (NoToken \in read /\ \A t \in read : box.listing[t].next \in read)
            => \A t \in PageTokens \ read : box.listing[t].threads = <<>>

\* Where searches begin at the first page, and the pages lead from it to each that
\* lists anything and none names itself, a feed that reached its end has every
\* listed thread of which the policy shows a message (handleSearchThreads and its
\* cursor).
THEOREM ThreadFeedsAreComplete ==
    ASSUME BareTokens = {}, \A box \in MailStates : LeadsOn(box)
    PROVE  Spec => []ThreadFeedIsComplete
<1>1. Search!Spec => [](Search!SoundlyPaged(AsMailbox(mailbox)) => Search!FeedIsComplete)
  BY SearchAssumptions, Search!SoundlyPagedFeedsAreComplete
<1>2. ASSUME SummaryInv, \A t \in PageTokens \ {NoToken} : mailbox.listing[t].next # t
      PROVE  Search!SoundlyPaged(AsMailbox(mailbox))
  <2>1. mailbox \in MailStates /\ LeadsOn(mailbox)
    BY <1>2 DEF SummaryInv, Types
  <2>2. \A t \in PageTokens :
           /\ AsMailbox(mailbox).listing[t].messages = mailbox.listing[t].threads
           /\ AsMailbox(mailbox).listing[t].next = mailbox.listing[t].next
    BY <2>1, MappedListing
  <2>3. Tokens = PageTokens \ {NoToken}
    BY ThreadSearchAssumption DEF PageTokens
  <2>4. Search!PageTokens = PageTokens
    BY DEF Search!PageTokens, PageTokens
  <2> QED
    BY <1>2, <2>1, <2>2, <2>3, <2>4 DEF Search!SoundlyPaged, LeadsOn
<1>3. Search!FeedIsComplete => Loop!FeedIsComplete
  BY DEF Search!FeedIsComplete, Loop!FeedIsComplete, Search!Undisturbed, Loop!Undisturbed,
     Search!HasVisibleSearchScope, Loop!HasVisibleSearchScope, Search!PageTokens,
     Loop!PageTokens, Search!Range, Loop!Range, Search!Allowed, Loop!Allowed,
     Search!AllowsMessage, Loop!AllowsMessage, Search!HasVisibilityLabel,
     Loop!HasVisibilityLabel, Search!IsOwnerSent, Loop!IsOwnerSent
<1>4. SummaryInv /\ (Search!SoundlyPaged(AsMailbox(mailbox)) => Search!FeedIsComplete)
         => ThreadFeedIsComplete
  BY <1>2, <1>3 DEF ThreadFeedIsComplete
<1> QED
  BY <1>1, <1>4, SameSearch, ThreadSearchImplementsLoop, SummariesAreInvariant, PTL DEF LoopSpec

\* In a mailbox that stands still, where each listed thread has a visible message
\* and the context lasts for two passes over the listing, a search for threads is
\* answered with a Gmail error only when Gmail fails (handleSearchThreads).
THEOREM HealthyThreadSearchesSucceed ==
    ASSUME BareTokens = {}
    PROVE  Spec => [](Search!Healthy(policyFile, AsMailbox(mailbox)) => Loop!HealthySearchSucceeds)
<1>1. Search!Spec => [](Search!Healthy(policyFile, AsMailbox(mailbox))
                            => Search!HealthySearchSucceeds)
  BY SearchAssumptions, Search!HealthySearchesSucceed
<1>2. Search!HealthySearchSucceeds => Loop!HealthySearchSucceeds
  BY DEF Search!HealthySearchSucceeds, Loop!HealthySearchSucceeds, Search!Undisturbed,
     Loop!Undisturbed, MappedResponse
<1> QED
  BY <1>1, <1>2, SameSearch, ThreadSearchImplementsLoop, PTL DEF LoopSpec

=============================================================================
