# safe-gmail in TLA+

safe-gmail lets an untrusted local client (an agent, a script) read part of a
Gmail mailbox and create drafts in it.  A broker, `safe-gmaild`, holds the OAuth
token and decides what is visible; the client, `safe-gmail`, speaks a small JSON
protocol with it over a unix socket.  This directory holds a model of the broker
and of its clients: TLA+ modules, TLC configurations that check them on small
instances, and proofs about them that TLAPS checks for every instance.

`PROJECT.json` is the machine-readable index: components, runs, mutants, the map
from each definition to the source lines it stands for, findings, hazards and
theorems.  Paths below are relative to `src/`.

To check a run: `tlc -config MCMessageSearch_safety.cfg MCMessageSearch`.
To check the proofs: `tlapm M.tla` for each module `M` that is named `...Proofs`.


## 1. The system

### Components, their state and operations

| component | source | state | operations |
|---|---|---|---|
| message search | `internal/broker/server.go` 351-540, 989-1136 | none between requests: all of it travels in the client's page token (pending and returned ids, Gmail's token, the query) | `gmail.search_messages` |
| thread search | `server.go` 230-331, `internal/gmailapi/thread.go` | as message search, over thread ids | `gmail.search_threads` |
| visibility policy | `internal/policy/policy.go`, `server.go` 714-770, 872-935 | the policy file, read again for each request | load, resolve the label, allow a message, build the query |
| object handlers | `server.go` 234-349, 433-712, 1155-1182 | the mailbox (Gmail); one request's authorized ids and contents | `get_message`, `get_thread`, `get_attachment`, `create_draft`, `list_labels` |
| reply recipients | `internal/gmailapi/draft.go` | none | who a reply is for, which message it answers, what it refers to |
| message shaping | `internal/gmailapi/message.go`, `attachment.go`, `label.go` | none | payload to answer |
| connection handling | `server.go` 86-228, 1184-1190, `internal/rpc/client.go`, `framing.go` | per connection: progress, deadlines; per call: progress | accept, read, dispatch, write; `rpc.Call` |
| token store and login | `internal/auth/store.go`, `flow.go`, `cmd/safe-gmaild/main.go` 119-209, `internal/gmailapi/service.go` 67-134 | the keyring record, the token source of each request, each login run; the goroutine that opens a keyring | open, load, refresh, save; `auth login` |
| socket lifecycle | `server.go` 86-133, `cmd/safe-gmaild/main.go` 50-83, `internal/service` | the socket path, the listener, each process | start, signal, exit, kill, restart |
| client command | `cmd/safe-gmail/main.go` | each process; the output path and its temporary files | every subcommand, from its checks to its exit status |
| configuration, envelope, service files, label listing, peer credentials, OAuth client file | `internal/config`, `internal/rpc`, `internal/service`, `internal/broker/peercred_*.go`, `internal/auth/client.go` | read once or none | parse, validate, render |

### How they interact

A client dials the socket, writes one request frame, and reads one response
frame.  The accept loop gives every connection a goroutine.  That goroutine
checks the peer's uid, reads the request under a 15 s read deadline, sets a 15 s
write deadline and dispatches the request, whose Gmail calls share a 30 s
context.  A handler opens a *runtime* of its own: the policy file, a Gmail client
on the token in the keyring (which it opens anew, on Linux through a helper
goroutine), and the visibility label's identifier.  It reads metadata, asks the
policy, and only then reads contents or creates a draft.  Handlers share no
memory.  What they share is outside of the process: the Gmail mailbox, the policy
file, and the keyring record, which `auth login` (another process) writes too.  A
service manager starts, stops and restarts the daemon.

### What is hard about it

- **Search state lives in the client's cursor.**  Gmail's pages shift between two
  calls; a client page may end in the middle of a Gmail page; the policy may be
  edited between two client pages; answers get lost and requests are repeated.
- **Authorization and contents are read in different calls**, and the mailbox
  moves between them.  A thread is read message by message.
- **A thread is listed by one date and answered by another**: its summary takes
  the newest message by whole seconds, the reply by milliseconds.
- **Deadlines overlap**: 15 s of the client from dialling, 15 s to read, 15 s to
  write that start before the dispatch, 30 s for the dispatch; a client that gave
  up leaves its handler running, and the daemon exits under its handlers.
- **`create_draft` is not idempotent** and its outcome may be unknown.
- **The keyring record is read, refreshed and saved whole**, by every request and
  by the login, and nothing locks it.
- **A keyring that does not answer** keeps goroutines behind its 5 s timeout.  That
  timeout exists on Linux only; the `Load` that follows and the `Save` after a refresh
  have none, and no context reaches them: the one wait of a handler without an end.
- **One socket path** is removed, bound, chmodded and unlinked by processes that
  may overlap, be signalled at any step, or be killed.
- **A download replaces a file** that other commands may be writing, and may fail
  at each of its steps.

### What makes each part correct

- message search: no message is given twice, none is skipped, one policy per
  feed, only allowed messages, an answer to every request, an end to every feed.
- thread search: the same, and summaries that are one look at the mailbox and say
  nothing of hidden messages.
- object handlers: contents are read only of what was visible, what is answered
  is what one look at the mailbox would have shown, and what is visible is served.
- reply recipients: everybody a reply is meant for, once, never the owner, also
  when a retry replies to its own first draft; and it stays in its conversation.
- message shaping: a body is a prefix of what was sent, no character is cut in
  two, and a truncation is admitted.
- connection handling: a refusal left no effect, the broker does not give up
  before its own client, handlers end and calls return as long as the keyring answers,
  and abandoned work that can still reach Gmail is bounded.
- token store: only the owner's token is stored, a login takes effect and lasts,
  refreshes do not strand the record; a stuck keyring leaves nothing for ever.
- socket lifecycle: a serving broker can be reached, its socket is taken away
  when it ends, it comes back after a failure.
- client command: an output path holds a whole file, no temporary file is left, the
  exit status is true, and every command ends.


## 2. The modules

```
SearchIDs  --> SearchIDsProofs
Visibility, SearchIDs  --> MessageSearch --> MCMessageSearch
                           (SearchFeed: INSTANCE)
MessageSearch, SearchIDsProofs --> MessageSearchProofs

SearchIDs              --> DraftReply
Visibility, DraftReply --> ThreadSearch --> MCThreadSearch
                           (MessageSearch: INSTANCE ... WITH)
ThreadSearch, SearchIDsProofs --> ThreadSearchProofs
                           (MessageSearchProofs: INSTANCE ... WITH)
Visibility, DraftReply, MessageShaping --> ReadHandlers --> MCReadHandlers
ReadHandlers, SearchIDsProofs --> ReadHandlersProofs

ClientCommand, KeyringOpen --> Commands --> MCCommands, CommandsProofs
Connection      --> MCConnection, ConnectionProofs
TokenStore      --> MCTokenStore, TokenStoreProofs
SocketLifecycle --> MCSocketLifecycle, SocketLifecycleProofs
```

**`Visibility`** - what a policy shows.  A policy is a visibility label (or none)
and whether the owner's sent mail is shown; a message is its labels and whether
it is from the owner.  `AllowsMessage` is `Policy.AllowsMessage`; `SearchQuery`
is the pair of clauses `searchQuery` adds to the caller's query.

**`SearchIDs`** - `uniqueIDsExcluding`, and the filters of threads (`Keep`), as what
a list has at a set of positions: without recursion, so that they can be proved about.

**`MessageSearch`** - `gmail.search_messages`.  One step per Gmail call: `pc`
follows the handler from `LoadPolicy` and `ResolveVisibilityLabel` through the
loop of `searchVisibleMessages` (`FetchPage`, `ReadMetadata`) to the detail
fetches (`ReadFull`) and the answer.  `pendingIDs`, `returnedIDs`,
`gmailPageToken` and `visibleMessages` are the loop's variables of the same
names.  The client (`feed`, `feedToken`) follows page tokens, asks again after an
error or a lost answer, or begins again.  The mailbox and the policy file may
change between any two steps.  A page token is a record, opaque to the client;
`DecodesUnder` is the check that it belongs to this search and to the effective query
(`ForeignToken` stands for one that is malformed, of another version or of another
search).  `stuck` says that the keyring does not answer: `LoadPolicy`, which opens the
runtime, waits for it, and the request's context may be over when it is done.

**`SearchFeed`** - what a paged search promises: a feed that only grows, by
messages that are new to it and were allowed at some moment of the request.
`MessageSearch` implements it (`FeedSpec`, with `witnessed` for `allowed`).

**`ThreadSearch`** - `gmail.search_threads`.  The code has the paging loop twice;
here its second copy is translated from `handleSearchThreads`, with the client and
the world around it, and `LoopSpec` says that it is the first: `MessageSearch`
instantiated over threads, where a thread carries the labels of all of its
messages (`Loop`).  What the loop does not know is the summary, built from the
visible messages of a thread read in one call: the newest by received time in
whole seconds, the participants, the count.  `views` is a history variable: what
the policy showed at each moment of the request.

**`ReadHandlers`** - the five handlers that name an object, call by call, over a
mailbox that changes and in which the drafts they create are messages, with
`views` as above.  **`DraftReply`** has the pure parts of replying: recipients, the
message a reply answers, In-Reply-To and References.  **`MessageShaping`** has the
body of a message: `bestBodyText` and `truncateUTF8` over sequences of bytes, of
which only their place in UTF-8 is kept.

**`Connection`** - `Server.Run`'s accept loop, `handleConn` and `rpc.Call`, one
record per side of each call.  Time is discrete, a tick is 7.5 s, and no tick
passes while something that is due has not happened.  What the dispatch does is
reduced to a draft that is posted, and that Gmail may commit at any later moment, and
to its waits: for Gmail, which its context ends after 30 s (`DispatchDue`), and for the
keyring, which nothing ends (`WaitForKeyring`, `KeyringAnswers`); the context runs on
meanwhile.  A client writes and reads as soon as it can, unless it is one of `Slow`.

**`TokenStore`** - the record, the persisting token source of each request
(`Load`, `NeedRefresh`, `Refresh`, `Persist`), and the login
(`Paste`, `Exchange`, `CheckProfile`, `StoreLogin`).  Google issues, rotates and
expires tokens; its answer to a refresh it carried out may be lost (`LoseRefresh`); saves
fail and the daemon crashes.

**`KeyringOpen`** - `OpenTokenStore`, `openKeyring` and `openKeyringWithTimeout`:
with the system's keyring on Linux, a helper goroutine opens it and hands over its
result through a channel with room for one, while the request waits for that or
for 5 s; elsewhere the request waits itself; then `Load`, without a timeout.  The
keyring may be stuck at any time.

**`ClientCommand`** - `cmd/safe-gmail/main.go`: what each subcommand checks, its one
call, the atomic write of a downloaded attachment (temporary file, write, chmod,
close, rename, deferred remove), its exit status.  Processes run side by side and
may be killed at any step.  **`Commands`** puts the two together: each command's
request opens the daemon's keyring.

**`SocketLifecycle`** - `Run` step by step with its deferred calls in their order,
the goroutine that closes the listener on a signal, kills, restarts by the
service manager, and runs started by hand.  A run that was killed and one that ended
with an error are told apart (`"killed"`, `"failed"`).

Comments at the head of each module say what it abstracts.  Operators whose name
contains an underscore (`EncodeSearchPageToken_ForgetsReturned`) are mutated forms
of the operator they are named after: plausible bugs that the checked properties
are known to detect.  No specification uses them.


## 3. The runs

| run | checks | what it shows |
|---|---|---|
| `search_safety` | `TypeOK`, `CursorMatchesFeed`, `FeedHasNoDuplicates`, `OnePolicyPerFeed`, `OnlyAllowedAreAnswered`, `FeedSpec`, `EveryRequestIsAnswered` | Overlapping, shifting and repeating pages, relabelling, deletion, a removed label, three policies, a failure and a lost answer: the feed stays sound, and every request is answered unless the keyring sticks for good. |
| `search_complete` | `FeedIsComplete`, `HealthySearchSucceeds`, `FeedEnds` | Where nothing is hidden, following page tokens ends, with every listed message, for any mix of the limits 1 and 2; a page with room left lists the first page again and does not fail on it. |
| `search_hidden` | `HealthySearchSucceeds` (violated) | Finding 1. |
| `threads` | `SummariesAreOneView`, `ReplyAnswersWhatIsListed`, `ThreadFeedIsComplete`, `LoopSpec` | Threads whose messages are hidden, deleted and relabelled one by one: no summary mixes two looks at the mailbox or names a participant of a hidden message, a reply answers the message the summary shows (or one of the same second), and the second copy of the loop implements the first. |
| `handlers` | `OnlyVisibleContentsAreRead`, `AnswersAreOneView`, `VisibleMailIsServed`, `BodiesAreHonest`, `RepliesReachTheirAudience`, `RepliesJoinTheConversation`, `DraftsAnswerVisibleMail` | Reads and two drafts in a mailbox that changes twice between the calls. |
| `connection_safety` | `TypeOK`, `RefusedMeansNoDraft`, `BrokerOutlastsItsClient`, `AbandonedWorkIsBounded` | The repository's client twice, a stranger once, a restart, and a keyring that holds a handler for any time. |
| `connection_ends` | `HandlersEnd`, `EveryCallReturns` | A client that never reads, Gmail calls that hang, and a keyring that may never answer: only that one keeps a handler, and a call without a deadline with it. |
| `connection_response` | `ExactlyOneResponse` (violated) | Finding 2. |
| `token_safety` | `RotationDoesNotStrand`, `OnlyTheOwnersTokenIsStored`, `QuietLoginStaysStored` | Two requests and two logins over one record; a failed save, a lost answer or a crash. |
| `socket_runs` | `ServingIsReachable`, `OneIsReachable`, `OnlyTheKilledLeaveSockets`, `ServiceComesBack` | Three runs, two of them perhaps by hand, two failures, signals anywhere. |
| `commands` | `TargetIsWhole`, `TempsAreRemoved`, `StatusIsTruthful`, `EveryCommandExits`, `EveryOpenReturns`, `LeftoversEnd` | Two command lines side by side, killed or failing at any step, over a keyring that may be stuck. |

### Bounds, and why they are enough

- *Search*: three messages and one to three Gmail pages.  A cursor problem needs a
  message on two pages, one that is pending while another is returned, and a page
  boundary of the client inside a Gmail page: all occur with three messages and
  pages of one and two.  `CallBudget` stands for the 30 s context: 7 calls let a
  request look at every listed message once and again, so that the budget really
  runs out in some behaviours; in `search_complete` it is 19, which is `Ample` for both
  mailboxes and both limits (two passes of at most 8 calls, the label, two full
  messages), since there a deadline would be a failure of the mailbox's.  `MaxChanges`,
  `MaxFailures` and `MaxLost` bound the environment: two changes, since one is
  needed between authorization and detail and one between two pages.  The proofs
  of section 5 need none of these bounds.
- *Threads*: two threads of two messages.  In one thread both came within a second,
  in the other the order of dates is not Gmail's; each may be shown whole, in part
  or not at all.  Two changes, a failure and a lost answer, as above.
- *Handlers*: two threads, one with two messages whose dates are not in Gmail's
  order, and two drafts, since a retry needs a second one.  Sizes of attachments
  are the real ones around 23 MiB, with one that states a size it does not have.
  `MaxBodyBytes` is 6: one body fits exactly, one has a character of four bytes
  across the limit, one an invalid byte before it.
- *Connection*: two calls per client show what an abandoned handler does beside its
  successor.  One restart: a second one meets no state the first does not.  Two
  ticks for each 15 s and four for the 30 s keep every order of the deadlines.
- *Tokens*: two requests race with each other, two logins with each other; three
  access tokens let each of the two requests refresh and a login come in between.
- *Socket*: three runs: one that serves, one that takes over, one that finds what
  both left.
- *Commands*: two processes, since a race for one output path takes two; seven
  command lines, each of which another check or another step can end; four keyring
  configurations, the keyring stuck from the start and once more.

`CHECK_DEADLOCK FALSE` stands where a system really stops: a client at the end of
its feed; all of the bounded number of calls, logins, runs or commands over.

### Fairness

- `MessageSearch`: fairness of the handler's steps alone, and only where the keyring
  answers (`HandlerRuns`: strong, since the keyring may stick and answer again any number
  of times before the handler gets on).  A handler waits for Gmail calls, which the
  context ends, and for the keyring, which no timeout bounds (`store.go:98`, `171`,
  `246`); so the liveness properties except a keyring that sticks for ever.  In
  `FollowSpec` the client, too, goes on asking.
- `Connection`: weak fairness of what the broker does when it is due (accepting,
  reading, timing out, ending a dispatch at its deadline where it is not in the keyring,
  failing to write), of the clock, and of a client process that runs, up to its own
  timeout.  Nothing is assumed of Gmail, of the keyring, of a client that writes late, or
  of one that waits for ever.  `HandlersEnd` and `EveryCallReturns` say what a keyring
  that never answers can keep (`LeftToKeyring`).
- `SocketLifecycle`: a run's own steps, and the restart after a failure
  (`Restart=on-failure`).  Signals, kills and accept errors are never forced.
- `Commands`: a process's own steps and its call's deadline, and what goroutines
  and timers of the daemon do when they can.  Nothing is assumed of the broker's
  answer, of the keyring (which may be stuck for ever), or of standard input.
- `ThreadSearch`, `ReadHandlers`, `TokenStore`: none; what is checked is safety.


## 4. Findings

1. **`search_hidden`** (code bug, `server.go:375`).  The loop takes the empty Gmail
   token both for "first page" and for "no more pages".  When the last Gmail page
   is used up while the answer has room left, and a message of it was hidden, the
   loop lists the first page again; hidden messages are not among the returned
   ones, so they become pending again, and the request spends its 30 s on them and
   fails.  `docs/safe-gmail-rpc-schema.md:941` says that search methods omit
   blocked objects instead of surfacing errors.  It takes a hidden message in
   Gmail's listing, which the query clauses usually keep out: mail that was
   relabelled after Gmail's index last saw it, for example.  The loop of
   `search_threads` has the same test (`server.go:269`).
2. **`connection_response`** (`server.go:177`).  The write deadline (15 s) begins
   before the dispatch (30 s).  A request whose dispatch takes 15 to 30 s is carried out
   and never answered; `docs/safe-gmail-rpc-schema.md:61` promises exactly one response.
   In the run no client is slow (`Slow = {}`), so a response that is ready is read
   at once and nothing but the dispatch can use up the 15 s; with a deadline that
   began after the dispatch the run would find no violation.
   The repository's own client is not affected: it gives up after 15 s itself
   (`BrokerOutlastsItsClient`).

Remarks, where nothing in the repository says otherwise:

- A request that read the record before `auth login` replaced it and refreshes
  afterwards saves the old grant over the new one (`store.go:246`).  A login while
  no request is under way lasts: `QuietLoginStaysStored` says exactly that.
- "Remove stale socket" (`server.go:93`) removes the socket of a broker that is
  serving, if one is started by hand beside it; `OneIsReachable` says what is left.
- When Google replaces the refresh token and its answer is lost, or a save fails, or
  the daemon exits in between, the record holds a token that is not accepted any more and
  a new login is needed; `RotationDoesNotStrand` is about behaviours without these.
- A handler that waits for the keyring outlives its context and its client, and nothing
  bounds how many do.  Once it gets out it can only fail (`AbandonedWorkIsBounded`).
- `RotationDoesNotStrand` assumes that Google either replaces the refresh token at
  every refresh or never does.  If it did so now and then, two concurrent refreshes
  could be saved in the wrong order.
- A body that is cut and has an invalid byte before the cut is shortened to what
  precedes that byte (`message.go:175`); hence the condition in `BodiesAreHonest`.
- `attachment --json --output` writes no file and exits 0.


## 5. The proofs

Every theorem is about all values of the constants; the assumptions named are
those of the modules (`SearchAssumption`, `TokenAssumption`, ...), which TLC
evaluates in every run.  An invariant that is not inductive is proved as a
conjunct of one that is, called `Inv` or `IInv`, which was first checked by TLC.

**`SearchIDsProofs`** (for every list and every set of positions or of members)
- `UniqueIDsExcludingIsUnique`: the result of `uniqueIDsExcluding` has no repetitions
  and only members of the list that are not excluded.
- `UniqueIDsExcludingIsComplete`: every such member is in it.
- Lemmas on `AtPositions` and `Keep` for the proofs below: what a filter keeps, that two
  filters that agree on a list's members keep the same, that filtering twice is
  filtering once, that a list without repetitions is left alone.

All rest on `RanksAreAllTaken`: the ranks of the members of a set of positions are 1 .. n
without a gap, shown from facts on cardinalities, without an induction.

**`MessageSearchProofs`**
- `CursorIsInvariant`: `Spec => []CursorMatchesFeed`.
- `TypeCorrect`, `NoDuplicates`, `OnePolicy`, `FullPages`, `OnlyAllowed`: the safety
  invariants of `search_safety`, and that a page which names a next one is full.
- `SearchImplementsFeed`: `Spec => FeedSpec`: the search implements `SearchFeed`.

*The argument.*  That a feed has no duplicates says nothing about the cursor, so it
is not preserved by a step: a response that repeats a message looks fine until it is
received.  What is preserved is that at every moment the cursor in play lists
exactly what the client was given or is about to be given.  `CursorMatchesFeed` says
so for each place the cursor can be: the token in the client's hand (`TokenInv`),
the loop's variables (`LoopInv`: `returnedIDs` is the feed and what this request
adds, and has no repetitions), and the response under way (`ResponseInv`).
`HandlerInv` says what each stage of the handler has at hand, for instance that the
request carries the client's current token.  The query check enters in `LoopInv`: a
broker cursor is accepted only under the query it was issued for, so `feedQueries`
has at most one element.  Injectivity is preserved by `ReadMetadata` since the loop
asks once more whether a pending id was returned (`Returnable`): the pending ids of
a cursor a client hands back need not be disjoint from anything.
Type correctness is proved together with `CursorMatchesFeed` (`Inv`), since the type
of the effective query depends on a request and a policy being at hand.  There is one
lemma per conjunct of `Inv`, with one step per action.  Refinement follows from `Inv`
and `Inv'`: an `Answer` is a `Deliver`, `BeginAgain` is itself, everything else
is an `Observe` or a stutter.

*Completeness.*
- `SoundlyPagedFeedsAreComplete`: a feed that reached its end is complete while the
  mailbox is *soundly paged*: no page names itself as the next one, and pages that the
  first does not lead to list nothing (`SoundlyPaged`).  It assumes `BareTokens = {}`:
  searches begin at the first page, not at a token a caller made up.
- `EndedFeedsAreComplete`: hence `Spec => []FeedIsComplete`, where every mailbox is
  soundly paged (`SoundPaging`), as in run `search_complete`.

`ProgressInv` states of every cursor (the client's, the loop's, the
response's) that there is a set of pages that were read, which contains the first
page if the search has begun, is closed under "next" up to the current token, and
all of whose allowed messages are pending or returned.  At the end of a feed the
token is empty and nothing is pending, so the set is closed, and pages outside of it
list nothing.  `UniqueIDsExcludingIsComplete` is why a fetched page loses nothing.  No
induction over pages is needed, since the set is an existential.

*Success.*
- `HealthySearchesSucceed`: `HealthySearchSucceeds` holds while the mailbox is
  *healthy*: soundly paged, everything listed is there and shown by the policy
  (`NothingHidden`), and the context lasts for resolving the label, two passes over the
  listing and the full messages of one answer (`Ample`).  Where something is hidden it
  is false: run `search_hidden`.

A pass is given as a function of the page it starts at, which need only be at least what
its page costs and what it is at the next one (`Costs`); so no sum over pages is
formed, and no induction is needed.  `Left` says what a cursor may still cost: what is
pending, what is left of its pass, and another pass, which is dropped once the
listing was gone through (the empty token, with something returned) or everything
listed is returned (`Complete`).  `HealthInv`: every call a loop makes takes at least
one from `Left`, and no cursor that a client can hold has more than two passes left.
The step that needs care is the one finding 1 is about, listing the first page again:
`Accounted` says that everything listed is returned by then, so that the second pass
finds nothing new and stops.

**`ThreadSearchProofs`** (any threads, mailboxes, policies, limits and bounds)
- `SummariesAreOneViewHolds`, `RepliesAnswerWhatIsListed`
  (`ReplyAnswersWhatIsListed`), `ThreadSearchTypeCorrect`.
- `ThreadSearchImplementsLoop`: `Spec => LoopSpec`: the second copy of the paging loop
  implements the first.
- `ThreadFeedsKeepTheirPromises`, `ThreadFeedsAreComplete` (`ThreadFeedIsComplete`),
  `HealthyThreadSearchesSucceed`: what was proved of the first copy holds of the second.

*The argument.*  `SummaryInv` (`SummariesAreInvariant`) has the types (`Types`), what
each stage has at hand (`Stages`), and `Told`: every summary, in the loop or in the
response, tells of one member of `views`, and what the loaded policy shows now is a
member.  So a summary that `ReadThread` builds tells of the present view, however the
mailbox moved before; `KeepAgrees` is why the thread filtered message by message is the
view's part of it.  `Tells` is stronger than `Describes`: it names the newest message,
which `RepliesAnswerWhatIsListed` compares with the reply's: a later time in
milliseconds is not an earlier one in seconds.
For the refinement, `AsMailbox` turns threads into messages that carry the labels of
all their messages and, if the owner sent one, a mark; `MappedVisibility` shows that such a
message is allowed when some message of the thread is.  There is a lemma for each
action: it is the action of the same name of `Loop`.  `Loop` has one action more,
`ReadFull`, which never happens since its requests here have no bodies.  Then the
theorems of `MessageSearchProofs`, instantiated over threads, are theorems about
`ThreadSearch`; their assumptions on the constants are shown from those of
`ThreadSearch` (`Search` and `SameSearch`).  `LoopAssumption` says that `None` and the
mark are not among the values they are told apart from, which a choice of `None` among
model values grants.

**`ReadHandlersProofs`** (any messages, threads, attachments, requests and changes)
- Operators: `ReplyRecipientsAreTheAudience` (To and Cc of a reply together have no
  repetitions, never the owner, and exactly the people it is meant for),
  `RepliesToDraftsGoToTheSame`, `ReplyContextJoins`, and `BodyOfIsHonest`, which holds of
  every text, valid UTF-8 or not, and every limit.
- `AnswersAreOneViewHolds`, `OnlyVisibleContentsAreReadHolds`,
  `DraftsAnswerVisibleMailHolds` (an action property), `BodiesAreHonestHolds`,
  `RepliesReachTheirAudienceHolds`, `RepliesJoinTheConversationHolds`,
  `VisibleMailIsServedHolds`: all that run `handlers` checks; and `HandlersTypeCorrect`.

*The argument.*  There are four invariants, each relative to those before it.
`ProgressInv` (`ProgressIsInvariant`): types, what each stage knows of its request and
policy (`PhaseInv`), and that what was read is a prefix of what was found visible
(`ReadInv`).  `ViewsInv`: what was found visible is what one member of `views` shows of
the target, and the present view is a member.  A step from reading metadata to
reading contents keeps it because `views` only grows, though the mailbox moves; the
properties on views follow.  `DraftsInv`: each draft was made (`Made`) of the headers of
an older message, which never change again; with the two theorems on recipients and
context this gives the two properties on replies, replies to drafts included, since a
draft's own headers are the recipients it was given.  `ServedInv`: while nothing
changed or failed, an authorized request has all that is visible of what it names, and
answers `ok`; here the three sizes of an attachment meet (`TransportAssumption`: an
attachment of the largest size the daemon may promise fits the client's frame).

**`ConnectionProofs`** (any clients, patience, timeouts, number of calls and restarts)
- `TypeCorrect`, `RefusalsAreFinal` (`RefusedMeansNoDraft`),
  `AbandonedHandlersAreApart` (`AbandonedWorkIsBounded`), and, if no client is more
  patient than the write deadline is long, `NoneIsGivenUp`
  (`BrokerOutlastsItsClient`).

*The argument.*  `RefusedMeansNoDraft` is broken by a step only if a refusal can
still reach a call whose draft was posted: `DraftsComeLate` says at which stages of
the handler a draft can have been posted at all, and with which answers, and
`SidesAgree` which stages of handler and call go together.  `AbandonedWorkIsBounded`
compares the ages of two handlers, and holds in the next state only if no handler is
older than its call (`HandlersAreYounger`), if a prompt client's handler is as old as
its call, or at least as old as its patience when given up (`PromptAges`), and if a
client makes one call at a time (`OneAtATime`), each as long as the handler's
context lasts: one that waits for the keyring longer is past it, and `PostsInTime` (part
of `TypeOK`) says that nothing is at Gmail by then.  `GivesUpLate` is the extra conjunct
of `NoneIsGivenUp`.  Each action has a lemma that says what it
does to one call and one connection; each conjunct has a lemma that uses these.

**`TokenStoreProofs`** (any requests, logins, accounts, tokens, failures)
- `TypeCorrect`, `OwnersTokenOnly`, `NobodyIsStranded`, `QuietLoginLasts`.

*The argument.*  What a request and a login hold at each stage (`HoldsWhatItNeeds`);
every grant that is in use was given for the owner's account (`OwnersGrants`); no
refresh token is newer than Google's (`RotationsAreIssued`); while nothing failed and no
answer was lost, the newest refresh token of a grant is held by the one request that will save it or is in
the record (`NewestIsHeldOnce`); and after a quiet login no other grant is held by
anybody (`QuietLoginIsEverywhere`).

**`SocketLifecycleProofs`** (any number of runs, manual runs and failures)
- `TypeCorrect`, `ReachedUnderTheManager` (`ServingIsReachable`), `OneIsReached`
  (`OneIsReachable`), `OthersLeaveNothing` (`OnlyTheKilledLeaveSockets`).

*The argument.*  The path names a run that holds it or was killed doing so, and never
one that ended with an error (`PathIsHeld`); only a run that was told to stop closes its listener early
(`ListenersAreOpen`); the run the path names set the mode of its own socket
(`ModeIsSet`); where a broker serves and the path is gone, some run is about to bind
it or ending (`MissingIsTransient`); and the manager has one run at a time
(`OneUnderTheManager`).

**`CommandsProofs`** (any processes, paths, command lines and keyrings)
- `TypeCorrect`, `WholeFiles` (`TargetIsWhole`), `NoTempsLeft` (`TempsAreRemoved`),
  `TruthfulStatus` (`StatusIsTruthful`).

*The argument.*  What each stage of a command says of its call and the handler's
keyring (`CallOf`), of its temporary file (`TempOf`: complete before it is renamed, and
gone once the deferred remove ran) and of the status it will exit with (`StatusOf`).

### Only model-checked

- Liveness (`EveryRequestIsAnswered`, `FeedEnds`, `HandlersEnd`, `EveryCallReturns`,
  `ServiceComesBack`, `EveryCommandExits`, `EveryOpenReturns`, `LeftoversEnd`): the
  prover has no rule for `ENABLED`.
- Where a model's proof rests on what a filter or a validity check computes, the model
  states it in closed form (`AtPositions`, `ValidUTF8`).  That Go's loops compute the
  same is part of the translation, not of a proof.
- The other way round, type correctness of `TokenStore`, `SocketLifecycle`, `Commands`,
  `ReadHandlers` and `ThreadSearch` is proved, and no run repeats it.


## 6. Not modelled

- *Subject and raw text of a draft*, and the parsing of addresses: a header value is
  a list of mailboxes or malformed.
- *JSON, base64 and the framing's bytes*: a request is valid or not, a frame is
  whole or not; the size of an attachment's response is modelled.
- *Sizes of a cursor* (it grows with the feed, against a 1 MiB request frame;
  `server.go:424`) and of search and thread answers (32 MiB; `server.go:1184`): the
  feeds and mailboxes it takes are far beyond what a run can hold.
- *A pending message that was deleted* fails its whole request (`server.go:408`).  The
  model does that; nothing documented says it should not, so no property does.
- *Whom a reply-all to one's own Reply-To should reach* (`draft.go:139`): the model does
  what the code does; there is no statement to hold it against.
- *Copying of headers, normalisation of identifiers, order of labels*: pure, and
  nothing else depends on them.
- *Text of the configuration and of service files*: read or rendered once; what has
  behaviour (keyring backend, limits, restart policy) is in the modules that use it.
- *Peer credentials*: a system call; `Connection` takes its answer for correct.
- *OAuth client file*: parsed once, no state.


## 7. What could follow

1. A module of sizes: what a cursor and an answer weigh, against the two frame limits,
   with abstract lengths instead of contents.
2. The by-hand broker and `auth login` beside `Connection`: one composition of the
   daemon's whole life with the calls it serves.
