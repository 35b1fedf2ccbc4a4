----------------------------- MODULE Connection ----------------------------
(***************************************************************************)
(* One request per connection: Server.Run's accept loop and handleConn of  *)
(* internal/broker/server.go against Call of internal/rpc/client.go.       *)
(*                                                                         *)
(* A client makes one call at a time; call <<c, n>> is the n-th of client  *)
(* c and has a connection and a handler goroutine of its own, which may    *)
(* outlive it.  Time is discrete: a tick is 7.5 s, and no tick passes      *)
(* while a deadline that was reached has not been acted on, since timers   *)
(* and goroutines run within a small part of a tick.  What dispatch does   *)
(* is reduced to its effect: a draft posted to Gmail, which may commit it  *)
(* at any later moment or never.  On its way there it waits for Gmail,     *)
(* which the request's context bounds, and for the keyring, which nothing  *)
(* bounds.                                                                 *)
(***************************************************************************)
EXTENDS Integers, FiniteSets

CONSTANTS
    Clients,
    Authorized,      \* the clients that run under the configured client_uid
    Slow,            \* the clients that may dwell before they write or read
    Requests,        \* what clients send: "read", "draft", "bad"
    MaxCalls,        \* bound: calls of each client
    Patience,        \* ticks a client waits for its call; 0 waits for ever
    ReadTimeout,     \* 15 s to read the request
    WriteTimeout,    \* 15 s to write the response, from the start of dispatch
    DispatchTimeout, \* 30 s for the Gmail calls of one request
    MaxRestarts      \* bound: restarts of the daemon

\* "bad" is a request whose frame, JSON or envelope is not valid.
AllRequests == {"read", "draft", "bad"}

ASSUME ConnectionAssumption ==
    /\ Authorized \subseteq Clients /\ Slow \subseteq Clients
    /\ Requests \subseteq AllRequests
    /\ MaxCalls \in [Clients -> Nat] /\ Patience \in [Clients -> Nat]
    /\ {ReadTimeout, WriteTimeout, DispatchTimeout} \subseteq Nat \ {0}
    /\ ReadTimeout <= DispatchTimeout /\ WriteTimeout <= DispatchTimeout
    /\ MaxRestarts \in Nat

Calls == UNION {{c} \X (1 .. MaxCalls[c]) : c \in Clients}
Client(k) == k[1]

VARIABLES
    daemon,     \* "up", "stopping" (the listener is closed), "down"
    restarts,
    call,       \* the client's side of each call
    conn,       \* the handler of each call's connection
    sent,       \* calls whose whole request is in the socket's buffer
    posted,     \* calls whose draft was posted to Gmail
    created     \* calls whose draft Gmail committed

vars == <<daemon, restarts, call, conn, sent, posted, created>>

\* The answers a handler writes; "none" stands for no answer yet, or ever.
Answers == {"none", "unauthorized_peer", "invalid_request", "policy_denied",
            "gmail_api_error", "ok"}
Outcomes == Answers \cup {"dial_error", "io_error", "timeout"}

NewCall == [pc |-> "unused", request |-> "read", age |-> 0, outcome |-> "none"]
NewConn == [pc |-> "none", age |-> 0, answer |-> "none", written |-> FALSE]

Init ==
    /\ daemon = "up" /\ restarts = 0
    /\ call = [k \in Calls |-> NewCall]
    /\ conn = [k \in Calls |-> NewConn]
    /\ sent = {} /\ posted = {} /\ created = {}

-----------------------------------------------------------------------------
(***************************************************************************)
(* The client: Call.                                                       *)
(***************************************************************************)
Calling(k)  == call[k].pc \in {"writing", "waiting"}
Returned(k) == call[k].pc = "returned"

Returns(k, outcome) ==
    call' = [call EXCEPT ![k].pc = "returned", ![k].outcome = outcome, ![k].age = 0]

\* The next call of a client whose earlier calls have returned.
Dial(k, request) ==
    /\ call[k].pc = "unused"
    /\ \A j \in Calls : (Client(j) = Client(k) /\ j[2] < k[2]) => Returned(j)
    /\ IF daemon = "up"
       THEN /\ call' = [call EXCEPT ![k].pc = "writing", ![k].request = request]
            /\ conn' = [conn EXCEPT ![k].pc = "queued"]
       ELSE Returns(k, "dial_error") /\ UNCHANGED conn
    /\ UNCHANGED <<daemon, restarts, sent, posted, created>>

\* Call writes as soon as it has dialled; another program need not.
SendDue(k) == call[k].pc = "writing" /\ Client(k) \notin Slow

\* The request is written, whether or not the broker has accepted yet.
SendRequest(k) ==
    /\ call[k].pc = "writing" /\ conn[k].pc \in {"queued", "reading"}
    /\ call' = [call EXCEPT ![k].pc = "waiting"]
    /\ sent' = sent \cup {k}
    /\ UNCHANGED <<daemon, restarts, conn, posted, created>>

\* The broker closed the connection first: the write fails and an answer that
\* is in the socket's buffer is never read.
BrokenPipe(k) ==
    /\ call[k].pc = "writing" /\ conn[k].pc = "closed"
    /\ Returns(k, "io_error")
    /\ UNCHANGED <<daemon, restarts, conn, sent, posted, created>>

Receive(k) ==
    /\ call[k].pc = "waiting" /\ conn[k].pc = "closed"
    /\ Returns(k, IF conn[k].written THEN conn[k].answer ELSE "io_error")
    /\ UNCHANGED <<daemon, restarts, conn, sent, posted, created>>

CallDue(k) == Calling(k) /\ Patience[Client(k)] # 0 /\ call[k].age = Patience[Client(k)]

CallTimesOut(k) ==
    /\ CallDue(k)
    /\ Returns(k, "timeout")
    /\ UNCHANGED <<daemon, restarts, conn, sent, posted, created>>

-----------------------------------------------------------------------------
(***************************************************************************)
(* The handler: handleConn.                                                *)
(***************************************************************************)

\* The connection is closed after an answer the client can still be given.
CloseWith(k, answer) ==
    conn' = [conn EXCEPT ![k] = [pc |-> "closed", age |-> 0, answer |-> answer,
                                 written |-> ~Returned(k)]]

Closed(c) == [c EXCEPT !.pc = "closed", !.age = 0]
CloseSilently(k) == conn' = [conn EXCEPT ![k] = Closed(@)]

AcceptDue(k) == conn[k].pc = "queued" /\ daemon = "up"

\* The accept loop starts a handler, which looks at the peer before it reads.
Accept(k) ==
    /\ AcceptDue(k)
    /\ IF Client(k) \in Authorized
       THEN conn' = [conn EXCEPT ![k].pc = "reading"]
       ELSE CloseWith(k, "unauthorized_peer")
    /\ UNCHANGED <<daemon, restarts, call, sent, posted, created>>

ReadDue(k) ==
    conn[k].pc = "reading" /\ (k \in sent \/ Returned(k) \/ conn[k].age = ReadTimeout)

\* The write deadline and the request's context start with dispatch.
Dispatched(c) == [c EXCEPT !.pc = "dispatching", !.age = 0]

\* A whole request in the buffer is read, even one whose client is gone.
ReadRequest(k) ==
    /\ conn[k].pc = "reading" /\ k \in sent
    /\ IF call[k].request = "bad"
       THEN CloseWith(k, "invalid_request")
       ELSE conn' = [conn EXCEPT ![k] = Dispatched(@)]
    /\ UNCHANGED <<daemon, restarts, call, sent, posted, created>>

\* The read deadline passed, or the client closed in the middle of its request.
ReadFails(k) ==
    /\ conn[k].pc = "reading" /\ k \notin sent
    /\ ReadDue(k)
    /\ CloseWith(k, "invalid_request")
    /\ UNCHANGED <<daemon, restarts, call, sent, posted, created>>

\* Opening the runtime loads the token from the keyring, and a Gmail call that
\* refreshed the token saves it there: with no context and no timeout.
WaitForKeyring(k) ==
    /\ conn[k].pc = "dispatching" /\ conn[k].age < DispatchTimeout
    /\ conn' = [conn EXCEPT ![k].pc = "keyring"]
    /\ UNCHANGED <<daemon, restarts, call, sent, posted, created>>

\* A mutant: the request's context starts once the runtime is open.
KeyringAnswers_Renews(k) ==
    /\ conn[k].pc = "keyring"
    /\ conn' = [conn EXCEPT ![k] = Dispatched(@)]
    /\ UNCHANGED <<daemon, restarts, call, sent, posted, created>>

\* The keyring answers, or fails.  The request's context ran on meanwhile.
KeyringAnswers(k) ==
    /\ conn[k].pc = "keyring"
    /\ conn' = [conn EXCEPT ![k].pc = "dispatching"]
    /\ UNCHANGED <<daemon, restarts, call, sent, posted, created>>

\* create_draft passed its checks and posts the draft.
PostDraft(k) ==
    /\ conn[k].pc = "dispatching" /\ call[k].request = "draft"
    /\ conn[k].age < DispatchTimeout
    /\ conn' = [conn EXCEPT ![k].pc = "posting"]
    /\ posted' = posted \cup {k}
    /\ UNCHANGED <<daemon, restarts, call, sent, created>>

\* Gmail commits a posted draft: before it answers, or unheard.
Commit(k) ==
    /\ k \in posted \ created
    /\ created' = created \cup {k}
    /\ UNCHANGED <<daemon, restarts, call, conn, sent, posted>>

\* Dispatch runs, or waits for Gmail; in the keyring nothing can end it.
Active(k) == conn[k].pc \in {"dispatching", "posting"}
Dispatching(k) == Active(k) \/ conn[k].pc = "keyring"

\* A mutant: a request is refused after its draft was posted.
Refusable_Late(k) == Active(k)

\* Parameters and policy are checked before anything is created.
Refusable(k) == conn[k].pc = "dispatching"

\* Mutants: the dispatch has no deadline; it is half as long again.
DispatchDue_Never(k) == FALSE
DispatchDue_Late(k) == Active(k) /\ conn[k].age >= DispatchTimeout + ReadTimeout

\* The request's context is over.  One that waited for the keyring past its
\* deadline finds that out with its next Gmail call.
DispatchDue(k) == Active(k) /\ conn[k].age >= DispatchTimeout

Answered(c, answer) == [c EXCEPT !.pc = "responding", !.answer = answer]

\* dispatch returns.  At its deadline Gmail's failure is the answer.
FinishDispatch(k) ==
    /\ Active(k)
    /\ \E answer \in {"ok", "policy_denied", "gmail_api_error"} :
          /\ answer = "ok" => /\ call[k].request = "draft" => k \in created
                              /\ ~DispatchDue(k)
          /\ answer = "policy_denied" => Refusable(k) /\ ~DispatchDue(k)
          /\ conn' = [conn EXCEPT ![k] = Answered(@, answer)]
    /\ UNCHANGED <<daemon, restarts, call, sent, posted, created>>

\* Mutants: no write deadline; a write deadline of half the client's patience.
WriteExpired_Never(k) == FALSE
WriteExpired_Early(k) == conn[k].age >= WriteTimeout \div 2

\* The deadline set before dispatch; it runs while dispatch does.
WriteExpired(k) == conn[k].age >= WriteTimeout

WriteDue(k) == conn[k].pc = "responding" /\ (WriteExpired(k) \/ Returned(k))

\* Call reads as soon as it has written; another program need not.
ResponseDue(k) ==
    conn[k].pc = "responding" /\ ~WriteDue(k) /\ Client(k) \notin Slow

\* The response is written in full; a long one waits for a slow reader.
WriteResponse(k) ==
    /\ conn[k].pc = "responding" /\ ~WriteDue(k)
    /\ CloseWith(k, conn[k].answer)
    /\ UNCHANGED <<daemon, restarts, call, sent, posted, created>>

WriteFails(k) ==
    /\ WriteDue(k)
    /\ CloseSilently(k)
    /\ UNCHANGED <<daemon, restarts, call, sent, posted, created>>

-----------------------------------------------------------------------------
(***************************************************************************)
(* The daemon and time.                                                    *)
(***************************************************************************)

\* A signal or an accept error: the listener is closed, and with it every
\* connection still in its queue.
StopListening ==
    /\ daemon = "up" /\ daemon' = "stopping"
    /\ conn' = [k \in Calls |-> IF conn[k].pc = "queued"
                                THEN [conn[k] EXCEPT !.pc = "closed"] ELSE conn[k]]
    /\ UNCHANGED <<restarts, call, sent, posted, created>>

\* Run has returned and the process exits, whatever its handlers are doing.
Exit ==
    /\ daemon = "stopping" /\ daemon' = "down"
    /\ conn' = [k \in Calls |-> IF conn[k].pc = "none" THEN conn[k]
                                ELSE Closed(conn[k])]
    /\ UNCHANGED <<restarts, call, sent, posted, created>>

Restart ==
    /\ daemon = "down" /\ restarts < MaxRestarts
    /\ daemon' = "up" /\ restarts' = restarts + 1
    /\ UNCHANGED <<call, conn, sent, posted, created>>

Due(k) == \/ CallDue(k) \/ SendDue(k) \/ AcceptDue(k)
          \/ ReadDue(k) \/ DispatchDue(k) \/ WriteDue(k) \/ ResponseDue(k)

Timed(k) == Dispatching(k) \/ conn[k].pc \in {"reading", "responding"}
Waited(k) == Calling(k) /\ Patience[Client(k)] # 0

\* Past every deadline an age is not counted on.
Older(age) == IF age < ReadTimeout + DispatchTimeout THEN age + 1 ELSE age

Tick ==
    /\ \A k \in Calls : ~Due(k)
    /\ \E k \in Calls : Timed(k) \/ Waited(k)
    /\ conn' = [k \in Calls |-> IF Timed(k) THEN [conn[k] EXCEPT !.age = Older(@)] ELSE conn[k]]
    /\ call' = [k \in Calls |-> IF Waited(k) THEN [call[k] EXCEPT !.age = @ + 1] ELSE call[k]]
    /\ UNCHANGED <<daemon, restarts, sent, posted, created>>

Next ==
    \/ \E k \in Calls :
          \/ \E request \in Requests : Dial(k, request)
          \/ SendRequest(k) \/ BrokenPipe(k) \/ Receive(k) \/ CallTimesOut(k)
          \/ Accept(k) \/ ReadRequest(k) \/ ReadFails(k)
          \/ WaitForKeyring(k) \/ KeyringAnswers(k)
          \/ PostDraft(k) \/ Commit(k) \/ FinishDispatch(k)
          \/ WriteResponse(k) \/ WriteFails(k)
    \/ StopListening \/ Exit \/ Restart \/ Tick

Spec == Init /\ [][Next]_vars

\* What a handler does when it is due, and a client that is still running:
\* nothing is assumed of Gmail, of the keyring, or of a slow client's writing and
\* reading.
FairSpec ==
    /\ Spec
    /\ WF_vars(Tick) /\ WF_vars(Exit)
    /\ \A k \in Calls :
          /\ WF_vars(Accept(k)) /\ WF_vars(ReadRequest(k)) /\ WF_vars(ReadFails(k))
          /\ WF_vars(DispatchDue(k) /\ FinishDispatch(k)) /\ WF_vars(WriteFails(k))
          /\ WF_vars(SendDue(k) /\ SendRequest(k))
          /\ WF_vars(ResponseDue(k) /\ WriteResponse(k))
          /\ WF_vars(Receive(k)) /\ WF_vars(BrokenPipe(k)) /\ WF_vars(CallTimesOut(k))

-----------------------------------------------------------------------------

\* A handler that posted a draft has its answer, or is through, by its deadline.
PostsInTime == \A k \in Calls : conn[k].pc = "posting" => conn[k].age <= DispatchTimeout

\* The variables have the types their comments say; no client waits longer than
\* its patience, and no handler for a draft it posted longer than its context
\* lasts.
TypeOK ==
    /\ daemon \in {"up", "stopping", "down"} /\ restarts \in 0 .. MaxRestarts
    /\ call \in [Calls -> [pc : {"unused", "writing", "waiting", "returned"},
                           request : AllRequests, age : Nat, outcome : Outcomes]]
    /\ \A k \in Calls : call[k].age <= Patience[Client(k)]
    /\ conn \in [Calls -> [pc : {"none", "queued", "reading", "dispatching", "keyring",
                                 "posting", "responding", "closed"},
                           age : 0 .. ReadTimeout + DispatchTimeout,
                           answer : Answers, written : BOOLEAN]]
    /\ PostsInTime
    /\ sent \subseteq Calls /\ posted \subseteq sent /\ created \subseteq posted

\* A call that was refused, or that never reached the broker, left no draft
\* behind and may be repeated; only an answer or a Gmail error, a timeout or a
\* broken connection says that there may be one.  A peer that is not the
\* configured user never has an effect (handleConn's order of checks and
\* handleCreateDraft's).
RefusedMeansNoDraft ==
    \A k \in Calls :
        (Client(k) \notin Authorized
            \/ call[k].outcome \in {"dial_error", "unauthorized_peer",
                                    "invalid_request", "policy_denied"})
        => k \notin posted

\* The handlers a client has left behind and that can still reach Gmail, and post
\* a draft, are few: one that writes at once and retries each time its own 15 s
\* are over finds the request it abandoned that much older than its next one, be
\* it in the keyring meanwhile.  So at most DispatchTimeout / Patience + 1 of them
\* have time left, however often it retries.  (Nothing bounds those that wait for
\* the keyring past their deadline: they pile up, but can only fail.)
AbandonedWorkIsBounded ==
    \A j, k \in Calls :
        LET c == Client(k)
        IN  (/\ Client(j) = c /\ j[2] < k[2] /\ Patience[c] # 0 /\ c \notin Slow
             /\ Dispatching(j) /\ Dispatching(k) /\ conn[j].age <= DispatchTimeout)
            => conn[j].age >= conn[k].age + Patience[c]

\* No exit of the daemon is to blame.
NeverStopped == daemon = "up" /\ restarts = 0

\* The broker's handler of k was through with a valid request and left its
\* client, which is still waiting, without an answer.
LeftUnanswered(k) ==
    /\ conn[k].pc = "closed" /\ ~conn[k].written
    /\ call[k].pc = "waiting"
    /\ NeverStopped

\* The broker's deadlines and the client's agree: it never gives up on one of
\* its own clients that has time left, wherever the 15 s of the two sides begin.
BrokerOutlastsItsClient ==
    \A k \in Calls :
        (LeftUnanswered(k) /\ Patience[Client(k)] # 0) => CallDue(k)

\* The handler waits for a keyring that never answers: the one wait of a request
\* that has no deadline.
LeftToKeyring(k) == [](conn[k].pc = "keyring")

\* Every connection that was accepted is closed in the end, whatever its client
\* and Gmail do: no handler goroutine is leaked by a peer that neither writes
\* nor reads, or by a Gmail call that hangs.  Only the keyring can leak one.
HandlersEnd ==
    \A k \in Calls :
        (Timed(k) \/ AcceptDue(k)) ~> (conn[k].pc = "closed" \/ LeftToKeyring(k))

\* Call returns: an answer, an error or its deadline, with the daemon stopping
\* and restarting at any moment, and the keyring stuck or not.  Only a call
\* without a deadline can be left to the keyring with its handler.
EveryCallReturns ==
    \A k \in Calls :
        (call[k].pc = "waiting")
            ~> (Returned(k) \/ (Patience[Client(k)] = 0 /\ LeftToKeyring(k)))

\* "Server returns exactly one response per request": one that waits for it, and
\* reads it as soon as it comes, is not left without.
ExactlyOneResponse == \A k \in Calls : ~LeftUnanswered(k)

=============================================================================
