-------------------------- MODULE ConnectionProofs --------------------------
(***************************************************************************)
(* Proofs about Connection, for any number of clients and calls, any       *)
(* patience and deadlines, and any number of restarts.                     *)
(***************************************************************************)
EXTENDS Connection, TLAPS

Refusals == {"unauthorized_peer", "invalid_request", "policy_denied"}

\* How far the client and the handler of a call can be from one another.
SidesAgree ==
    \A k \in Calls :
        /\ call[k].pc = "unused" => conn[k].pc = "none"
        /\ call[k].outcome = "dial_error" => conn[k].pc = "none" /\ Returned(k)
        /\ conn[k].pc \in {"none", "queued"} => conn[k].age = 0
        /\ conn[k].pc = "queued" => daemon = "up"
        /\ conn[k].pc = "reading" => conn[k].age <= ReadTimeout
        /\ Dispatching(k) => k \in sent
        /\ k \in sent => call[k].pc \in {"waiting", "returned"}
        /\ call[k].pc = "waiting" => k \in sent

\* A draft is posted late, and a refusal decided early.
DraftsComeLate ==
    \A k \in Calls :
        /\ Client(k) \notin Authorized => conn[k].pc \in {"none", "queued", "closed"}
        /\ (Client(k) \notin Authorized
               \/ conn[k].pc \in {"none", "queued", "reading", "dispatching", "keyring"})
              => k \notin posted
        /\ conn[k].answer \in Refusals => conn[k].pc \in {"responding", "closed"} /\ k \notin posted
        /\ call[k].outcome \in Refusals => conn[k].pc = "closed" /\ k \notin posted

\* The handler is not older than the call it serves.
HandlersAreYounger ==
    \A k \in Calls :
        (Timed(k) /\ Calling(k) /\ Patience[Client(k)] # 0) => conn[k].age <= call[k].age

\* A client that writes at once is served at once: while the request's context
\* lasts, the ages of the two sides are equal, and a handler it gave up is at least
\* as old as its patience.
Prompt(c) == Patience[c] # 0 /\ c \notin Slow
PromptAges ==
    \A k \in Calls :
        Prompt(Client(k)) =>
            /\ call[k].pc \in {"unused", "writing"} => call[k].age = 0
            /\ (k \in sent /\ conn[k].pc \in {"queued", "reading"})
                  => call[k].pc = "waiting" /\ call[k].age = 0
            /\ (Dispatching(k) /\ call[k].pc = "waiting") =>
                  conn[k].age = call[k].age \/ conn[k].age > DispatchTimeout
            /\ (Dispatching(k) /\ Returned(k)) =>
                  conn[k].age >= Patience[Client(k)] \/ conn[k].age > DispatchTimeout

\* A client makes one call at a time.
OneAtATime ==
    \A j, k \in Calls :
        (Client(j) = Client(k) /\ j[2] < k[2] /\ call[k].pc # "unused") => Returned(j)

\* The time of a client that is left without an answer is up.
GivesUpLate ==
    \A k \in Calls :
        (LeftUnanswered(k) /\ Patience[Client(k)] # 0) => call[k].age = Patience[Client(k)]

\* No client is more patient than the broker.
PatienceIsShort == \A c \in Clients : Patience[c] <= WriteTimeout

IInv ==
    /\ TypeOK /\ SidesAgree /\ DraftsComeLate /\ HandlersAreYounger
    /\ PromptAges /\ OneAtATime /\ AbandonedWorkIsBounded

-----------------------------------------------------------------------------
\* What the assumption on the constants says of each.
LEMMA ConstantTypes ==
    /\ Patience \in [Clients -> Nat]
    /\ \A k \in Calls : Client(k) \in Clients /\ Patience[Client(k)] \in Nat
    /\ MaxRestarts \in Nat /\ ReadTimeout \in Nat \ {0} /\ WriteTimeout \in Nat \ {0}
    /\ DispatchTimeout \in Nat \ {0}
    /\ ReadTimeout <= DispatchTimeout /\ WriteTimeout <= DispatchTimeout
    /\ Requests \subseteq AllRequests
BY ConnectionAssumption DEF Calls, Client

\* The initial state.
LEMMA InitIInv == Init => IInv
<1> SUFFICES ASSUME Init PROVE IInv
  OBVIOUS
<1> USE ConstantTypes DEF Init, NewCall, NewConn, Calling, Returned, Active, Dispatching, Timed
<1>1. TypeOK
  BY DEF TypeOK, PostsInTime, AllRequests, Answers, Outcomes
<1>2. SidesAgree /\ DraftsComeLate
  BY DEF SidesAgree, DraftsComeLate, Refusals
<1>3. HandlersAreYounger /\ PromptAges /\ OneAtATime /\ AbandonedWorkIsBounded
  BY DEF HandlersAreYounger, PromptAges, OneAtATime, AbandonedWorkIsBounded
<1> QED
  BY <1>1, <1>2, <1>3 DEF IInv

\* The types of a call and of a handler, as TypeOK has them.
CallSet == [pc : {"unused", "writing", "waiting", "returned"},
            request : AllRequests, age : Nat, outcome : Outcomes]
Stages == {"none", "queued", "reading", "dispatching", "keyring", "posting", "responding",
           "closed"}
Ages == 0 .. ReadTimeout + DispatchTimeout
ConnSet == [pc : Stages, age : Ages, answer : Answers, written : BOOLEAN]

\* The values that are assigned together.
LEMMA Values ==
    /\ {"closed", "dispatching", "responding"} \subseteq Stages /\ 0 \in Ages
    /\ "none" \in Answers /\ Refusals \subseteq Answers
    /\ {"ok", "gmail_api_error"} \subseteq Answers
BY ConstantTypes DEF Stages, Ages, Answers, Refusals

\* Two fields of a handler's state at once.
LEMMA ConnUpdate ==
    ASSUME NEW c \in ConnSet, NEW p \in Stages, NEW a \in Ages,
           NEW n \in Answers
    PROVE  /\ [c EXCEPT !.pc = p, !.age = a] \in ConnSet
           /\ [c EXCEPT !.pc = p, !.answer = n] \in ConnSet
<1>1. PICK q \in Stages, b \in Ages, m \in Answers, w \in BOOLEAN :
         c = [pc |-> q, age |-> b, answer |-> m, written |-> w]
  BY Zenon DEF ConnSet
<1>2. /\ [[pc |-> q, age |-> b, answer |-> m, written |-> w]
             EXCEPT !.pc = p, !.age = a] \in ConnSet
      /\ [[pc |-> q, age |-> b, answer |-> m, written |-> w]
             EXCEPT !.pc = p, !.answer = n] \in ConnSet
  BY DEF ConnSet
<1> QED
  BY <1>1, <1>2, Zenon

\* What a return of a call changes.
LEMMA ReturnsDoes ==
    ASSUME TypeOK, NEW k \in Calls, NEW outcome \in Outcomes, Returns(k, outcome)
    PROVE  /\ call' \in [Calls -> CallSet]
           /\ \A j \in Calls : call'[j].age <= Patience[Client(j)]
           /\ call'[k].pc = "returned" /\ call'[k].outcome = outcome
           /\ \A j \in Calls \ {k} : call'[j] = call[j]
<1> DEFINE c == [call[k] EXCEPT !.pc = "returned", !.outcome = outcome, !.age = 0]
<1>1. call' = [call EXCEPT ![k] = c]
  BY DEF Returns
<1>2. call \in [Calls -> CallSet] /\ \A j \in Calls : call[j].age <= Patience[Client(j)]
  BY DEF TypeOK, CallSet
<1>3. call[k] \in CallSet
  BY <1>2
<1>4. c.pc = "returned" /\ c.outcome = outcome /\ c.age = 0 /\ c \in CallSet
  BY <1>3 DEF CallSet
<1> HIDE DEF c
<1>5. /\ call'[k] = c /\ call' \in [Calls -> CallSet]
      /\ \A j \in Calls \ {k} : call'[j] = call[j]
  BY <1>1, <1>2, <1>4
<1> QED
  BY <1>2, <1>4, <1>5, ConstantTypes

\* What closing a connection with an answer changes.
LEMMA CloseWithDoes ==
    ASSUME TypeOK, NEW k \in Calls, NEW answer \in Answers, CloseWith(k, answer)
    PROVE  /\ conn' \in [Calls -> ConnSet]
           /\ conn'[k].pc = "closed" /\ conn'[k].age = 0 /\ conn'[k].answer = answer
           /\ conn'[k].written = ~Returned(k)
           /\ \A j \in Calls \ {k} : conn'[j] = conn[j]
<1> DEFINE closed == [pc |-> "closed", age |-> 0, answer |-> answer, written |-> ~Returned(k)]
<1>1. conn' = [conn EXCEPT ![k] = closed] /\ conn \in [Calls -> ConnSet]
  BY DEF CloseWith, TypeOK, ConnSet, Ages, Stages
<1>2. (~Returned(k)) \in BOOLEAN
  OBVIOUS
<1>3. closed \in ConnSet
  BY <1>2, Values DEF ConnSet
<1> HIDE DEF closed
<1>4. /\ conn' \in [Calls -> ConnSet] /\ conn'[k] = closed
      /\ \A j \in Calls \ {k} : conn'[j] = conn[j]
  BY <1>1, <1>3
<1> QED
  BY <1>4 DEF closed

\* What becomes of a handler when it dispatches, has its answer or ends.
LEMMA ConnAssigned ==
    ASSUME NEW c \in ConnSet, NEW n \in Answers
    PROVE  /\ Closed(c) \in ConnSet /\ Closed(c).pc = "closed" /\ Closed(c).age = 0
           /\ Closed(c).answer = c.answer /\ Closed(c).written = c.written
           /\ Dispatched(c) \in ConnSet /\ Dispatched(c).pc = "dispatching"
           /\ Dispatched(c).age = 0 /\ Dispatched(c).answer = c.answer
           /\ Answered(c, n) \in ConnSet /\ Answered(c, n).pc = "responding"
           /\ Answered(c, n).age = c.age /\ Answered(c, n).answer = n
<1>1. /\ "closed" \in Stages /\ "dispatching" \in Stages /\ "responding" \in Stages
      /\ 0 \in Ages
  BY Values
<1>2. /\ [c EXCEPT !.pc = "closed", !.age = 0] \in ConnSet
      /\ [c EXCEPT !.pc = "dispatching", !.age = 0] \in ConnSet
      /\ [c EXCEPT !.pc = "responding", !.answer = n] \in ConnSet
  BY <1>1, ConnUpdate, Zenon
<1>3. Closed(c) \in ConnSet /\ Dispatched(c) \in ConnSet /\ Answered(c, n) \in ConnSet
  BY <1>2 DEF Closed, Dispatched, Answered
<1> QED
  BY <1>3 DEF ConnSet, Closed, Dispatched, Answered

\* What closing it without one changes.
LEMMA CloseSilentlyDoes ==
    ASSUME TypeOK, NEW k \in Calls, CloseSilently(k)
    PROVE  /\ conn' \in [Calls -> ConnSet]
           /\ conn'[k].pc = "closed" /\ conn'[k].age = 0
           /\ conn'[k].answer = conn[k].answer /\ conn'[k].written = conn[k].written
           /\ \A j \in Calls \ {k} : conn'[j] = conn[j]
<1>1. conn \in [Calls -> ConnSet] /\ conn[k] \in ConnSet /\ "none" \in Answers
  BY DEF TypeOK, ConnSet, Ages, Stages, Answers
<1>2. conn' = [conn EXCEPT ![k] = Closed(conn[k])]
  BY DEF CloseSilently
<1> QED
  BY <1>1, <1>2, ConnAssigned

\* A handler alone goes on, or one call alone, to a state of its type.
ConnBecomes(k, c) ==
    /\ c \in ConnSet /\ conn'[k] = c /\ \A j \in Calls \ {k} : conn'[j] = conn[j]
    /\ conn' \in [Calls -> ConnSet]

\* The types, as function sets.
LEMMA ConnTypes == TypeOK => conn \in [Calls -> ConnSet] /\ call \in [Calls -> CallSet]
BY DEF TypeOK, ConnSet, CallSet, Ages, Stages

\* One handler goes on to a state of its type.
LEMMA ConnAt ==
    ASSUME TypeOK, NEW k \in Calls, NEW c \in ConnSet, conn' = [conn EXCEPT ![k] = c]
    PROVE  ConnBecomes(k, c)
BY ConnTypes DEF ConnBecomes

\* A dialled call waits in the queue of a daemon that is up, or has failed.
Dialled(k) ==
    /\ call' \in [Calls -> CallSet] /\ \A j \in Calls \ {k} : call'[j] = call[j]
    /\ conn' \in [Calls -> ConnSet] /\ \A j \in Calls \ {k} : conn'[j] = conn[j]
    /\ call[k].pc = "unused" /\ call'[k].age <= Patience[Client(k)]
    /\ \A j \in Calls : (Client(j) = Client(k) /\ j[2] < k[2]) => Returned(j)
    /\ conn'[k].age = conn[k].age /\ conn'[k].answer = conn[k].answer
    /\ \/ /\ daemon = "up" /\ call'[k].pc = "writing" /\ call'[k].age = call[k].age
          /\ call'[k].outcome = call[k].outcome /\ conn'[k].pc = "queued"
       \/ /\ call'[k].pc = "returned" /\ call'[k].outcome = "dial_error"
          /\ conn'[k] = conn[k]
    /\ UNCHANGED <<daemon, restarts, sent, posted, created>>

\* What dialling changes.
LEMMA DialDoes ==
    \A k \in Calls : \A request \in Requests : TypeOK /\ Dial(k, request) => Dialled(k)
<1> SUFFICES ASSUME NEW k \in Calls, NEW request \in Requests, TypeOK, Dial(k, request)
             PROVE  Dialled(k)
  OBVIOUS
<1>1. /\ conn \in [Calls -> ConnSet] /\ conn[k] \in ConnSet
      /\ call \in [Calls -> CallSet] /\ call[k] \in CallSet
      /\ call[k].age <= Patience[Client(k)] /\ request \in AllRequests
  BY ConnTypes, ConstantTypes DEF TypeOK
<1>2. CASE daemon = "up"
  <2> DEFINE dialled == [call[k] EXCEPT !.pc = "writing", !.request = request]
             queued == [conn[k] EXCEPT !.pc = "queued"]
  <2>1. call' = [call EXCEPT ![k] = dialled] /\ conn' = [conn EXCEPT ![k] = queued]
    BY <1>2 DEF Dial
  <2>2. PICK p \in {"unused", "writing", "waiting", "returned"}, r \in AllRequests,
              a \in Nat, o \in Outcomes :
           call[k] = [pc |-> p, request |-> r, age |-> a, outcome |-> o]
    BY <1>1, Zenon DEF CallSet
  <2>3. /\ dialled \in CallSet /\ dialled.pc = "writing"
        /\ dialled.age = call[k].age /\ dialled.outcome = call[k].outcome
    BY <1>1, <2>2 DEF CallSet
  <2>4. /\ queued \in ConnSet /\ queued.pc = "queued" /\ queued.age = conn[k].age
        /\ queued.answer = conn[k].answer
    BY <1>1 DEF ConnSet, Stages
  <2> HIDE DEF dialled, queued
  <2> QED
    BY <1>1, <1>2, <2>1, <2>3, <2>4 DEF Dialled, Dial
<1>3. CASE daemon # "up"
  <2>1. Returns(k, "dial_error") /\ conn' = conn /\ "dial_error" \in Outcomes
    BY <1>3 DEF Dial, Outcomes
  <2> QED
    BY <1>1, <2>1, ReturnsDoes DEF Dialled, Dial
<1> QED
  BY <1>2, <1>3

\* One handler alone goes on, the clients and the daemon do not.
OneHandler(k) ==
    /\ conn' \in [Calls -> ConnSet] /\ \A j \in Calls \ {k} : conn'[j] = conn[j]
    /\ UNCHANGED <<daemon, restarts, call, sent, posted, created>>

\* The effects of the actions that change several fields of a record.
RequestRead(k) ==
    /\ OneHandler(k) /\ conn[k].pc = "reading" /\ k \in sent /\ conn'[k].age = 0
    /\ \/ /\ conn'[k].pc = "closed" /\ conn'[k].answer = "invalid_request"
          /\ conn'[k].written \/ Returned(k)
       \/ conn'[k].pc = "dispatching" /\ conn'[k].answer = conn[k].answer

\* What reading a request changes.
LEMMA ReadRequestDoes == \A k \in Calls : TypeOK /\ ReadRequest(k) => RequestRead(k)
<1> SUFFICES ASSUME NEW k \in Calls, TypeOK, ReadRequest(k) PROVE RequestRead(k)
  OBVIOUS
<1>1. conn[k] \in ConnSet /\ "invalid_request" \in Answers
  BY ConnTypes DEF Answers
<1>2. CASE call[k].request = "bad"
  <2>1. CloseWith(k, "invalid_request")
    BY <1>2 DEF ReadRequest
  <2> QED
    BY <1>1, <2>1, CloseWithDoes DEF RequestRead, OneHandler, ReadRequest
<1>3. CASE call[k].request # "bad"
  <2>1. conn' = [conn EXCEPT ![k] = Dispatched(conn[k])]
    BY <1>3 DEF ReadRequest
  <2>2. ConnBecomes(k, Dispatched(conn[k]))
    BY <1>1, <2>1, ConnAssigned, ConnAt
  <2> QED
    BY <1>1, <2>2, ConnAssigned DEF RequestRead, OneHandler, ReadRequest, ConnBecomes
<1> QED
  BY <1>2, <1>3

DispatchEnded(k) ==
    /\ OneHandler(k) /\ Dispatching(k)
    /\ conn'[k].pc = "responding" /\ conn'[k].age = conn[k].age
    /\ conn'[k].answer \in Refusals => conn[k].pc = "dispatching"

\* What the end of dispatch changes.
LEMMA FinishDispatchDoes ==
    \A k \in Calls : TypeOK /\ FinishDispatch(k) => DispatchEnded(k)
<1> SUFFICES ASSUME NEW k \in Calls, TypeOK, FinishDispatch(k) PROVE DispatchEnded(k)
  OBVIOUS
<1>1. PICK answer \in {"ok", "policy_denied", "gmail_api_error"} :
         /\ conn' = [conn EXCEPT ![k] = Answered(conn[k], answer)]
         /\ answer = "policy_denied" => Refusable(k)
  BY DEF FinishDispatch
<1>2. conn[k] \in ConnSet /\ answer \in Answers
  BY ConnTypes DEF Answers
<1>3. ConnBecomes(k, Answered(conn[k], answer))
  BY <1>1, <1>2, ConnAssigned, ConnAt
<1>4. /\ conn'[k].pc = "responding" /\ conn'[k].age = conn[k].age
      /\ conn'[k].answer = answer
  BY <1>2, <1>3, ConnAssigned DEF ConnBecomes
<1> QED
  BY <1>1, <1>3, <1>4
     DEF DispatchEnded, Dispatching, OneHandler, FinishDispatch, ConnBecomes, Refusals, Refusable

Dropped(k) ==
    /\ OneHandler(k) /\ conn[k].pc = "responding" /\ (WriteExpired(k) \/ Returned(k))
    /\ conn'[k].pc = "closed" /\ conn'[k].age = 0 /\ conn'[k].answer = conn[k].answer

\* What a write that fails changes.
LEMMA WriteFailsDoes == \A k \in Calls : TypeOK /\ WriteFails(k) => Dropped(k)
BY CloseSilentlyDoes DEF WriteFails, WriteDue, Dropped, OneHandler

Ended ==
    /\ conn' \in [Calls -> ConnSet] /\ daemon = "stopping" /\ daemon' = "down"
    /\ UNCHANGED <<restarts, call, sent, posted, created>>
    /\ \A k \in Calls :
          \/ conn[k].pc = "none" /\ conn'[k] = conn[k]
          \/ /\ conn'[k].pc = "closed" /\ conn'[k].age = 0
             /\ conn'[k].answer = conn[k].answer /\ conn[k].pc # "none"

\* What the end of the process changes.
LEMMA ExitDoes == TypeOK /\ Exit => Ended
<1> SUFFICES ASSUME TypeOK, Exit PROVE Ended
  OBVIOUS
<1>1. ASSUME NEW k \in Calls
      PROVE  /\ conn'[k] \in ConnSet
             /\ \/ conn[k].pc = "none" /\ conn'[k] = conn[k]
                \/ /\ conn'[k].pc = "closed" /\ conn'[k].age = 0
                   /\ conn'[k].answer = conn[k].answer /\ conn[k].pc # "none"
  <2>1. conn[k] \in ConnSet
    BY ConnTypes
  <2>2. CASE conn[k].pc = "none"
    BY <2>1, <2>2 DEF Exit
  <2>3. CASE conn[k].pc # "none"
    <3>1. conn'[k] = Closed(conn[k]) /\ "none" \in Answers
      BY <2>3 DEF Exit, Answers
    <3> QED
      BY <2>1, <2>3, <3>1, ConnAssigned
  <2> QED
    BY <2>2, <2>3
<1>2. conn' = [k \in Calls |-> conn'[k]]
  BY DEF Exit
<1> QED
  BY <1>1, <1>2 DEF Ended, Exit

\* A tick ages handlers and calls by one, none of which has anything due.
LEMMA TickDoes ==
    ASSUME TypeOK, SidesAgree, Tick
    PROVE  /\ conn' \in [Calls -> ConnSet] /\ call' \in [Calls -> CallSet]
           /\ \A k \in Calls :
                 /\ conn'[k].pc = conn[k].pc /\ conn'[k].answer = conn[k].answer
                 /\ conn'[k].written = conn[k].written
                 /\ conn'[k].age = IF Timed(k) THEN Older(conn[k].age) ELSE conn[k].age
                 /\ conn[k].pc = "reading" => conn'[k].age <= ReadTimeout
                 /\ conn[k].pc = "posting" => conn[k].age < DispatchTimeout
                 /\ call'[k].pc = call[k].pc /\ call'[k].outcome = call[k].outcome
                 /\ call'[k].age = IF Waited(k) THEN call[k].age + 1 ELSE call[k].age
                 /\ call'[k].age <= Patience[Client(k)]
<1> USE ConstantTypes
<1>1. ASSUME NEW k \in Calls
      PROVE  /\ conn'[k] \in ConnSet
             /\ conn'[k].pc = conn[k].pc /\ conn'[k].answer = conn[k].answer
             /\ conn'[k].written = conn[k].written
             /\ conn'[k].age = IF Timed(k) THEN Older(conn[k].age) ELSE conn[k].age
             /\ conn[k].pc = "reading" => conn'[k].age <= ReadTimeout
             /\ conn[k].pc = "posting" => conn[k].age < DispatchTimeout
  <2>1. conn[k] \in ConnSet /\ conn[k].age \in Ages
    BY ConnTypes DEF ConnSet
  <2>2. CASE Timed(k)
    <3>1. ~ReadDue(k) /\ ~DispatchDue(k)
      BY DEF Tick, Due
    <3>2. conn[k].pc = "posting" => conn[k].age < DispatchTimeout
      BY <2>1, <3>1 DEF DispatchDue, Active, Ages
    <3>3. conn[k].pc = "reading" => conn[k].age < ReadTimeout
      BY <2>1, <3>1 DEF ReadDue, SidesAgree, Ages
    <3>4. /\ Older(conn[k].age) \in Ages
          /\ conn[k].age < ReadTimeout => Older(conn[k].age) <= ReadTimeout
      BY <2>1 DEF Older, Ages
    <3>5. conn'[k] = [conn[k] EXCEPT !.age = Older(conn[k].age)]
      BY <2>2 DEF Tick
    <3> HIDE DEF Ages
    <3> QED
      BY <2>1, <2>2, <3>2, <3>3, <3>4, <3>5 DEF ConnSet
  <2>3. CASE ~Timed(k)
    BY <2>1, <2>3 DEF Tick, Timed, Dispatching, Active
  <2> QED
    BY <2>2, <2>3
<1>2. ASSUME NEW k \in Calls
      PROVE  /\ call'[k] \in CallSet
             /\ call'[k].pc = call[k].pc /\ call'[k].outcome = call[k].outcome
             /\ call'[k].age = IF Waited(k) THEN call[k].age + 1 ELSE call[k].age
             /\ call'[k].age <= Patience[Client(k)]
  <2>1. call[k] \in CallSet /\ call[k].age \in Nat /\ call[k].age <= Patience[Client(k)]
    BY ConnTypes DEF CallSet, TypeOK
  <2>2. CASE Waited(k)
    <3>1. call[k].age # Patience[Client(k)]
      BY <2>2 DEF Tick, Due, CallDue, Waited
    <3>2. call'[k] = [call[k] EXCEPT !.age = call[k].age + 1]
      BY <2>2 DEF Tick
    <3> QED
      BY <2>1, <2>2, <3>1, <3>2 DEF CallSet
  <2>3. CASE ~Waited(k)
    BY <2>1, <2>3 DEF Tick
  <2> QED
    BY <2>2, <2>3
<1>3. conn' = [k \in Calls |-> conn'[k]] /\ call' = [k \in Calls |-> call'[k]]
  BY DEF Tick
<1> QED
  BY <1>1, <1>2, <1>3

\* What was posted is posted in time.
LEMMA InTimeStep == IInv /\ [Next]_vars => PostsInTime'
<1> SUFFICES ASSUME IInv, [Next]_vars PROVE PostsInTime'
  OBVIOUS
<1> USE ConstantTypes
    DEF IInv, TypeOK, AllRequests, Answers, Outcomes, Calling, Returned, Active, Dispatching, Timed, PostsInTime
<1>1. ASSUME NEW k \in Calls, NEW request \in Requests, Dial(k, request) PROVE PostsInTime'
  <2>1. Dialled(k)
    BY <1>1, DialDoes DEF IInv
  <2> QED
    BY <2>1 DEF Dialled
<1>2. ASSUME NEW k \in Calls, SendRequest(k) PROVE PostsInTime'
  BY <1>2 DEF SendRequest
<1>3. ASSUME NEW k \in Calls, BrokenPipe(k) PROVE PostsInTime'
  BY <1>3 DEF BrokenPipe, Returns
<1>4. ASSUME NEW k \in Calls, Receive(k) PROVE PostsInTime'
  BY <1>4 DEF Receive, Returns
<1>5. ASSUME NEW k \in Calls, CallTimesOut(k) PROVE PostsInTime'
  BY <1>5 DEF CallTimesOut, CallDue, Returns
<1>6. ASSUME NEW k \in Calls, Accept(k) PROVE PostsInTime'
  <2>1. CASE Client(k) \in Authorized
    BY <1>6, <2>1 DEF Accept, AcceptDue
  <2>2. CASE Client(k) \notin Authorized
    BY <1>6, <2>2, CloseWithDoes DEF Accept, AcceptDue
  <2> QED
    BY <2>1, <2>2
<1>7. ASSUME NEW k \in Calls, ReadRequest(k) PROVE PostsInTime'
  <2>1. RequestRead(k)
    BY <1>7, ReadRequestDoes DEF IInv
  <2> QED
    BY <2>1 DEF RequestRead, OneHandler
<1>8. ASSUME NEW k \in Calls, ReadFails(k) PROVE PostsInTime'
  BY <1>8 DEF ReadFails, CloseWith
<1>9. ASSUME NEW k \in Calls, PostDraft(k) PROVE PostsInTime'
  BY <1>9 DEF PostDraft, SidesAgree
<1>10. ASSUME NEW k \in Calls, Commit(k) PROVE PostsInTime'
  BY <1>10 DEF Commit
<1>11. ASSUME NEW k \in Calls, FinishDispatch(k) PROVE PostsInTime'
  <2>1. DispatchEnded(k)
    BY <1>11, FinishDispatchDoes DEF IInv
  <2> QED
    BY <2>1 DEF DispatchEnded, OneHandler
<1>12. ASSUME NEW k \in Calls, WriteResponse(k) PROVE PostsInTime'
  BY <1>12 DEF WriteResponse, CloseWith
<1>13. ASSUME NEW k \in Calls, WriteFails(k) PROVE PostsInTime'
  <2>1. Dropped(k)
    BY <1>13, WriteFailsDoes DEF IInv
  <2> QED
    BY <2>1 DEF Dropped, OneHandler
<1>14. CASE StopListening
  BY <1>14 DEF StopListening
<1>15. CASE Exit
  <2>1. Ended
    BY <1>15, ExitDoes DEF IInv
  <2> QED
    BY <2>1 DEF Ended
<1>16. CASE Restart
  BY <1>16 DEF Restart
<1>17. CASE Tick
  BY <1>17, TickDoes DEF Older, Ages
<1>18. CASE UNCHANGED vars
  BY <1>18 DEF vars
<1>19. ASSUME NEW k \in Calls, WaitForKeyring(k) PROVE PostsInTime'
  BY <1>19 DEF WaitForKeyring
<1>20. ASSUME NEW k \in Calls, KeyringAnswers(k) PROVE PostsInTime'
  BY <1>20 DEF KeyringAnswers
<1> QED
  BY <1>1, <1>2, <1>3, <1>4, <1>5, <1>6, <1>7, <1>8, <1>9, <1>10, <1>11, <1>12, <1>13,
     <1>14, <1>15, <1>16, <1>17, <1>18, <1>19, <1>20 DEF Next

\* Types and ages.
LEMMA TypeStep == IInv /\ [Next]_vars => TypeOK'
<1> SUFFICES ASSUME IInv, [Next]_vars PROVE TypeOK'
  OBVIOUS
<1> USE ConstantTypes
    DEF IInv, TypeOK, AllRequests, Answers, Outcomes, Calling, Returned, Active, Dispatching, Timed, SidesAgree,
        CallSet, ConnSet, Ages, Stages
<1>0. PostsInTime'
  BY InTimeStep
<1> USE <1>0
<1>1. ASSUME NEW k \in Calls, NEW request \in Requests, Dial(k, request) PROVE TypeOK'
  <2>1. Dialled(k)
    BY <1>1, DialDoes DEF IInv
  <2> QED
    BY <2>1 DEF Dialled
<1>2. ASSUME NEW k \in Calls, SendRequest(k) PROVE TypeOK'
  <2>1. conn \in [Calls -> ConnSet] /\ call \in [Calls -> CallSet] /\ call[k] \in CallSet
    BY ConnTypes
  <2>2. /\ UNCHANGED <<daemon, restarts, conn, posted, created>> /\ sent' = sent \cup {k}
        /\ call' = [call EXCEPT ![k].pc = "waiting"]
    BY <1>2 DEF SendRequest
  <2>3. call' \in [Calls -> CallSet] /\ \A j \in Calls : call'[j].age = call[j].age
    BY <2>1, <2>2
  <2> QED
    BY <2>2, <2>3
<1>3. ASSUME NEW k \in Calls, BrokenPipe(k) PROVE TypeOK'
  BY <1>3, ReturnsDoes DEF BrokenPipe
<1>4. ASSUME NEW k \in Calls, Receive(k) PROVE TypeOK'
  <2>1. PICK outcome \in Outcomes : Returns(k, outcome)
    BY <1>4 DEF Receive
  <2> QED
    BY <1>4, <2>1, ReturnsDoes DEF Receive
<1>5. ASSUME NEW k \in Calls, CallTimesOut(k) PROVE TypeOK'
  BY <1>5 DEF CallTimesOut, CallDue, Returns
<1>6. ASSUME NEW k \in Calls, Accept(k) PROVE TypeOK'
  <2>1. CASE Client(k) \in Authorized
    <3>1. conn[k] \in ConnSet /\ conn \in [Calls -> ConnSet]
      BY ConnTypes
    <3>2. /\ UNCHANGED <<daemon, restarts, call, sent, posted, created>>
          /\ conn' = [conn EXCEPT ![k] = [conn[k] EXCEPT !.pc = "reading"]]
      BY <1>6, <2>1 DEF Accept
    <3>3. [conn[k] EXCEPT !.pc = "reading"] \in ConnSet
      BY <3>1
    <3>4. conn' \in [Calls -> ConnSet]
      BY <3>1, <3>2, <3>3
    <3> QED
      BY <3>2, <3>4
  <2>2. CASE Client(k) \notin Authorized
    BY <1>6, <2>2, CloseWithDoes DEF Accept
  <2> QED
    BY <2>1, <2>2
<1>7. ASSUME NEW k \in Calls, ReadRequest(k) PROVE TypeOK'
  <2>1. RequestRead(k)
    BY <1>7, ReadRequestDoes DEF IInv
  <2> QED
    BY <2>1 DEF RequestRead, OneHandler
<1>8. ASSUME NEW k \in Calls, ReadFails(k) PROVE TypeOK'
  BY <1>8 DEF ReadFails, CloseWith
<1>9. ASSUME NEW k \in Calls, PostDraft(k) PROVE TypeOK'
  BY <1>9 DEF PostDraft
<1>10. ASSUME NEW k \in Calls, Commit(k) PROVE TypeOK'
  BY <1>10 DEF Commit
<1>11. ASSUME NEW k \in Calls, FinishDispatch(k) PROVE TypeOK'
  <2>1. DispatchEnded(k)
    BY <1>11, FinishDispatchDoes DEF IInv
  <2> QED
    BY <2>1 DEF DispatchEnded, OneHandler
<1>12. ASSUME NEW k \in Calls, WriteResponse(k) PROVE TypeOK'
  BY <1>12 DEF WriteResponse, CloseWith
<1>13. ASSUME NEW k \in Calls, WriteFails(k) PROVE TypeOK'
  <2>1. Dropped(k)
    BY <1>13, WriteFailsDoes DEF IInv
  <2> QED
    BY <2>1 DEF Dropped, OneHandler
<1>14. CASE StopListening
  BY <1>14 DEF StopListening
<1>15. CASE Exit
  <2>1. Ended
    BY <1>15, ExitDoes DEF IInv
  <2>2. TypeOK
    OBVIOUS
  <2> HIDE DEF IInv, SidesAgree
  <2>3. /\ conn' \in [Calls -> ConnSet] /\ daemon' = "down"
        /\ UNCHANGED <<restarts, call, sent, posted, created>>
    BY <2>1 DEF Ended
  <2> QED
    BY <2>2, <2>3
<1>16. CASE Restart
  BY <1>16 DEF Restart
<1>17. CASE Tick
  BY <1>17, TickDoes DEF Tick, Older
<1>18. CASE UNCHANGED vars
  BY <1>18 DEF vars
<1>19. ASSUME NEW k \in Calls, WaitForKeyring(k) PROVE TypeOK'
  BY <1>19 DEF WaitForKeyring
<1>20. ASSUME NEW k \in Calls, KeyringAnswers(k) PROVE TypeOK'
  BY <1>20 DEF KeyringAnswers
<1> QED
  BY <1>1, <1>2, <1>3, <1>4, <1>5, <1>6, <1>7, <1>8, <1>9, <1>10, <1>11, <1>12, <1>13,
     <1>14, <1>15, <1>16, <1>17, <1>18, <1>19, <1>20 DEF Next

\* The two sides of a call.
LEMMA AgreeStep == IInv /\ [Next]_vars => SidesAgree'
<1> SUFFICES ASSUME IInv, [Next]_vars PROVE SidesAgree'
  OBVIOUS
<1> USE ConstantTypes
    DEF IInv, TypeOK, AllRequests, Answers, Outcomes, Calling, Returned, Active, Dispatching, Timed, SidesAgree
<1>1. ASSUME NEW k \in Calls, NEW request \in Requests, Dial(k, request) PROVE SidesAgree'
  <2>1. Dialled(k)
    BY <1>1, DialDoes DEF IInv
  <2> QED
    BY <2>1 DEF Dialled
<1>2. ASSUME NEW k \in Calls, SendRequest(k) PROVE SidesAgree'
  BY <1>2 DEF SendRequest
<1>3. ASSUME NEW k \in Calls, BrokenPipe(k) PROVE SidesAgree'
  BY <1>3 DEF BrokenPipe, Returns
<1>4. ASSUME NEW k \in Calls, Receive(k) PROVE SidesAgree'
  BY <1>4 DEF Receive, Returns
<1>5. ASSUME NEW k \in Calls, CallTimesOut(k) PROVE SidesAgree'
  BY <1>5 DEF CallTimesOut, CallDue, Returns
<1>6. ASSUME NEW k \in Calls, Accept(k) PROVE SidesAgree'
  BY <1>6 DEF Accept, AcceptDue, CloseWith
<1>7. ASSUME NEW k \in Calls, ReadRequest(k) PROVE SidesAgree'
  <2>1. RequestRead(k)
    BY <1>7, ReadRequestDoes DEF IInv
  <2> QED
    BY <2>1 DEF RequestRead, OneHandler
<1>8. ASSUME NEW k \in Calls, ReadFails(k) PROVE SidesAgree'
  BY <1>8 DEF ReadFails, CloseWith
<1>9. ASSUME NEW k \in Calls, PostDraft(k) PROVE SidesAgree'
  BY <1>9 DEF PostDraft
<1>10. ASSUME NEW k \in Calls, Commit(k) PROVE SidesAgree'
  BY <1>10 DEF Commit
<1>11. ASSUME NEW k \in Calls, FinishDispatch(k) PROVE SidesAgree'
  <2>1. DispatchEnded(k)
    BY <1>11, FinishDispatchDoes DEF IInv
  <2> QED
    BY <2>1 DEF DispatchEnded, OneHandler
<1>12. ASSUME NEW k \in Calls, WriteResponse(k) PROVE SidesAgree'
  BY <1>12 DEF WriteResponse, CloseWith
<1>13. ASSUME NEW k \in Calls, WriteFails(k) PROVE SidesAgree'
  <2>1. Dropped(k)
    BY <1>13, WriteFailsDoes DEF IInv
  <2> QED
    BY <2>1 DEF Dropped, OneHandler
<1>14. CASE StopListening
  BY <1>14 DEF StopListening
<1>15. CASE Exit
  <2>1. Ended
    BY <1>15, ExitDoes DEF IInv
  <2> QED
    BY <2>1 DEF Ended
<1>16. CASE Restart
  BY <1>16 DEF Restart
<1>17. CASE Tick
  BY <1>17, TickDoes DEF Tick, Older
<1>18. CASE UNCHANGED vars
  BY <1>18 DEF vars
<1>19. ASSUME NEW k \in Calls, WaitForKeyring(k) PROVE SidesAgree'
  BY <1>19 DEF WaitForKeyring
<1>20. ASSUME NEW k \in Calls, KeyringAnswers(k) PROVE SidesAgree'
  BY <1>20 DEF KeyringAnswers
<1> QED
  BY <1>1, <1>2, <1>3, <1>4, <1>5, <1>6, <1>7, <1>8, <1>9, <1>10, <1>11, <1>12, <1>13,
     <1>14, <1>15, <1>16, <1>17, <1>18, <1>19, <1>20 DEF Next

\* Refusals and drafts.
LEMMA DraftStep == IInv /\ [Next]_vars => DraftsComeLate'
<1> SUFFICES ASSUME IInv, [Next]_vars PROVE DraftsComeLate'
  OBVIOUS
<1> USE ConstantTypes
    DEF IInv, TypeOK, AllRequests, Answers, Outcomes, Calling, Returned, Active, Dispatching, Timed, SidesAgree, DraftsComeLate, Refusals
<1>1. ASSUME NEW k \in Calls, NEW request \in Requests, Dial(k, request) PROVE DraftsComeLate'
  <2>1. Dialled(k)
    BY <1>1, DialDoes DEF IInv
  <2> QED
    BY <2>1 DEF Dialled
<1>2. ASSUME NEW k \in Calls, SendRequest(k) PROVE DraftsComeLate'
  BY <1>2 DEF SendRequest
<1>3. ASSUME NEW k \in Calls, BrokenPipe(k) PROVE DraftsComeLate'
  BY <1>3 DEF BrokenPipe, Returns
<1>4. ASSUME NEW k \in Calls, Receive(k) PROVE DraftsComeLate'
  BY <1>4 DEF Receive, Returns
<1>5. ASSUME NEW k \in Calls, CallTimesOut(k) PROVE DraftsComeLate'
  BY <1>5 DEF CallTimesOut, CallDue, Returns
<1>6. ASSUME NEW k \in Calls, Accept(k) PROVE DraftsComeLate'
  <2>1. CASE Client(k) \in Authorized
    BY <1>6, <2>1 DEF Accept, AcceptDue
  <2>2. CASE Client(k) \notin Authorized
    BY <1>6, <2>2, CloseWithDoes DEF Accept, AcceptDue
  <2> QED
    BY <2>1, <2>2
<1>7. ASSUME NEW k \in Calls, ReadRequest(k) PROVE DraftsComeLate'
  <2>1. RequestRead(k)
    BY <1>7, ReadRequestDoes DEF IInv
  <2> QED
    BY <2>1 DEF RequestRead, OneHandler
<1>8. ASSUME NEW k \in Calls, ReadFails(k) PROVE DraftsComeLate'
  BY <1>8 DEF ReadFails, CloseWith
<1>9. ASSUME NEW k \in Calls, PostDraft(k) PROVE DraftsComeLate'
  BY <1>9 DEF PostDraft
<1>10. ASSUME NEW k \in Calls, Commit(k) PROVE DraftsComeLate'
  BY <1>10 DEF Commit
<1>11. ASSUME NEW k \in Calls, FinishDispatch(k) PROVE DraftsComeLate'
  <2>1. DispatchEnded(k)
    BY <1>11, FinishDispatchDoes DEF IInv
  <2> QED
    BY <2>1 DEF DispatchEnded, OneHandler
<1>12. ASSUME NEW k \in Calls, WriteResponse(k) PROVE DraftsComeLate'
  BY <1>12 DEF WriteResponse, CloseWith
<1>13. ASSUME NEW k \in Calls, WriteFails(k) PROVE DraftsComeLate'
  <2>1. Dropped(k)
    BY <1>13, WriteFailsDoes DEF IInv
  <2> QED
    BY <2>1 DEF Dropped, OneHandler
<1>14. CASE StopListening
  BY <1>14 DEF StopListening
<1>15. CASE Exit
  <2>1. Ended
    BY <1>15, ExitDoes DEF IInv
  <2> QED
    BY <2>1 DEF Ended
<1>16. CASE Restart
  BY <1>16 DEF Restart
<1>17. CASE Tick
  BY <1>17 DEF Tick, Due, CallDue, SendDue, AcceptDue, ReadDue, DispatchDue, WriteDue, WriteExpired, Waited, Older
<1>18. CASE UNCHANGED vars
  BY <1>18 DEF vars
<1>19. ASSUME NEW k \in Calls, WaitForKeyring(k) PROVE DraftsComeLate'
  BY <1>19 DEF WaitForKeyring
<1>20. ASSUME NEW k \in Calls, KeyringAnswers(k) PROVE DraftsComeLate'
  BY <1>20 DEF KeyringAnswers
<1> QED
  BY <1>1, <1>2, <1>3, <1>4, <1>5, <1>6, <1>7, <1>8, <1>9, <1>10, <1>11, <1>12, <1>13,
     <1>14, <1>15, <1>16, <1>17, <1>18, <1>19, <1>20 DEF Next

\* The ages of the two sides.
LEMMA YoungerStep == IInv /\ [Next]_vars => HandlersAreYounger'
<1> SUFFICES ASSUME IInv, [Next]_vars PROVE HandlersAreYounger'
  OBVIOUS
<1> USE ConstantTypes
    DEF IInv, TypeOK, AllRequests, Answers, Outcomes, Calling, Returned, Active, Dispatching, Timed, SidesAgree, HandlersAreYounger
<1>1. ASSUME NEW k \in Calls, NEW request \in Requests, Dial(k, request) PROVE HandlersAreYounger'
  <2>1. Dialled(k)
    BY <1>1, DialDoes DEF IInv
  <2> QED
    BY <2>1 DEF Dialled
<1>2. ASSUME NEW k \in Calls, SendRequest(k) PROVE HandlersAreYounger'
  BY <1>2 DEF SendRequest
<1>3. ASSUME NEW k \in Calls, BrokenPipe(k) PROVE HandlersAreYounger'
  BY <1>3 DEF BrokenPipe, Returns
<1>4. ASSUME NEW k \in Calls, Receive(k) PROVE HandlersAreYounger'
  BY <1>4 DEF Receive, Returns
<1>5. ASSUME NEW k \in Calls, CallTimesOut(k) PROVE HandlersAreYounger'
  BY <1>5 DEF CallTimesOut, CallDue, Returns
<1>6. ASSUME NEW k \in Calls, Accept(k) PROVE HandlersAreYounger'
  <2>1. CASE Client(k) \in Authorized
    BY <1>6, <2>1 DEF Accept, AcceptDue
  <2>2. CASE Client(k) \notin Authorized
    BY <1>6, <2>2, CloseWithDoes DEF Accept, AcceptDue
  <2> QED
    BY <2>1, <2>2
<1>7. ASSUME NEW k \in Calls, ReadRequest(k) PROVE HandlersAreYounger'
  <2>1. RequestRead(k)
    BY <1>7, ReadRequestDoes DEF IInv
  <2> QED
    BY <2>1 DEF RequestRead, OneHandler
<1>8. ASSUME NEW k \in Calls, ReadFails(k) PROVE HandlersAreYounger'
  BY <1>8 DEF ReadFails, CloseWith
<1>9. ASSUME NEW k \in Calls, PostDraft(k) PROVE HandlersAreYounger'
  BY <1>9 DEF PostDraft
<1>10. ASSUME NEW k \in Calls, Commit(k) PROVE HandlersAreYounger'
  BY <1>10 DEF Commit
<1>11. ASSUME NEW k \in Calls, FinishDispatch(k) PROVE HandlersAreYounger'
  <2>1. DispatchEnded(k)
    BY <1>11, FinishDispatchDoes DEF IInv
  <2> QED
    BY <2>1 DEF DispatchEnded, OneHandler
<1>12. ASSUME NEW k \in Calls, WriteResponse(k) PROVE HandlersAreYounger'
  BY <1>12 DEF WriteResponse, CloseWith
<1>13. ASSUME NEW k \in Calls, WriteFails(k) PROVE HandlersAreYounger'
  <2>1. Dropped(k)
    BY <1>13, WriteFailsDoes DEF IInv
  <2> QED
    BY <2>1 DEF Dropped, OneHandler
<1>14. CASE StopListening
  BY <1>14 DEF StopListening
<1>15. CASE Exit
  <2>1. Ended
    BY <1>15, ExitDoes DEF IInv
  <2> QED
    BY <2>1 DEF Ended
<1>16. CASE Restart
  BY <1>16 DEF Restart
<1>17. CASE Tick
  BY <1>17 DEF Tick, Due, CallDue, SendDue, AcceptDue, ReadDue, DispatchDue, WriteDue, WriteExpired, Waited, Older
<1>18. CASE UNCHANGED vars
  BY <1>18 DEF vars
<1>19. ASSUME NEW k \in Calls, WaitForKeyring(k) PROVE HandlersAreYounger'
  BY <1>19 DEF WaitForKeyring
<1>20. ASSUME NEW k \in Calls, KeyringAnswers(k) PROVE HandlersAreYounger'
  BY <1>20 DEF KeyringAnswers
<1> QED
  BY <1>1, <1>2, <1>3, <1>4, <1>5, <1>6, <1>7, <1>8, <1>9, <1>10, <1>11, <1>12, <1>13,
     <1>14, <1>15, <1>16, <1>17, <1>18, <1>19, <1>20 DEF Next

\* The ages of the two sides where nobody dwells.
LEMMA PromptStep == IInv /\ [Next]_vars => PromptAges'
<1> SUFFICES ASSUME IInv, [Next]_vars PROVE PromptAges'
  OBVIOUS
<1> USE ConstantTypes
    DEF IInv, TypeOK, AllRequests, Answers, Outcomes, Calling, Returned, Active, Dispatching, Timed, SidesAgree, PromptAges, Prompt
<1>1. ASSUME NEW k \in Calls, NEW request \in Requests, Dial(k, request) PROVE PromptAges'
  <2>1. Dialled(k)
    BY <1>1, DialDoes DEF IInv
  <2> QED
    BY <2>1 DEF Dialled
<1>2. ASSUME NEW k \in Calls, SendRequest(k) PROVE PromptAges'
  BY <1>2 DEF SendRequest
<1>3. ASSUME NEW k \in Calls, BrokenPipe(k) PROVE PromptAges'
  BY <1>3 DEF BrokenPipe, Returns
<1>4. ASSUME NEW k \in Calls, Receive(k) PROVE PromptAges'
  BY <1>4 DEF Receive, Returns
<1>5. ASSUME NEW k \in Calls, CallTimesOut(k) PROVE PromptAges'
  BY <1>5 DEF CallTimesOut, CallDue, Returns
<1>6. ASSUME NEW k \in Calls, Accept(k) PROVE PromptAges'
  <2>1. CASE Client(k) \in Authorized
    BY <1>6, <2>1 DEF Accept, AcceptDue
  <2>2. CASE Client(k) \notin Authorized
    BY <1>6, <2>2, CloseWithDoes DEF Accept, AcceptDue
  <2> QED
    BY <2>1, <2>2
<1>7. ASSUME NEW k \in Calls, ReadRequest(k) PROVE PromptAges'
  <2>1. RequestRead(k)
    BY <1>7, ReadRequestDoes DEF IInv
  <2> QED
    BY <2>1 DEF RequestRead, OneHandler
<1>8. ASSUME NEW k \in Calls, ReadFails(k) PROVE PromptAges'
  BY <1>8 DEF ReadFails, CloseWith
<1>9. ASSUME NEW k \in Calls, PostDraft(k) PROVE PromptAges'
  BY <1>9 DEF PostDraft
<1>10. ASSUME NEW k \in Calls, Commit(k) PROVE PromptAges'
  BY <1>10 DEF Commit
<1>11. ASSUME NEW k \in Calls, FinishDispatch(k) PROVE PromptAges'
  <2>1. DispatchEnded(k)
    BY <1>11, FinishDispatchDoes DEF IInv
  <2> QED
    BY <2>1 DEF DispatchEnded, OneHandler
<1>12. ASSUME NEW k \in Calls, WriteResponse(k) PROVE PromptAges'
  BY <1>12 DEF WriteResponse, CloseWith
<1>13. ASSUME NEW k \in Calls, WriteFails(k) PROVE PromptAges'
  <2>1. Dropped(k)
    BY <1>13, WriteFailsDoes DEF IInv
  <2> QED
    BY <2>1 DEF Dropped, OneHandler
<1>14. CASE StopListening
  BY <1>14 DEF StopListening
<1>15. CASE Exit
  <2>1. Ended
    BY <1>15, ExitDoes DEF IInv
  <2> QED
    BY <2>1 DEF Ended
<1>16. CASE Restart
  BY <1>16 DEF Restart
<1>17. CASE Tick
  <2> SUFFICES ASSUME NEW k \in Calls, Prompt(Client(k))'
               PROVE  /\ call'[k].pc \in {"unused", "writing"} => call'[k].age = 0
                      /\ (k \in sent' /\ conn'[k].pc \in {"queued", "reading"})
                            => call'[k].pc = "waiting" /\ call'[k].age = 0
                      /\ (Dispatching(k)' /\ call'[k].pc = "waiting") =>
                            conn'[k].age = call'[k].age \/ conn'[k].age > DispatchTimeout
                      /\ (Dispatching(k)' /\ Returned(k)') =>
                            conn'[k].age >= Patience[Client(k)] \/ conn'[k].age > DispatchTimeout
    OBVIOUS
  <2>1. /\ UNCHANGED <<daemon, sent>> /\ ~SendDue(k) /\ ~AcceptDue(k) /\ ~ReadDue(k)
    BY <1>17 DEF Tick, Due
  <2>2. /\ conn'[k].pc = conn[k].pc /\ call'[k].pc = call[k].pc
        /\ conn'[k].age = IF Timed(k) THEN Older(conn[k].age) ELSE conn[k].age
        /\ call'[k].age = IF Waited(k) THEN call[k].age + 1 ELSE call[k].age
        /\ conn[k].age \in Nat /\ call[k].age \in Nat
    BY <1>17, TickDoes
  <2> QED
    BY <2>1, <2>2 DEF SendDue, AcceptDue, ReadDue, Waited, Older
<1>18. CASE UNCHANGED vars
  BY <1>18 DEF vars
<1>19. ASSUME NEW k \in Calls, WaitForKeyring(k) PROVE PromptAges'
  BY <1>19 DEF WaitForKeyring
<1>20. ASSUME NEW k \in Calls, KeyringAnswers(k) PROVE PromptAges'
  BY <1>20 DEF KeyringAnswers
<1> QED
  BY <1>1, <1>2, <1>3, <1>4, <1>5, <1>6, <1>7, <1>8, <1>9, <1>10, <1>11, <1>12, <1>13,
     <1>14, <1>15, <1>16, <1>17, <1>18, <1>19, <1>20 DEF Next

\* One call at a time.
LEMMA OneStep == IInv /\ [Next]_vars => OneAtATime'
<1> SUFFICES ASSUME IInv, [Next]_vars PROVE OneAtATime'
  OBVIOUS
<1> USE ConstantTypes
    DEF IInv, TypeOK, AllRequests, Answers, Outcomes, Calling, Returned, Active, Dispatching, Timed, SidesAgree, OneAtATime
<1>1. ASSUME NEW k \in Calls, NEW request \in Requests, Dial(k, request) PROVE OneAtATime'
  <2>1. Dialled(k)
    BY <1>1, DialDoes DEF IInv
  <2> QED
    BY <2>1 DEF Dialled
<1>2. ASSUME NEW k \in Calls, SendRequest(k) PROVE OneAtATime'
  BY <1>2 DEF SendRequest
<1>3. ASSUME NEW k \in Calls, BrokenPipe(k) PROVE OneAtATime'
  BY <1>3 DEF BrokenPipe, Returns
<1>4. ASSUME NEW k \in Calls, Receive(k) PROVE OneAtATime'
  BY <1>4 DEF Receive, Returns
<1>5. ASSUME NEW k \in Calls, CallTimesOut(k) PROVE OneAtATime'
  BY <1>5 DEF CallTimesOut, CallDue, Returns
<1>6. ASSUME NEW k \in Calls, Accept(k) PROVE OneAtATime'
  BY <1>6 DEF Accept, AcceptDue, CloseWith
<1>7. ASSUME NEW k \in Calls, ReadRequest(k) PROVE OneAtATime'
  <2>1. RequestRead(k)
    BY <1>7, ReadRequestDoes DEF IInv
  <2> QED
    BY <2>1 DEF RequestRead, OneHandler
<1>8. ASSUME NEW k \in Calls, ReadFails(k) PROVE OneAtATime'
  BY <1>8 DEF ReadFails, CloseWith
<1>9. ASSUME NEW k \in Calls, PostDraft(k) PROVE OneAtATime'
  BY <1>9 DEF PostDraft
<1>10. ASSUME NEW k \in Calls, Commit(k) PROVE OneAtATime'
  BY <1>10 DEF Commit
<1>11. ASSUME NEW k \in Calls, FinishDispatch(k) PROVE OneAtATime'
  <2>1. DispatchEnded(k)
    BY <1>11, FinishDispatchDoes DEF IInv
  <2> QED
    BY <2>1 DEF DispatchEnded, OneHandler
<1>12. ASSUME NEW k \in Calls, WriteResponse(k) PROVE OneAtATime'
  BY <1>12 DEF WriteResponse, CloseWith
<1>13. ASSUME NEW k \in Calls, WriteFails(k) PROVE OneAtATime'
  <2>1. Dropped(k)
    BY <1>13, WriteFailsDoes DEF IInv
  <2> QED
    BY <2>1 DEF Dropped, OneHandler
<1>14. CASE StopListening
  BY <1>14 DEF StopListening
<1>15. CASE Exit
  <2>1. Ended
    BY <1>15, ExitDoes DEF IInv
  <2> QED
    BY <2>1 DEF Ended
<1>16. CASE Restart
  BY <1>16 DEF Restart
<1>17. CASE Tick
  BY <1>17 DEF Tick, Due, CallDue, SendDue, AcceptDue, ReadDue, DispatchDue, WriteDue, WriteExpired, Waited, Older
<1>18. CASE UNCHANGED vars
  BY <1>18 DEF vars
<1>19. ASSUME NEW k \in Calls, WaitForKeyring(k) PROVE OneAtATime'
  BY <1>19 DEF WaitForKeyring
<1>20. ASSUME NEW k \in Calls, KeyringAnswers(k) PROVE OneAtATime'
  BY <1>20 DEF KeyringAnswers
<1> QED
  BY <1>1, <1>2, <1>3, <1>4, <1>5, <1>6, <1>7, <1>8, <1>9, <1>10, <1>11, <1>12, <1>13,
     <1>14, <1>15, <1>16, <1>17, <1>18, <1>19, <1>20 DEF Next

\* A step in which no dispatch begins and none ages leaves their distances alone.
LEMMA NoneBegins ==
    ASSUME AbandonedWorkIsBounded,
           \A k \in Calls : Dispatching(k)' => Dispatching(k) /\ conn'[k].age = conn[k].age
    PROVE  AbandonedWorkIsBounded'
BY DEF AbandonedWorkIsBounded

\* A handler that was given up stays ahead of its client's next one.
LEMMA AbandonedStep == IInv /\ [Next]_vars => AbandonedWorkIsBounded'
<1> SUFFICES ASSUME IInv, [Next]_vars PROVE AbandonedWorkIsBounded'
  OBVIOUS
<1> USE ConstantTypes
    DEF IInv, TypeOK, AllRequests, Answers, Outcomes, Calling, Returned, Active, Dispatching, Timed, SidesAgree, PromptAges, Prompt, OneAtATime, AbandonedWorkIsBounded
<1>1. ASSUME NEW k \in Calls, NEW request \in Requests, Dial(k, request) PROVE AbandonedWorkIsBounded'
  <2>1. Dialled(k)
    BY <1>1, DialDoes DEF IInv
  <2> QED
    BY <2>1 DEF Dialled
<1>2. ASSUME NEW k \in Calls, SendRequest(k) PROVE AbandonedWorkIsBounded'
  BY <1>2 DEF SendRequest
<1>3. ASSUME NEW k \in Calls, BrokenPipe(k) PROVE AbandonedWorkIsBounded'
  BY <1>3 DEF BrokenPipe, Returns
<1>4. ASSUME NEW k \in Calls, Receive(k) PROVE AbandonedWorkIsBounded'
  BY <1>4 DEF Receive, Returns
<1>5. ASSUME NEW k \in Calls, CallTimesOut(k) PROVE AbandonedWorkIsBounded'
  BY <1>5 DEF CallTimesOut, CallDue, Returns
<1>6. ASSUME NEW k \in Calls, Accept(k) PROVE AbandonedWorkIsBounded'
  <2>1. ~Dispatching(k)' /\ \A j \in Calls \ {k} : conn'[j] = conn[j]
    <3>1. CASE Client(k) \in Authorized
      BY <1>6, <3>1 DEF Accept
    <3>2. CASE Client(k) \notin Authorized
      BY <1>6, <3>2, CloseWithDoes DEF Accept
    <3> QED
      BY <3>1, <3>2
  <2>2. \A j \in Calls : Dispatching(j)' => Dispatching(j) /\ conn'[j].age = conn[j].age
    BY <2>1
  <2> QED
    BY <2>2, NoneBegins, Zenon
<1>7. ASSUME NEW k \in Calls, ReadRequest(k) PROVE AbandonedWorkIsBounded'
  <2>1. RequestRead(k)
    BY <1>7, ReadRequestDoes DEF IInv
  <2>2. /\ conn'[k].age = 0 /\ UNCHANGED call /\ \A j \in Calls \ {k} : conn'[j] = conn[j]
        /\ ~Dispatching(k) /\ call[k].pc # "unused"
    BY <2>1 DEF RequestRead, OneHandler
  <2> SUFFICES ASSUME NEW j \in Calls, NEW i \in Calls, Client(j) = Client(i), j[2] < i[2],
                      Patience[Client(i)] # 0, Client(i) \notin Slow,
                      Dispatching(j)', Dispatching(i)', conn'[j].age <= DispatchTimeout
               PROVE  conn'[j].age >= conn'[i].age + Patience[Client(i)]
    OBVIOUS
  <2>3. CASE i = k
    <3>1. j # k
      <4>1. k[2] \in Int
        BY DEF Calls
      <4> QED
        BY <2>3, <4>1
    <3>2. Dispatching(j) /\ conn'[j].age = conn[j].age /\ conn[j].age \in Nat
      BY <2>2, <3>1
    <3>3. Returned(j)
      BY <2>2, <2>3
    <3>4. conn[j].age >= Patience[Client(j)]
      BY <3>2, <3>3
    <3> QED
      BY <2>2, <2>3, <3>2, <3>4
  <2>4. CASE i # k /\ j # k
    BY <2>2, <2>4
  <2>5. CASE j = k /\ i # k
    <3>1. Dispatching(i) /\ call[i].pc # "unused"
      BY <2>2, <2>5
    <3>2. Returned(k)
      BY <2>5, <3>1
    <3>3. k \in sent /\ conn[k].pc = "reading"
      BY <2>1 DEF RequestRead
    <3> QED
      BY <2>5, <3>2, <3>3
  <2> QED
    BY <2>3, <2>4, <2>5
<1>8. ASSUME NEW k \in Calls, ReadFails(k) PROVE AbandonedWorkIsBounded'
  BY <1>8 DEF ReadFails, CloseWith
<1>9. ASSUME NEW k \in Calls, PostDraft(k) PROVE AbandonedWorkIsBounded'
  BY <1>9 DEF PostDraft
<1>10. ASSUME NEW k \in Calls, Commit(k) PROVE AbandonedWorkIsBounded'
  BY <1>10 DEF Commit
<1>11. ASSUME NEW k \in Calls, FinishDispatch(k) PROVE AbandonedWorkIsBounded'
  <2>1. DispatchEnded(k)
    BY <1>11, FinishDispatchDoes DEF IInv
  <2>2. \A j \in Calls : Dispatching(j)' => Dispatching(j) /\ conn'[j].age = conn[j].age
    BY <2>1 DEF DispatchEnded, OneHandler
  <2> QED
    BY <2>2, NoneBegins, Zenon
<1>12. ASSUME NEW k \in Calls, WriteResponse(k) PROVE AbandonedWorkIsBounded'
  BY <1>12 DEF WriteResponse, CloseWith
<1>13. ASSUME NEW k \in Calls, WriteFails(k) PROVE AbandonedWorkIsBounded'
  <2>1. Dropped(k)
    BY <1>13, WriteFailsDoes DEF IInv
  <2> QED
    BY <2>1 DEF Dropped, OneHandler
<1>14. CASE StopListening
  BY <1>14 DEF StopListening
<1>15. CASE Exit
  <2>1. Ended
    BY <1>15, ExitDoes DEF IInv
  <2> QED
    BY <2>1 DEF Ended
<1>16. CASE Restart
  BY <1>16 DEF Restart
<1>17. CASE Tick
  <2> SUFFICES ASSUME NEW j \in Calls, NEW k \in Calls, Client(j) = Client(k), j[2] < k[2],
                      Patience[Client(k)] # 0, Client(k) \notin Slow,
                      Dispatching(j)', Dispatching(k)', conn'[j].age <= DispatchTimeout
               PROVE  conn'[j].age >= conn'[k].age + Patience[Client(k)]
    OBVIOUS
  <2>1. ASSUME NEW i \in {j, k}
        PROVE  Dispatching(i) /\ conn'[i].age = Older(conn[i].age) /\ conn[i].age \in Nat
    BY <1>17, <2>1, TickDoes
  <2>2. conn[j].age < DispatchTimeout /\ conn'[j].age = conn[j].age + 1
    BY <2>1 DEF Older
  <2>3. conn'[k].age <= conn[k].age + 1 /\ conn'[k].age \in Nat
    BY <2>1 DEF Older
  <2>4. conn[j].age >= conn[k].age + Patience[Client(k)]
    BY <2>1, <2>2
  <2> HIDE DEF IInv, TypeOK, SidesAgree, PromptAges, OneAtATime, AbandonedWorkIsBounded
  <2> QED
    BY <2>1, <2>2, <2>3, <2>4
<1>18. CASE UNCHANGED vars
  BY <1>18 DEF vars
<1>19. ASSUME NEW k \in Calls, WaitForKeyring(k) PROVE AbandonedWorkIsBounded'
  BY <1>19 DEF WaitForKeyring
<1>20. ASSUME NEW k \in Calls, KeyringAnswers(k) PROVE AbandonedWorkIsBounded'
  BY <1>20 DEF KeyringAnswers
<1> QED
  BY <1>1, <1>2, <1>3, <1>4, <1>5, <1>6, <1>7, <1>8, <1>9, <1>10, <1>11, <1>12, <1>13,
     <1>14, <1>15, <1>16, <1>17, <1>18, <1>19, <1>20 DEF Next

\* The write deadline of a handler is not before its client's.
LEMMA LateStep == IInv /\ GivesUpLate /\ PatienceIsShort /\ [Next]_vars => GivesUpLate'
<1> SUFFICES ASSUME IInv, GivesUpLate, PatienceIsShort, [Next]_vars PROVE GivesUpLate'
  OBVIOUS
<1> USE ConstantTypes
    DEF IInv, TypeOK, AllRequests, Answers, Outcomes, Calling, Returned, Active, Dispatching, Timed, SidesAgree, HandlersAreYounger, GivesUpLate,
        LeftUnanswered, NeverStopped
<1> USE DEF PatienceIsShort, WriteExpired
<1>1. ASSUME NEW k \in Calls, NEW request \in Requests, Dial(k, request) PROVE GivesUpLate'
  <2>1. Dialled(k)
    BY <1>1, DialDoes DEF IInv
  <2>2. ASSUME NEW j \in Calls, LeftUnanswered(j)', Patience[Client(j)] # 0
        PROVE  call'[j].age = Patience[Client(j)]
    <3> HIDE DEF IInv, TypeOK, SidesAgree, HandlersAreYounger, GivesUpLate
    <3>1. LeftUnanswered(j) /\ call'[j].age = call[j].age
      BY <2>1, <2>2 DEF Dialled
    <3> QED
      BY <2>2, <3>1 DEF GivesUpLate
  <2> QED
    BY <2>2
<1>2. ASSUME NEW k \in Calls, SendRequest(k) PROVE GivesUpLate'
  BY <1>2 DEF SendRequest
<1>3. ASSUME NEW k \in Calls, BrokenPipe(k) PROVE GivesUpLate'
  BY <1>3 DEF BrokenPipe, Returns
<1>4. ASSUME NEW k \in Calls, Receive(k) PROVE GivesUpLate'
  BY <1>4 DEF Receive, Returns
<1>5. ASSUME NEW k \in Calls, CallTimesOut(k) PROVE GivesUpLate'
  BY <1>5 DEF CallTimesOut, CallDue, Returns
<1>6. ASSUME NEW k \in Calls, Accept(k) PROVE GivesUpLate'
  <2>1. CASE Client(k) \in Authorized
    BY <1>6, <2>1 DEF Accept, AcceptDue
  <2>2. CASE Client(k) \notin Authorized
    BY <1>6, <2>2, CloseWithDoes DEF Accept, AcceptDue
  <2> QED
    BY <2>1, <2>2
<1>7. ASSUME NEW k \in Calls, ReadRequest(k) PROVE GivesUpLate'
  <2>1. RequestRead(k)
    BY <1>7, ReadRequestDoes DEF IInv
  <2> QED
    BY <2>1 DEF RequestRead, OneHandler
<1>8. ASSUME NEW k \in Calls, ReadFails(k) PROVE GivesUpLate'
  BY <1>8 DEF ReadFails, CloseWith
<1>9. ASSUME NEW k \in Calls, PostDraft(k) PROVE GivesUpLate'
  BY <1>9 DEF PostDraft
<1>10. ASSUME NEW k \in Calls, Commit(k) PROVE GivesUpLate'
  BY <1>10 DEF Commit
<1>11. ASSUME NEW k \in Calls, FinishDispatch(k) PROVE GivesUpLate'
  <2>1. DispatchEnded(k)
    BY <1>11, FinishDispatchDoes DEF IInv
  <2> QED
    BY <2>1 DEF DispatchEnded, OneHandler
<1>12. ASSUME NEW k \in Calls, WriteResponse(k) PROVE GivesUpLate'
  BY <1>12 DEF WriteResponse, CloseWith
<1>13. ASSUME NEW k \in Calls, WriteFails(k) PROVE GivesUpLate'
  <2>1. Dropped(k)
    BY <1>13, WriteFailsDoes DEF IInv
  <2>2. ASSUME NEW j \in Calls, LeftUnanswered(j)', Patience[Client(j)] # 0
        PROVE  call'[j].age = Patience[Client(j)]
    <3>1. CASE j # k
      BY <2>1, <2>2, <3>1 DEF Dropped, OneHandler
    <3>2. CASE j = k
      <4>1. /\ call' = call /\ call[k].pc = "waiting" /\ conn[k].age >= WriteTimeout
            /\ conn[k].pc = "responding"
        BY <2>1, <2>2, <3>2 DEF Dropped, OneHandler
      <4>2. conn[k].age <= call[k].age
        BY <2>2, <3>2, <4>1
      <4>3. call[k].age <= Patience[Client(k)] /\ Patience[Client(k)] <= WriteTimeout
        OBVIOUS
      <4>4. conn[k].age \in Nat /\ call[k].age \in Nat
        BY <4>1
      <4>5. WriteTimeout \in Nat /\ Patience[Client(k)] \in Nat
        OBVIOUS
      <4>6. \A a, b, p, w \in Nat : a >= w /\ a <= b /\ b <= p /\ p <= w => b = p
        OBVIOUS
      <4>7. call[k].age = Patience[Client(k)]
        <5> HIDE DEF WriteExpired, IInv, TypeOK, SidesAgree, HandlersAreYounger, GivesUpLate,
                   LeftUnanswered, PatienceIsShort, NeverStopped
        <5> QED
          BY <4>1, <4>2, <4>3, <4>4, <4>5, <4>6
      <4> QED
        BY <3>2, <4>1, <4>7, Zenon
    <3> QED
      BY <3>1, <3>2
  <2> QED
    BY <2>2
<1>14. CASE StopListening
  BY <1>14 DEF StopListening
<1>15. CASE Exit
  <2>1. Ended
    BY <1>15, ExitDoes DEF IInv
  <2> QED
    BY <2>1 DEF Ended
<1>16. CASE Restart
  BY <1>16 DEF Restart
<1>17. CASE Tick
  BY <1>17 DEF Tick, Due, CallDue, SendDue, AcceptDue, ReadDue, DispatchDue, WriteDue, WriteExpired, Waited, Older
<1>18. CASE UNCHANGED vars
  BY <1>18 DEF vars
<1>19. ASSUME NEW k \in Calls, WaitForKeyring(k) PROVE GivesUpLate'
  BY <1>19 DEF WaitForKeyring
<1>20. ASSUME NEW k \in Calls, KeyringAnswers(k) PROVE GivesUpLate'
  BY <1>20 DEF KeyringAnswers
<1> QED
  BY <1>1, <1>2, <1>3, <1>4, <1>5, <1>6, <1>7, <1>8, <1>9, <1>10, <1>11, <1>12, <1>13,
     <1>14, <1>15, <1>16, <1>17, <1>18, <1>19, <1>20 DEF Next

\* The invariant is inductive.
LEMMA StepIInv == IInv /\ [Next]_vars => IInv'
BY TypeStep, AgreeStep, DraftStep, YoungerStep, PromptStep, OneStep, AbandonedStep DEF IInv

\* The invariant holds.
LEMMA SpecIInv == Spec => []IInv
<1>1. Init => IInv
  BY InitIInv
<1>2. IInv /\ [Next]_vars => IInv'
  BY StepIInv
<1> QED
  BY <1>1, <1>2, PTL DEF Spec

\* Every variable keeps its type, no client waits longer than its patience, and no
\* handler waits for the answer to a posted draft past the 30 s of its context
\* (one in the keyring may outlive them, and posts nothing then).
THEOREM TypeCorrect == Spec => []TypeOK
<1>1. IInv => TypeOK
  BY DEF IInv
<1> QED
  BY <1>1, SpecIInv, PTL

\* A refused call, a call that never reached the broker and a stranger's call
\* post no draft (handleConn's order of checks, handleCreateDraft's).
THEOREM RefusalsAreFinal == Spec => []RefusedMeansNoDraft
<1>1. IInv => RefusedMeansNoDraft
  <2> SUFFICES ASSUME IInv, NEW k \in Calls,
                      Client(k) \notin Authorized
                         \/ call[k].outcome \in {"dial_error", "unauthorized_peer",
                                                 "invalid_request", "policy_denied"}
               PROVE  k \notin posted
    BY DEF RefusedMeansNoDraft
  <2>1. CASE Client(k) \notin Authorized
    BY <2>1 DEF IInv, DraftsComeLate
  <2>2. CASE call[k].outcome = "dial_error"
    BY <2>2 DEF IInv, DraftsComeLate, SidesAgree
  <2>3. CASE call[k].outcome \in Refusals
    BY <2>3 DEF IInv, DraftsComeLate
  <2> QED
    BY <2>1, <2>2, <2>3 DEF Refusals
<1> QED
  BY <1>1, SpecIInv, PTL

\* The handlers that a client has abandoned and whose context lasts are apart by
\* its patience, however often it retries and however long the keyring holds them:
\* the context starts with dispatch, before the keyring is opened.
THEOREM AbandonedHandlersAreApart == Spec => []AbandonedWorkIsBounded
<1>1. IInv => AbandonedWorkIsBounded
  BY DEF IInv
<1> QED
  BY <1>1, SpecIInv, PTL

\* While no client is more patient than the write deadline is long, none that
\* has time left is given up (the 15 s of handleConn and those of Call).
THEOREM NoneIsGivenUp ==
    ASSUME \A c \in Clients : Patience[c] <= WriteTimeout
    PROVE  Spec => []BrokerOutlastsItsClient
<1>1. PatienceIsShort
  BY DEF PatienceIsShort
<1>2. Init => GivesUpLate
  BY DEF Init, NewCall, GivesUpLate, LeftUnanswered
<1>3. IInv /\ GivesUpLate /\ PatienceIsShort /\ [Next]_vars => GivesUpLate'
  BY LateStep
<1>4. GivesUpLate => BrokerOutlastsItsClient
  BY DEF GivesUpLate, BrokerOutlastsItsClient, LeftUnanswered, CallDue, Calling
<1>5. (IInv /\ GivesUpLate) /\ [Next]_vars => GivesUpLate'
  BY <1>1, <1>3
<1> QED
  BY <1>2, <1>4, <1>5, SpecIInv, PTL DEF Spec

=============================================================================
