--------------------------- MODULE CommandsProofs ---------------------------
(***************************************************************************)
(* Proofs about Commands, for any number of processes, command lines,      *)
(* output paths and keyrings.                                              *)
(***************************************************************************)
EXTENDS Commands, TLAPS

Early   == {"usage", "body", "check", "call"}
Writing == {"create", "write", "close", "rename", "remove"}

\* How far the call of a process is: no keyring is opened without one, and what
\* was answered well had its token.
CallOf(p) ==
    /\ reply[p] = "none" => opener[p] = "none"
    /\ (reply[p] = "ok" /\ NeedsToken(p)) => opener[p] = "loaded"
    /\ pc[p] \in Early => reply[p] = "none"
    /\ pc[p] \in Writing => reply[p] = "ok" /\ WritesFile(inv[p])

\* Its temporary file.
TempOf(p) ==
    /\ pc[p] \in Early \cup {"waiting", "create", "exited"} => temp[p] = "none"
    /\ pc[p] \in {"close", "rename"} => temp[p] = "whole"

\* Its exit status, which is noted before the temporary file is removed.
StatusOf(p) ==
    /\ pc[p] \notin {"remove", "exited", "killed"} => code[p] = 0
    /\ code[p] = 2 => reply[p] = "none"
    /\ (pc[p] \in {"remove", "exited"} /\ code[p] = 0) =>
          /\ reply[p] = "ok"
          /\ WritesFile(inv[p]) => target[Output(p)].by # Nothing
    /\ \A path \in Paths :
          target[path].by = p => pc[p] \in {"remove", "exited", "killed"} /\ code[p] = 0

IInv ==
    /\ TypeOK /\ TargetIsWhole
    /\ \A p \in Processes : CallOf(p) /\ TempOf(p) /\ StatusOf(p)

-----------------------------------------------------------------------------
\* At the start no command has called, written or exited.
LEMMA InitIInv == Init => IInv
<1> SUFFICES ASSUME Init PROVE IInv
  OBVIOUS
<1> USE DEF Init, CommandInit, KeyringInit
<1>1. TypeOK
  BY CommandAssumption, KeyringAssumption
     DEF TypeOK, CommandType, KeyringType, Stages, Replies, File, NoFile
<1>2. TargetIsWhole
  BY DEF TargetIsWhole, NoFile
<1>3. \A p \in Processes : CallOf(p) /\ TempOf(p) /\ StatusOf(p)
  BY CommandAssumption, OpenersAssumption
     DEF CallOf, TempOf, StatusOf, Early, Writing, NoFile
<1> QED
  BY <1>1, <1>2, <1>3 DEF IInv

\* What a command line asks for has the type its set says.
LEMMA InvocationTypes ==
    ASSUME TypeOK, NEW p \in Processes
    PROVE  WritesFile(inv[p]) => Output(p) \in Paths
BY CommandAssumption DEF TypeOK, CommandType, Invocation, WritesFile, Output

\* The variables of the command lines keep their types.
LEMMA CommandTypeStep ==
    ASSUME IInv, NEW p \in Processes, CommandSteps(p) \/ Dial(p)
    PROVE  CommandType'
<1> USE InvocationTypes DEF IInv, TypeOK, CommandType, Stages, Replies
<1>1. CASE CheckUsage(p)
  BY <1>1 DEF CheckUsage, Go, Exit
<1>2. CASE BodyIsThere(p)
  BY <1>2 DEF BodyIsThere, Go, Exit
<1>3. CASE BodyFails(p)
  BY <1>3 DEF BodyFails, Go, Exit
<1>4. CASE CheckCall(p)
  BY <1>4 DEF CheckCall, Go, Exit
<1>5. CASE Dial(p)
  BY <1>5 DEF Dial, Go
<1>6. CASE CallFails(p)
  BY <1>6 DEF CallFails, Go, Exit
<1>7. CASE CallTimesOut(p)
  BY <1>7 DEF CallTimesOut, Expires, Go, Exit
<1>8. CASE Receive(p)
  BY <1>8 DEF Receive, Go, Exit
<1>9. CASE CreateTemp(p)
  BY <1>9 DEF CreateTemp, Go, Exit
<1>10. CASE Write(p)
  BY <1>10 DEF Write, AfterShortWrite, Go
<1>11. CASE Close(p)
  BY <1>11 DEF Close, Fail, Go
<1>12. CASE Rename(p)
  <2>1. Output(p) \in Paths /\ [by |-> p, whole |-> temp[p] = "whole"] \in File
    BY <1>12 DEF Rename, CallOf, Writing, File
  <2>2. target' \in [Paths -> File]
    BY <1>12, <2>1 DEF Rename, Fail
  <2> QED
    BY <1>12, <2>2 DEF Rename, Fail, Go
<1>13. CASE Remove(p)
  BY <1>13 DEF Remove, Removed, Go, Exit, CallOf, Writing
<1>14. CASE Kill(p)
  BY <1>14 DEF Kill, Go
<1> QED
  BY <1>1, <1>2, <1>3, <1>4, <1>5, <1>6, <1>7, <1>8, <1>9, <1>10, <1>11, <1>12, <1>13, <1>14 DEF CommandSteps

\* A step of a command line preserves what is said of it and of the others: of
\* what the others see it only changes an output path, by renaming a whole file.
LEMMA CommandStep ==
    ASSUME IInv, NEW p \in Processes, CommandSteps(p) \/ Dial(p), UNCHANGED keyring,
           NEW q \in Processes
    PROVE  TargetIsWhole' /\ CallOf(q)' /\ TempOf(q)' /\ StatusOf(q)'
<1> DEFINE Goal == TargetIsWhole' /\ CallOf(q)' /\ TempOf(q)' /\ StatusOf(q)'
<1> USE CommandAssumption, InvocationTypes
    DEF IInv, TypeOK, CommandType, keyring, TargetIsWhole, CallOf, TempOf, StatusOf,
        Early, Writing, NeedsToken, Output, WritesFile
<1>1. CASE CheckUsage(p)
  BY <1>1 DEF CheckUsage, Go, Exit
<1>2. CASE BodyIsThere(p)
  BY <1>2 DEF BodyIsThere, Go, Exit
<1>3. CASE BodyFails(p)
  BY <1>3 DEF BodyFails, Go, Exit
<1>4. CASE CheckCall(p)
  BY <1>4 DEF CheckCall, Go, Exit
<1>5. CASE Dial(p)
  BY <1>5 DEF Dial, Go
<1>6. CASE CallFails(p)
  BY <1>6 DEF CallFails, Go, Exit
<1>7. CASE CallTimesOut(p)
  BY <1>7 DEF CallTimesOut, Expires, Go, Exit
<1>8. CASE Receive(p)
  BY <1>8 DEF Receive, Go, Exit
<1>9. CASE CreateTemp(p)
  BY <1>9 DEF CreateTemp, Go, Exit
<1>10. CASE Write(p)
  BY <1>10 DEF Write, AfterShortWrite, Go
<1>11. CASE Close(p)
  BY <1>11 DEF Close, Fail, Go
<1>12. CASE Rename(p)
  <2>1. Output(p) \in Paths /\ temp[p] = "whole" /\ code[p] = 0 /\ Nothing \notin Processes
    BY <1>12 DEF Rename
  <2>2. CASE Fail(p) /\ UNCHANGED <<temp, target>>
    BY <1>12, <2>2 DEF Rename, Fail, Go
  <2>3. CASE /\ target' = [target EXCEPT ![Output(p)] = [by |-> p, whole |-> temp[p] = "whole"]]
             /\ temp' = [temp EXCEPT ![p] = "none"]
             /\ Go(p, "remove") /\ UNCHANGED code
    <3>1. /\ pc' = [pc EXCEPT ![p] = "remove"] /\ code' = code /\ reply' = reply
          /\ inv' = inv /\ opener' = opener /\ pc[p] = "rename"
      BY <1>12, <2>3 DEF Rename, Go
    <3>2. /\ target'[Output(p)].by = p /\ target'[Output(p)].whole
          /\ \A path \in Paths : path # Output(p) => target'[path] = target[path]
      BY <2>1, <2>3
    <3>3. TargetIsWhole'
      BY <3>2
    <3>4. CallOf(q)' /\ TempOf(q)'
      BY <2>3, <3>1
    <3>5. StatusOf(q)'
      BY <2>1, <3>1, <3>2
    <3> QED
      BY <3>3, <3>4, <3>5
  <2> QED
    BY <1>12, <2>2, <2>3 DEF Rename
<1>13. CASE Remove(p)
  BY <1>13 DEF Remove, Removed, Go, Exit
<1>14. CASE Kill(p)
  BY <1>14 DEF Kill, Go
<1> QED
  BY <1>1, <1>2, <1>3, <1>4, <1>5, <1>6, <1>7, <1>8, <1>9, <1>10, <1>11, <1>12, <1>13, <1>14 DEF CommandSteps

\* A step of the broker or of the keyring writes no file and ends no command.
LEMMA BrokerStep ==
    ASSUME IInv,
           \/ \E p \in Processes : \/ Serve(p) \/ Respond(p)
                                   \/ KeyringSteps(p) /\ UNCHANGED command
           \/ (KeyringStalls \/ KeyringRecovers) /\ UNCHANGED command
    PROVE  IInv'
<1> DEFINE Local == \A q \in Processes : CallOf(q) /\ TempOf(q) /\ StatusOf(q)
           Goal  == CommandType' /\ KeyringType' /\ TargetIsWhole' /\ Local'
<1> SUFFICES Goal
  BY DEF IInv, TypeOK
<1> USE KeyringAssumption, OpenersAssumption
    DEF IInv, TypeOK, CommandType, KeyringType, TargetIsWhole, CallOf, TempOf, StatusOf,
        command, NeedsToken, Output, Results
<1>1. ASSUME NEW p \in Processes, Serve(p) PROVE Goal
  BY <1>1 DEF Serve, OpenTokenStore, UsesTimeout
<1>2. ASSUME NEW p \in Processes, Respond(p) PROVE Goal
  <2>1. PICK answer \in AnswersOf(p) : reply' = [reply EXCEPT ![p] = answer]
    BY <1>2 DEF Respond
  <2>2. /\ answer \in {"ok", "error"} /\ reply[p] = "pending"
        /\ (answer = "ok" /\ NeedsToken(p)) => opener[p] = "loaded"
    BY <1>2, <2>1 DEF Respond, AnswersOf
  <2>3. CommandType' /\ KeyringType' /\ TargetIsWhole'
    BY <1>2, <2>1, <2>2 DEF Respond, keyring, Replies
  <2>4. ASSUME NEW q \in Processes PROVE (CallOf(q) /\ TempOf(q) /\ StatusOf(q))'
    BY <1>2, <2>1, <2>2 DEF Respond, keyring, Early, Writing
  <2> QED
    BY <2>3, <2>4
<1>3. ASSUME NEW p \in Processes, KeyringSteps(p), UNCHANGED command PROVE Goal
  <2>1. CASE OpenHere(p)
    BY <1>3, <2>1 DEF OpenHere, Opened
  <2>2. CASE HelperOpens(p) \/ HelperSends(p)
    BY <1>3, <2>2 DEF HelperOpens, HelperSends
  <2>3. CASE ReceiveRing(p)
    BY <1>3, <2>3 DEF ReceiveRing, Opened
  <2>4. CASE OpenTimesOut(p) \/ LoadToken(p)
    BY <1>3, <2>4 DEF OpenTimesOut, LoadToken
  <2> QED
    BY <1>3, <2>1, <2>2, <2>3, <2>4 DEF KeyringSteps
<1>4. CASE (KeyringStalls \/ KeyringRecovers) /\ UNCHANGED command
  <2>1. UNCHANGED <<command, store, opener, helper, channel>>
    BY <1>4 DEF KeyringStalls, KeyringRecovers
  <2>2. stuck' \in BOOLEAN
    BY <1>4 DEF KeyringStalls, KeyringRecovers
  <2>3. stalls' \in 0 .. MaxStalls
    BY <1>4 DEF KeyringStalls, KeyringRecovers
  <2>4. CommandType' /\ KeyringType'
    BY <2>1, <2>2, <2>3
  <2>5. TargetIsWhole' /\ Local'
    BY <2>1
  <2> QED
    BY <2>4, <2>5
<1> QED
  BY <1>1, <1>2, <1>3, <1>4

\* A step of a command, of its handler or of the keyring keeps the invariant.
LEMMA StepIInv == IInv /\ [Next]_vars => IInv'
<1> SUFFICES ASSUME IInv, [Next]_vars PROVE IInv'
  OBVIOUS
<1>1. ASSUME NEW p \in Processes, CommandSteps(p) \/ Dial(p), UNCHANGED keyring PROVE IInv'
  <2>1. CommandType'
    BY <1>1, CommandTypeStep
  <2>2. KeyringType'
    BY <1>1 DEF IInv, TypeOK, KeyringType, keyring
  <2>3. ASSUME NEW q \in Processes
        PROVE  TargetIsWhole' /\ CallOf(q)' /\ TempOf(q)' /\ StatusOf(q)'
    BY <1>1, CommandStep
  <2> QED
    BY <2>1, <2>2, <2>3 DEF IInv, TypeOK
<1>2. CASE UNCHANGED vars
  <2> USE <1>2 DEF vars, command, keyring
  <2>1. TypeOK' /\ TargetIsWhole'
    BY DEF IInv, TypeOK, CommandType, KeyringType, TargetIsWhole
  <2>2. ASSUME NEW q \in Processes PROVE CallOf(q)' /\ TempOf(q)' /\ StatusOf(q)'
    BY DEF IInv, CallOf, TempOf, StatusOf, NeedsToken, Output
  <2> QED
    BY <2>1, <2>2 DEF IInv
<1> QED
  BY <1>1, <1>2, BrokerStep DEF Next

\* The invariant holds in every reachable state.
LEMMA SpecIInv == Spec => []IInv
BY InitIInv, StepIInv, PTL DEF Spec

-----------------------------------------------------------------------------
\* The variables keep the types their comments give them.
THEOREM TypeCorrect == Spec => []TypeOK
<1>1. IInv => TypeOK
  BY DEF IInv
<1> QED
  BY <1>1, SpecIInv, PTL

\* However many commands write an output path side by side, fail or are killed,
\* what is there is one of them whole, or what was there before.
THEOREM WholeFiles == Spec => []TargetIsWhole
<1>1. IInv => TargetIsWhole
  BY DEF IInv
<1> QED
  BY <1>1, SpecIInv, PTL

\* A command that ended by itself left no temporary file.
THEOREM NoTempsLeft == Spec => []TempsAreRemoved
<1>1. IInv => TempsAreRemoved
  BY DEF IInv, TempOf, TempsAreRemoved
<1> QED
  BY <1>1, SpecIInv, PTL

\* The exit status says whether the broker was asked, whether it did what it was
\* asked, and whether the file is there.
THEOREM TruthfulStatus == Spec => []StatusIsTruthful
<1>1. IInv => StatusIsTruthful
  <2> SUFFICES ASSUME IInv, NEW p \in Processes, pc[p] = "exited"
               PROVE  /\ code[p] = 2 => reply[p] = "none" /\ opener[p] = "none"
                      /\ code[p] # 0 => \A path \in Paths : target[path].by # p
                      /\ code[p] = 0 =>
                            /\ reply[p] = "ok" /\ (NeedsToken(p) => opener[p] = "loaded")
                            /\ WritesFile(inv[p]) => target[Output(p)].by # Nothing
    BY DEF StatusIsTruthful
  <2> QED
    BY DEF IInv, CallOf, StatusOf
<1> QED
  BY <1>1, SpecIInv, PTL

=============================================================================
