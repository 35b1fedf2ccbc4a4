----------------------- MODULE SocketLifecycleProofs ------------------------
(***************************************************************************)
(* Proofs about SocketLifecycle, for any number of runs, of runs started   *)
(* by hand and of failures.                                                *)
(***************************************************************************)
EXTENDS SocketLifecycle, TLAPS

\* From binding the path to the deferred os.Remove, and to the very end.
Holding == {"chmod", "serving", "unwind", "unwind_error", "unwind_chmod"}
Bound   == Holding \cup {"close", "close_error", "close_chmod"}

\* The path names a run that holds it, or one that was killed doing so.
PathIsHeld == path # Nobody => pc[path] \in Holding \cup {"killed"}

\* Only a run that was told to stop closes its listener before its end.
ListenersAreOpen == \A r \in Runs : (pc[r] \in Bound /\ r \notin signalled) => r \in listening

\* The run that the path names, if it serves, set the mode of its own socket.
ModeIsSet == \A r \in Runs : (path = r /\ pc[r] = "serving") => r \in chmodded

\* A run that ends without an error was told to.
EndsWhenTold == \A r \in Runs : pc[r] \in {"unwind", "close", "exited"} => r \in signalled

\* Where a broker serves and the path is gone, a run is about to bind it, or one is ending.
MissingIsTransient ==
    (path = Nobody /\ signalled = {} /\ (\A r \in Runs : pc[r] \notin {"failed", "killed"})
     /\ \E r \in Runs : pc[r] = "serving")
    => \E r \in Runs : pc[r] \in {"listen"} \cup (Bound \ {"chmod", "serving"})

\* The service manager runs one broker, and that one keeps the path.
OneUnderTheManager ==
    manual = {} =>
        /\ \A r, s \in Runs : {r, s} \subseteq Alive => r = s
        /\ \A r \in Runs :
              (pc[r] = "chmod" \/ (pc[r] = "serving" /\ r \notin signalled)) => path = r

IInv ==
    /\ TypeOK /\ PathIsHeld /\ ListenersAreOpen /\ ModeIsSet /\ EndsWhenTold
    /\ MissingIsTransient /\ OneUnderTheManager

-----------------------------------------------------------------------------
\* At the start there is no run and no socket.
LEMMA InitIInv == Init => IInv
BY SocketAssumption
DEF Init, IInv, TypeOK, PathIsHeld, ListenersAreOpen, ModeIsSet, EndsWhenTold,
    MissingIsTransient, OneUnderTheManager, Alive, Over, Bound, Holding

\* The variables keep their types.
LEMMA TypeStep == TypeOK /\ [Next]_vars => TypeOK'
<1> SUFFICES ASSUME TypeOK, [Next]_vars PROVE TypeOK'
  OBVIOUS
<1> USE SocketAssumption DEF TypeOK, Over
<1>1. ASSUME NEW r \in Runs, Start(r) \/ StartByHand(r) \/ Signal(r) \/ Kill(r) PROVE TypeOK'
  BY <1>1 DEF Start, StartByHand, Signal, Kill, Moves, Alive
<1>2. ASSUME NEW r \in Runs, RemoveStale(r) \/ Listen(r) \/ Chmod(r) PROVE TypeOK'
  BY <1>2 DEF RemoveStale, Listen, Refused, Chmod, ChmodPath, Moves, UnlinkPath
<1>3. ASSUME NEW r \in Runs, CloseListener(r) \/ AcceptFails(r) PROVE TypeOK'
  BY <1>3 DEF CloseListener, AcceptFails, Moves, UnlinkPath
<1>4. ASSUME NEW r \in Runs, DeferredRemove(r) \/ DeferredClose(r) PROVE TypeOK'
  BY <1>4 DEF DeferredRemove, DeferredClose, Moves, UnlinkPath
<1>5. CASE UNCHANGED vars
  BY <1>5 DEF vars
<1> QED
  BY <1>1, <1>2, <1>3, <1>4, <1>5 DEF Next, Steps

\* Whoever binds the path holds it until it gives it up or is killed, with its
\* listener open and its mode set as far as it has come.
LEMMA HeldStep ==
    IInv /\ [Next]_vars => PathIsHeld' /\ ListenersAreOpen' /\ ModeIsSet' /\ EndsWhenTold'
<1> DEFINE Goal == PathIsHeld' /\ ListenersAreOpen' /\ ModeIsSet' /\ EndsWhenTold'
<1> SUFFICES ASSUME IInv, [Next]_vars PROVE Goal
  OBVIOUS
<1> USE SocketAssumption
    DEF IInv, TypeOK, PathIsHeld, ListenersAreOpen, ModeIsSet, EndsWhenTold, Bound, Holding, Moves
<1>1. ASSUME NEW r \in Runs, Start(r) \/ StartByHand(r) PROVE Goal
  BY <1>1 DEF Start, StartByHand
<1>2. ASSUME NEW r \in Runs, Signal(r) PROVE Goal
  BY <1>2 DEF Signal
<1>3. ASSUME NEW r \in Runs, Kill(r) PROVE Goal
  BY <1>3 DEF Kill
<1>4. ASSUME NEW r \in Runs, RemoveStale(r) PROVE Goal
  BY <1>4 DEF RemoveStale, UnlinkPath
<1>5. ASSUME NEW r \in Runs, Listen(r) PROVE Goal
  BY <1>5 DEF Listen, Refused
<1>6. ASSUME NEW r \in Runs, Chmod(r) PROVE Goal
  BY <1>6 DEF Chmod, ChmodPath
<1>7. ASSUME NEW r \in Runs, CloseListener(r) PROVE Goal
  BY <1>7 DEF CloseListener, UnlinkPath
<1>8. ASSUME NEW r \in Runs, AcceptFails(r) PROVE Goal
  BY <1>8 DEF AcceptFails
<1>9. ASSUME NEW r \in Runs, DeferredRemove(r) PROVE Goal
  BY <1>9 DEF DeferredRemove, UnlinkPath
<1>10. ASSUME NEW r \in Runs, DeferredClose(r) PROVE Goal
  BY <1>10 DEF DeferredClose, UnlinkPath
<1>11. CASE UNCHANGED vars
  BY <1>11 DEF vars
<1> QED
  BY <1>1, <1>2, <1>3, <1>4, <1>5, <1>6, <1>7, <1>8, <1>9, <1>10, <1>11 DEF Next, Steps

\* A step that takes the path away from a serving broker is one of a run that will
\* bind it or that is ending.
LEMMA MissingStep == IInv /\ [Next]_vars => MissingIsTransient'
<1> SUFFICES ASSUME IInv, [Next]_vars PROVE MissingIsTransient'
  OBVIOUS
<1> USE SocketAssumption
    DEF IInv, TypeOK, EndsWhenTold, MissingIsTransient, Bound, Holding, Moves
<1>1. ASSUME NEW r \in Runs, Start(r) \/ StartByHand(r) PROVE MissingIsTransient'
  BY <1>1 DEF Start, StartByHand
<1>2. ASSUME NEW r \in Runs, Signal(r) \/ Kill(r) PROVE MissingIsTransient'
  BY <1>2 DEF Signal, Kill
<1>3. ASSUME NEW r \in Runs, RemoveStale(r) PROVE MissingIsTransient'
  BY <1>3 DEF RemoveStale
<1>4. ASSUME NEW r \in Runs, Listen(r) PROVE MissingIsTransient'
  BY <1>4 DEF Listen, Refused
<1>5. ASSUME NEW r \in Runs, Chmod(r) PROVE MissingIsTransient'
  BY <1>5 DEF Chmod, ChmodPath
<1>6. ASSUME NEW r \in Runs, CloseListener(r) PROVE MissingIsTransient'
  BY <1>6 DEF CloseListener
<1>7. ASSUME NEW r \in Runs, AcceptFails(r) PROVE MissingIsTransient'
  BY <1>7 DEF AcceptFails
<1>8. ASSUME NEW r \in Runs, DeferredRemove(r) PROVE MissingIsTransient'
  BY <1>8 DEF DeferredRemove
<1>9. ASSUME NEW r \in Runs, DeferredClose(r) PROVE MissingIsTransient'
  BY <1>9 DEF DeferredClose
<1>10. CASE UNCHANGED vars
  BY <1>10 DEF vars
<1> QED
  BY <1>1, <1>2, <1>3, <1>4, <1>5, <1>6, <1>7, <1>8, <1>9, <1>10 DEF Next, Steps

\* The manager starts a run only when the one before it is over.
LEMMA ManagerStep == IInv /\ [Next]_vars => OneUnderTheManager'
<1> SUFFICES ASSUME IInv, [Next]_vars, manual' = {} PROVE OneUnderTheManager'
  BY DEF OneUnderTheManager
<1>0. manual = {}
  BY DEF Next, Steps, vars, Start, StartByHand, Signal, Kill, RemoveStale, Listen, Chmod,
         CloseListener, AcceptFails, DeferredRemove, DeferredClose
<1> USE SocketAssumption, <1>0
    DEF IInv, TypeOK, OneUnderTheManager, Alive, Over, Bound, Holding, Moves
<1>1. ASSUME NEW r \in Runs, Start(r) \/ StartByHand(r) PROVE OneUnderTheManager'
  BY <1>1 DEF Start, StartByHand
<1>2. ASSUME NEW r \in Runs, Signal(r) \/ Kill(r) PROVE OneUnderTheManager'
  BY <1>2 DEF Signal, Kill
<1>3. ASSUME NEW r \in Runs, RemoveStale(r) PROVE OneUnderTheManager'
  BY <1>3 DEF RemoveStale
<1>4. ASSUME NEW r \in Runs, Listen(r) PROVE OneUnderTheManager'
  BY <1>4 DEF Listen, Refused
<1>5. ASSUME NEW r \in Runs, Chmod(r) PROVE OneUnderTheManager'
  BY <1>5 DEF Chmod, ChmodPath
<1>6. ASSUME NEW r \in Runs, CloseListener(r) PROVE OneUnderTheManager'
  BY <1>6 DEF CloseListener
<1>7. ASSUME NEW r \in Runs, AcceptFails(r) PROVE OneUnderTheManager'
  BY <1>7 DEF AcceptFails
<1>8. ASSUME NEW r \in Runs, DeferredRemove(r) PROVE OneUnderTheManager'
  BY <1>8 DEF DeferredRemove
<1>9. ASSUME NEW r \in Runs, DeferredClose(r) PROVE OneUnderTheManager'
  BY <1>9 DEF DeferredClose
<1>10. CASE UNCHANGED vars
  BY <1>10 DEF vars
<1> QED
  BY <1>1, <1>2, <1>3, <1>4, <1>5, <1>6, <1>7, <1>8, <1>9, <1>10 DEF Next, Steps

\* Every step, and a stutter, keeps the invariant.
LEMMA StepIInv == IInv /\ [Next]_vars => IInv'
BY TypeStep, HeldStep, MissingStep, ManagerStep DEF IInv

\* The invariant holds in every reachable state.
LEMMA SpecIInv == Spec => []IInv
BY InitIInv, StepIInv, PTL DEF Spec

-----------------------------------------------------------------------------
\* The variables keep the types their comments give them.
THEOREM TypeCorrect == Spec => []TypeOK
<1>1. IInv => TypeOK
  BY DEF IInv
<1> QED
  BY <1>1, SpecIInv, PTL

\* Under a service manager, a broker that serves is the one its clients reach,
\* with the mode of the configuration, through every stop, kill and failure.
THEOREM ReachedUnderTheManager == Spec => []ServingIsReachable
<1>1. IInv => ServingIsReachable
  BY DEF IInv, ListenersAreOpen, ModeIsSet, OneUnderTheManager, Bound, Holding, ServingIsReachable
<1> QED
  BY <1>1, SpecIInv, PTL

\* However many brokers are started over one another, clients reach one of them.
THEOREM OneIsReached == Spec => []OneIsReachable
<1>1. IInv => OneIsReachable
  <2> SUFFICES ASSUME IInv, Alive # {}, \A r \in Alive : pc[r] = "serving",
                      signalled = {}, \A r \in Runs : pc[r] \notin {"failed", "killed"}
               PROVE  path \in Alive /\ path \in listening /\ path \in chmodded
    BY DEF OneIsReachable
  <2> USE DEF IInv, TypeOK, Alive, Over, Bound, Holding
  <2>1. path # Nobody
    <3>1. PICK r \in Runs : pc[r] = "serving"
      OBVIOUS
    <3> QED
      BY <3>1 DEF MissingIsTransient
  <2>2. path \in Runs /\ pc[path] = "serving"
    BY <2>1 DEF PathIsHeld
  <2> QED
    BY <2>2 DEF ListenersAreOpen, ModeIsSet
<1> QED
  BY <1>1, SpecIInv, PTL

\* A socket that is left when nobody runs is that of a run that was killed: one
\* that ended by a signal or by an error took its own away, whatever the
\* order in which runs removed, bound and unlinked the path.
THEOREM OthersLeaveNothing == Spec => []OnlyTheKilledLeaveSockets
<1>1. IInv => OnlyTheKilledLeaveSockets
  BY DEF IInv, TypeOK, PathIsHeld, Alive, Over, Holding, OnlyTheKilledLeaveSockets
<1> QED
  BY <1>1, SpecIInv, PTL

=============================================================================
