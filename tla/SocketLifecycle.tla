-------------------------- MODULE SocketLifecycle ---------------------------
(***************************************************************************)
(* The broker's socket from start to exit: Server.Run of                   *)
(* internal/broker/server.go, runDaemon of cmd/safe-gmaild/main.go, and    *)
(* the restart policy of the service files of internal/service.            *)
(*                                                                         *)
(* A run is one process of `safe-gmaild run` with one configuration.  The  *)
(* socket path names the socket of the run that bound it last, or nothing; *)
(* removing or unlinking it takes away whatever it names.  The service     *)
(* manager starts a run when the one before it is over; others are started *)
(* from a terminal, whatever is running.                                   *)
(***************************************************************************)
EXTENDS Integers, FiniteSets

CONSTANTS
    Runs,
    Nobody,        \* the socket path does not exist
    MaxManual,     \* bound: runs started by hand
    MaxFailures    \* bound: kills, and accept errors

ASSUME SocketAssumption ==
    Nobody \notin Runs /\ {MaxManual, MaxFailures} \subseteq Nat

VARIABLES
    pc,            \* where each run is in Run
    manual,        \* the runs started by hand
    path,          \* whose socket the socket path names
    listening,     \* the runs whose listener is open
    chmodded,      \* the runs whose socket got the configured mode
    signalled,     \* the runs whose context is cancelled
    failures

vars == <<pc, manual, path, listening, chmodded, signalled, failures>>

Over  == {"exited", "failed", "refused", "killed"}
Alive == {r \in Runs : pc[r] \notin {"off"} \cup Over}

Init ==
    /\ pc = [r \in Runs |-> "off"]
    /\ manual = {} /\ path = Nobody
    /\ listening = {} /\ chmodded = {} /\ signalled = {}
    /\ failures = 0

Moves(r, from, to) == pc[r] = from /\ pc' = [pc EXCEPT ![r] = to]

\* A service manager serializes its runs.
Start(r) ==
    /\ Alive \subseteq manual
    /\ Moves(r, "off", "remove")
    /\ UNCHANGED <<manual, path, listening, chmodded, signalled, failures>>

StartByHand(r) ==
    /\ Cardinality(manual) < MaxManual
    /\ manual' = manual \cup {r}
    /\ Moves(r, "off", "remove")
    /\ UNCHANGED <<path, listening, chmodded, signalled, failures>>

\* A mutant: what is at the path is left there.
UnlinkPath_Keeps == UNCHANGED path

\* os.Remove and the listener's unlink-on-close: whosever socket it is.
UnlinkPath == path' = Nobody

\* "remove stale socket"
RemoveStale(r) ==
    /\ Moves(r, "remove", "listen")
    /\ UnlinkPath
    /\ UNCHANGED <<manual, listening, chmodded, signalled, failures>>

\* A mutant: the deferred calls are in place before the error is looked at.
Refused_Unlinks == path' = Nobody

\* A run that cannot bind takes nothing away: its defers come later.
Refused == UNCHANGED path

\* The path must be free to be bound; otherwise Run returns the error.
Listen(r) ==
    \/ /\ path = Nobody
       /\ Moves(r, "listen", "chmod")
       /\ path' = r /\ listening' = listening \cup {r}
       /\ UNCHANGED <<manual, chmodded, signalled, failures>>
    \/ /\ path # Nobody
       /\ Moves(r, "listen", "refused")
       /\ Refused
       /\ UNCHANGED <<manual, listening, chmodded, signalled, failures>>

\* A mutant: the mode is not set.
ChmodPath_Skipped == UNCHANGED chmodded

\* Whatever the path names gets the mode.
ChmodPath == path # Nobody /\ chmodded' = chmodded \cup {path}

Chmod(r) ==
    \/ /\ ChmodPath
       /\ Moves(r, "chmod", "serving")
       /\ UNCHANGED <<manual, path, listening, signalled, failures>>
    \/ /\ path = Nobody
       /\ Moves(r, "chmod", "unwind_chmod")
       /\ UNCHANGED <<manual, path, listening, chmodded, signalled, failures>>

\* SIGINT or SIGTERM, at any time: the context is cancelled.
Signal(r) ==
    /\ r \in Alive \ signalled
    /\ signalled' = signalled \cup {r}
    /\ UNCHANGED <<manual, pc, path, listening, chmodded, failures>>

\* The goroutine that waits for the context closes the listener.
CloseListener(r) ==
    /\ r \in signalled /\ r \in listening
    /\ pc[r] \in {"serving", "unwind", "unwind_error", "close", "close_error"}
    /\ UnlinkPath
    /\ listening' = listening \ {r}
    /\ UNCHANGED <<manual, pc, chmodded, signalled, failures>>

\* A mutant: an accept error ends the process at once.
AcceptFails_Exits(r) ==
    /\ r \notin signalled /\ failures < MaxFailures
    /\ failures' = failures + 1
    /\ Moves(r, "serving", "failed")
    /\ listening' = listening \ {r}
    /\ UNCHANGED <<manual, path, chmodded, signalled>>

\* Accept fails: because the listener was closed, or for good.  Once the
\* context is cancelled Run returns without an error either way.
AcceptFails(r) ==
    \/ /\ r \in signalled
       /\ Moves(r, "serving", "unwind")
       /\ UNCHANGED <<manual, path, listening, chmodded, signalled, failures>>
    \/ /\ r \notin signalled /\ failures < MaxFailures
       /\ failures' = failures + 1
       /\ Moves(r, "serving", "unwind_error")
       /\ UNCHANGED <<manual, path, listening, chmodded, signalled>>

\* Run's deferred calls, last first: os.Remove ...
DeferredRemove(r) ==
    /\ \/ Moves(r, "unwind", "close") \/ Moves(r, "unwind_error", "close_error")
       \/ Moves(r, "unwind_chmod", "close_chmod")
    /\ UnlinkPath
    /\ UNCHANGED <<manual, listening, chmodded, signalled, failures>>

\* ... and Close, which unlinks once more if the listener is open still.
DeferredClose(r) ==
    /\ \/ Moves(r, "close", "exited") \/ Moves(r, "close_error", "failed")
       \/ Moves(r, "close_chmod", "failed")
    /\ IF r \in listening THEN UnlinkPath ELSE UNCHANGED path
    /\ listening' = listening \ {r}
    /\ UNCHANGED <<manual, chmodded, signalled, failures>>

\* The process is killed; its socket stays at the path.
Kill(r) ==
    /\ r \in Alive
    /\ failures < MaxFailures /\ failures' = failures + 1
    /\ pc' = [pc EXCEPT ![r] = "killed"]
    /\ listening' = listening \ {r}
    /\ UNCHANGED <<manual, path, chmodded, signalled>>

Steps(r) ==
    \/ RemoveStale(r) \/ Listen(r) \/ Chmod(r) \/ CloseListener(r)
    \/ AcceptFails(r) \/ DeferredRemove(r) \/ DeferredClose(r)

Next ==
    \E r \in Runs : Start(r) \/ StartByHand(r) \/ Steps(r) \/ Signal(r) \/ Kill(r)

Spec == Init /\ [][Next]_vars

\* A run gets on with it, and the service manager restarts one that failed.
FailedLast == \E r \in Runs : pc[r] \in {"failed", "refused", "killed"}
FairSpec ==
    /\ Spec
    /\ \A r \in Runs : WF_vars(RemoveStale(r) \/ Listen(r) \/ Chmod(r)
                               \/ DeferredRemove(r) \/ DeferredClose(r))
    /\ WF_vars(FailedLast /\ \E r \in Runs : Start(r))

-----------------------------------------------------------------------------

\* The variables have the types their comments say.
TypeOK ==
    /\ pc \in [Runs -> {"off", "remove", "listen", "chmod", "serving", "unwind",
                        "unwind_error", "unwind_chmod", "close", "close_error",
                        "close_chmod"} \cup Over]
    /\ manual \subseteq Runs /\ path \in Runs \cup {Nobody}
    /\ listening \subseteq Runs /\ chmodded \subseteq Runs /\ signalled \subseteq Runs
    /\ failures \in 0 .. MaxFailures

\* Under a service manager, a broker that serves and was not told to stop can
\* be reached: the path names its own socket, with the mode the configuration
\* gives it.
ServingIsReachable ==
    \A r \in Runs : (pc[r] = "serving" /\ r \notin signalled /\ manual = {})
        => path = r /\ r \in listening /\ r \in chmodded

\* Brokers started over one another: while none of them stopped or failed after
\* it had bound the path, and none is starting, clients reach one, whichever
\* order they removed, bound and changed the mode in; a run that found the path
\* taken did no harm.
OneIsReachable ==
    (/\ Alive # {} /\ \A r \in Alive : pc[r] = "serving"
     /\ signalled = {} /\ \A r \in Runs : pc[r] \notin {"failed", "killed"})
    => path \in Alive /\ path \in listening /\ path \in chmodded

\* When no broker runs, a socket that is left is that of a run that was killed:
\* a run that ends by a signal, an accept error or a chmod error takes its own
\* away, and every start takes away what the killed runs before it left.
OnlyTheKilledLeaveSockets ==
    (Alive = {} /\ path # Nobody) => pc[path] = "killed"

\* However a run of the service ends by failure, the one after it comes up: no
\* leftover of a killed run keeps the next from binding the path.
ServiceComesBack ==
    FailedLast ~> \/ \E r \in Runs : pc[r] = "serving"
                  \/ signalled # {} \/ manual # {}

=============================================================================
