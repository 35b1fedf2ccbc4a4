----------------------------- MODULE KeyringOpen ----------------------------
(***************************************************************************)
(* How a request comes by its token: OpenTokenStore, openKeyring and       *)
(* openKeyringWithTimeout of internal/auth/store.go, and the Load that     *)
(* follows it in gmailapi.New.                                             *)
(*                                                                         *)
(* Every request opens the keyring for itself.  With the system's keyring  *)
(* on Linux the opening is done by a helper goroutine, which hands its     *)
(* result over a channel with room for one, while the request waits for    *)
(* that or for 5 s; elsewhere the request opens it itself and waits as     *)
(* long as it takes.  The keyring is external: while it is stuck (locked,  *)
(* a prompt nobody answers, no Secret Service) it answers nothing.  A file *)
(* backend is never stuck.                                                 *)
(***************************************************************************)
EXTENDS Naturals, FiniteSets

CONSTANTS
    Openers,        \* the requests that need a token
    StoreConfigs,   \* the daemon's keyrings to consider
    MaxStalls       \* bound: how often the keyring gets stuck

\* auth_store.backend as the daemon holds it (none given means "system"),
\* whether the file backend's password is in the environment, and the
\* operating system, of those with a system keyring.
StoreConfig == [backend : {"system", "file"}, password : BOOLEAN,
                os : {"linux", "darwin"}]

ASSUME KeyringAssumption == StoreConfigs \subseteq StoreConfig /\ MaxStalls \in Nat

VARIABLES
    store,      \* the daemon's configuration: never changes
    stuck,      \* the keyring does not answer
    stalls,     \* how often it got stuck
    opener,     \* how far each request is
    helper,     \* its helper goroutine: at work, or about to send a result
    channel     \* the result in its channel

keyring == <<store, stuck, stalls, opener, helper, channel>>

Results == {"ring", "error"}

KeyringInit ==
    /\ store \in StoreConfigs /\ stuck \in BOOLEAN /\ stalls = 0
    /\ opener = [o \in Openers |-> "none"]
    /\ helper = [o \in Openers |-> "none"]
    /\ channel = [o \in Openers |-> "empty"]

\* The world around: the keyring gets stuck, or answers again.
KeyringStalls ==
    /\ ~stuck /\ stalls < MaxStalls
    /\ stuck' = TRUE /\ stalls' = stalls + 1
    /\ UNCHANGED <<store, opener, helper, channel>>

KeyringRecovers ==
    /\ stuck /\ stuck' = FALSE
    /\ UNCHANGED <<store, stalls, opener, helper, channel>>

Answers == store.backend = "file" \/ ~stuck

\* A mutant: the condition on the operating system is the wrong way round.
UsesTimeout_OffLinux == store.backend = "system" /\ store.os # "linux"

UsesTimeout == store.backend = "system" /\ store.os = "linux"

\* The request opens its store.  A file without its password is refused.
OpenTokenStore(o) ==
    /\ opener[o] = "none"
    /\ opener' = [opener EXCEPT ![o] = IF store.backend = "file" /\ ~store.password
                                       THEN "failed" ELSE "waiting"]
    /\ helper' = [helper EXCEPT ![o] = IF UsesTimeout THEN "opening" ELSE "none"]
    /\ UNCHANGED <<store, stuck, stalls, channel>>

Opened(result) == IF result = "ring" THEN "opened" ELSE "failed"

\* openKeyringFn in the request itself.
OpenHere(o) ==
    /\ opener[o] = "waiting" /\ ~UsesTimeout /\ Answers
    /\ \E result \in Results : opener' = [opener EXCEPT ![o] = Opened(result)]
    /\ UNCHANGED <<store, stuck, stalls, helper, channel>>

\* openKeyringFn in the helper.
HelperOpens(o) ==
    /\ helper[o] = "opening" /\ Answers
    /\ \E result \in Results : helper' = [helper EXCEPT ![o] = result]
    /\ UNCHANGED <<store, stuck, stalls, opener, channel>>

\* A mutant: a channel without room, over which only two can meet.
CanSend_Unbuffered(o) == channel[o] = "empty" /\ opener[o] = "waiting"

CanSend(o) == channel[o] = "empty"

HelperSends(o) ==
    /\ helper[o] \in Results /\ CanSend(o)
    /\ channel' = [channel EXCEPT ![o] = helper[o]]
    /\ helper' = [helper EXCEPT ![o] = "none"]
    /\ UNCHANGED <<store, stuck, stalls, opener>>

\* The select: when both are ready, either may be taken.
ReceiveRing(o) ==
    /\ opener[o] = "waiting" /\ channel[o] # "empty"
    /\ opener' = [opener EXCEPT ![o] = Opened(channel[o])]
    /\ channel' = [channel EXCEPT ![o] = "empty"]
    /\ UNCHANGED <<store, stuck, stalls, helper>>

OpenTimesOut(o) ==
    /\ opener[o] = "waiting" /\ UsesTimeout
    /\ opener' = [opener EXCEPT ![o] = "timedout"]
    /\ UNCHANGED <<store, stuck, stalls, helper, channel>>

\* Load asks the opened keyring for the record, and has no timeout at all.
LoadToken(o) ==
    /\ opener[o] = "opened" /\ Answers
    /\ \E outcome \in {"loaded", "failed"} : opener' = [opener EXCEPT ![o] = outcome]
    /\ UNCHANGED <<store, stuck, stalls, helper, channel>>

KeyringSteps(o) ==
    \/ OpenHere(o) \/ HelperOpens(o) \/ HelperSends(o)
    \/ ReceiveRing(o) \/ OpenTimesOut(o) \/ LoadToken(o)

\* Goroutines and timers run; nothing is assumed of the keyring.
KeyringFair ==
    \A o \in Openers :
        /\ WF_keyring(OpenHere(o)) /\ WF_keyring(HelperOpens(o)) /\ WF_keyring(HelperSends(o))
        /\ WF_keyring(ReceiveRing(o) \/ OpenTimesOut(o)) /\ WF_keyring(LoadToken(o))

-----------------------------------------------------------------------------
KeyringType ==
    /\ store \in StoreConfigs /\ stuck \in BOOLEAN /\ stalls \in 0 .. MaxStalls
    /\ opener \in [Openers -> {"none", "waiting", "opened", "loaded", "failed", "timedout"}]
    /\ helper \in [Openers -> {"none", "opening"} \cup Results]
    /\ channel \in [Openers -> {"empty"} \cup Results]

\* On Linux no request waits for ever for the keyring to open, though it never
\* answers and though other requests wait for it, too (store.go,
\* keyringOpenTimeout).
EveryOpenReturns ==
    \A o \in Openers :
        (opener[o] = "waiting" /\ store.os = "linux") ~> (opener[o] # "waiting")

\* What a stuck keyring leaves behind is over once it answers again: the helper
\* of a request that gave up finds room for a result nobody receives, and a
\* request that was stuck in Load, which has no timeout, goes on.
Leftover(o) == helper[o] # "none" \/ opener[o] = "opened"
LeftoversEnd ==
    (<>[]~stuck) => \A o \in Openers : Leftover(o) ~> ~Leftover(o)

=============================================================================
