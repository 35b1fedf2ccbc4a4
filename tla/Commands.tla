------------------------------ MODULE Commands ------------------------------
(***************************************************************************)
(* Command lines and the broker's keyring: each command's request opens    *)
(* the keyring of the daemon, except system.ping and system.info, which    *)
(* dispatch answers without it.  What else a handler does is reduced to    *)
(* whether its answer is an error; MessageSearch, ThreadSearch and         *)
(* ReadHandlers are about that.  A handler goes on when its client is gone.*)
(***************************************************************************)
EXTENDS ClientCommand, KeyringOpen

ASSUME OpenersAssumption == Openers = Processes

vars == <<command, keyring>>

Init == CommandInit /\ KeyringInit

NeedsToken(p) == inv[p].command # "system"

\* The request arrived and opens its runtime.
Serve(p) ==
    /\ reply[p] = "pending" /\ NeedsToken(p)
    /\ OpenTokenStore(p)
    /\ UNCHANGED command

\* The peer or the request is refused, or the policy or the OAuth client does not
\* load, before the keyring is opened; it cannot be opened; or the handler did
\* what it was asked or did not.
AnswersOf(p) ==
    IF ~NeedsToken(p) THEN {"ok", "error"}
    ELSE IF opener[p] = "loaded" THEN {"ok", "error"}
    ELSE IF opener[p] \in {"none", "failed", "timedout"} THEN {"error"} ELSE {}

Respond(p) ==
    /\ reply[p] = "pending"
    /\ \E answer \in AnswersOf(p) : reply' = [reply EXCEPT ![p] = answer]
    /\ UNCHANGED <<pc, inv, code, temp, target, keyring>>

Next ==
    \/ \E p \in Processes :
          \/ (CommandSteps(p) \/ Dial(p)) /\ UNCHANGED keyring
          \/ Serve(p) \/ Respond(p)
          \/ KeyringSteps(p) /\ UNCHANGED command
    \/ (KeyringStalls \/ KeyringRecovers) /\ UNCHANGED command

Spec == Init /\ [][Next]_vars

\* A process that runs takes its steps, and so do goroutines and timers; the
\* broker need not answer, nor the keyring.
FairSpec ==
    /\ Spec
    /\ \A p \in Processes : WF_command(OwnSteps(p))
    /\ KeyringFair

-----------------------------------------------------------------------------
\* The variables have the types their comments say.
TypeOK == CommandType /\ KeyringType

\* The exit status tells what was done: 2 means that the broker was not even
\* asked, and neither 1 nor 2 leaves this command's attachment at --output; 0
\* means that the broker's answer was good and, when an attachment was to be
\* written, that there is a command's file, this one's unless another replaced
\* it.
StatusIsTruthful ==
    \A p \in Processes :
        pc[p] = "exited" =>
            /\ code[p] = 2 => reply[p] = "none" /\ opener[p] = "none"
            /\ code[p] # 0 => \A path \in Paths : target[path].by # p
            /\ code[p] = 0 =>
                  /\ reply[p] = "ok" /\ (NeedsToken(p) => opener[p] = "loaded")
                  /\ WritesFile(inv[p]) => target[Output(p)].by # Nothing

\* A command ends, whatever becomes of the daemon and of its keyring: rpc.Call's
\* deadline ends it when the handler is stuck in a Load that has none.  The one
\* exception reads its draft from a standard input that is never closed.
EveryCommandExits ==
    \A p \in Processes :
        (pc[p] = "usage" /\ ~(inv[p].command \in Drafts /\ inv[p].body = "stdin"))
            ~> Over(p)

=============================================================================
