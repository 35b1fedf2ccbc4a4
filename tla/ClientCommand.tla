---------------------------- MODULE ClientCommand ---------------------------
(***************************************************************************)
(* The command line of cmd/safe-gmail/main.go: what each subcommand checks *)
(* before it calls the broker, what it does with the answer, the file it   *)
(* may write, and the status it exits with.                                *)
(*                                                                         *)
(* Processes run side by side and may be killed at any step.  A command    *)
(* line is reduced to what the code asks of it.  Files are complete,       *)
(* partial or empty; os.Remove of an own temporary file works, no two      *)
(* running processes are given the same temporary name, and the machine    *)
(* itself does not crash (nothing is synced before the rename).  How the   *)
(* answer comes about is left to the module that composes this one with a  *)
(* broker: it moves reply.                                                 *)
(***************************************************************************)
EXTENDS Naturals, FiniteSets

CONSTANTS
    Processes,
    Paths, NoPath,  \* where attachments are written; without --output
    Nothing,        \* no file at a path, or one that was there before
    Invocations     \* the command lines that are run

Commands == {"system", "labels", "search", "thread search", "get", "thread get",
             "attachment", "drafts create", "drafts reply"}

\* targets counts --message-id and --thread-id; wellFormed is that the flags
\* parse and the arguments are as many as the command takes, none of them a
\* flag after the query.
Invocation == [command : Commands, wellFormed : BOOLEAN, json : BOOLEAN,
               socket : BOOLEAN, output : Paths \cup {NoPath},
               body : {"text", "file", "stdin", "both"},
               recipients : BOOLEAN, targets : 0 .. 2]

ASSUME CommandAssumption ==
    /\ Invocations \subseteq Invocation /\ NoPath \notin Paths
    /\ Nothing \notin Processes

VARIABLES
    pc,         \* how far each process is
    inv,        \* its command line
    reply,      \* what became of its call
    code,       \* its exit status
    temp,       \* the temporary file it created
    target      \* the file at each path: whose content, and how much of it

command == <<pc, inv, reply, code, temp, target>>

Stages == {"usage", "body", "check", "call", "waiting", "create",
           "write", "close", "rename", "remove", "exited", "killed"}

\* "pending" until the broker answers; "io" when it never will.
Replies == {"none", "pending", "ok", "error", "io"}

File == [by : Processes \cup {Nothing}, whole : BOOLEAN]
NoFile == [by |-> Nothing, whole |-> TRUE]

CommandInit ==
    /\ pc = [p \in Processes |-> "usage"]
    /\ inv \in [Processes -> Invocations]
    /\ reply = [p \in Processes |-> "none"]
    /\ code = [p \in Processes |-> 0]
    /\ temp = [p \in Processes |-> "none"]
    /\ target = [path \in Paths |-> NoFile]

Go(p, stage) == pc' = [pc EXCEPT ![p] = stage]
Exit(p, status) == Go(p, "exited") /\ code' = [code EXCEPT ![p] = status]

(***************************************************************************)
(* Before the call: what is wrong with the command line is status 2.       *)
(***************************************************************************)
Drafts == {"drafts create", "drafts reply"}

UsageIsRight(i) ==
    i.wellFormed /\ (i.command = "drafts reply" => i.targets = 1)

CheckUsage(p) ==
    /\ pc[p] = "usage"
    /\ IF UsageIsRight(inv[p]) THEN Go(p, "body") /\ UNCHANGED code ELSE Exit(p, 2)
    /\ UNCHANGED <<inv, reply, temp, target>>

\* readBodyFlag: a file is read at once, standard input until it ends.
ReadsBody(p) == inv[p].command \in Drafts /\ inv[p].body \in {"file", "stdin"}

BodyIsThere(p) ==
    /\ pc[p] = "body"
    /\ IF inv[p].command \in Drafts /\ inv[p].body = "both"
       THEN Exit(p, 2) ELSE Go(p, "check") /\ UNCHANGED code
    /\ UNCHANGED <<inv, reply, temp, target>>

BodyFails(p) ==
    /\ pc[p] = "body" /\ ReadsBody(p)
    /\ Exit(p, 2)
    /\ UNCHANGED <<inv, reply, temp, target>>

\* What is looked at after the body: the recipients of a new draft, the socket.
Callable(i) == i.socket /\ (i.command = "drafts create" => i.recipients)

CheckCall(p) ==
    /\ pc[p] = "check"
    /\ IF Callable(inv[p]) THEN Go(p, "call") /\ UNCHANGED code ELSE Exit(p, 2)
    /\ UNCHANGED <<inv, reply, temp, target>>

(***************************************************************************)
(* rpc.Call, and what is made of its answer.                               *)
(***************************************************************************)
Dial(p) ==
    /\ pc[p] = "call"
    /\ Go(p, "waiting") /\ reply' = [reply EXCEPT ![p] = "pending"]
    /\ UNCHANGED <<inv, code, temp, target>>

\* Nobody listens at the socket, or the connection breaks before an answer.
CallFails(p) ==
    /\ pc[p] \in {"call", "waiting"} /\ reply[p] \in {"none", "pending"}
    /\ reply' = [reply EXCEPT ![p] = "io"]
    /\ Exit(p, 1)
    /\ UNCHANGED <<inv, temp, target>>

\* A mutant: no deadline is set on the connection.
Expires_Never(p) == FALSE

\* Call sets a deadline of 15 s on the connection.
Expires(p) == pc[p] = "waiting" /\ reply[p] = "pending"

CallTimesOut(p) ==
    /\ Expires(p)
    /\ reply' = [reply EXCEPT ![p] = "io"]
    /\ Exit(p, 1)
    /\ UNCHANGED <<inv, temp, target>>

\* With --json the answer is printed as it is, and --output is not looked at.
WritesFile(i) == i.command = "attachment" /\ i.output # NoPath /\ ~i.json

\* Printed as JSON or as lines, or written to a file.  Printing an attachment's
\* bytes or JSON may fail.
Receive(p) ==
    /\ pc[p] = "waiting" /\ reply[p] \in {"ok", "error"}
    /\ IF reply[p] = "ok" /\ WritesFile(inv[p])
       THEN Go(p, "create") /\ UNCHANGED code
       ELSE \/ Exit(p, IF reply[p] = "ok" THEN 0 ELSE 1)
            \/ (inv[p].json \/ inv[p].command = "attachment") /\ Exit(p, 1)
    /\ UNCHANGED <<inv, reply, temp, target>>

(***************************************************************************)
(* writeFileAtomic: each call may fail, and the deferred Remove follows.   *)
(***************************************************************************)
Output(p) == inv[p].output

\* The directory is made if need be, and in it a file of a name nobody has.
CreateTemp(p) ==
    /\ pc[p] = "create"
    /\ \/ /\ temp' = [temp EXCEPT ![p] = "empty"] /\ Go(p, "write")
          /\ UNCHANGED code
       \/ (Exit(p, 1) /\ UNCHANGED temp)
    /\ UNCHANGED <<inv, reply, target>>

\* A mutant: a short write is not noticed.
AfterShortWrite_Close == "close"

AfterShortWrite == "remove"

\* Failing is noted in code, which a successful rename leaves 0.
Write(p) ==
    /\ pc[p] = "write"
    /\ \/ /\ temp' = [temp EXCEPT ![p] = "whole"] /\ Go(p, "close")
          /\ UNCHANGED code
       \/ /\ temp' = [temp EXCEPT ![p] = "part"] /\ Go(p, AfterShortWrite)
          /\ code' = [code EXCEPT ![p] = IF AfterShortWrite = "remove" THEN 1 ELSE 0]
    /\ UNCHANGED <<inv, reply, target>>

\* A mutant: the error is dropped.
Fail_Silent(p) == Go(p, "remove") /\ UNCHANGED code

Fail(p) == Go(p, "remove") /\ code' = [code EXCEPT ![p] = 1]

Close(p) ==
    /\ pc[p] = "close"
    /\ (Go(p, "rename") /\ UNCHANGED code) \/ Fail(p)
    /\ UNCHANGED <<inv, reply, temp, target>>

Rename(p) ==
    /\ pc[p] = "rename"
    /\ \/ /\ target' = [target EXCEPT ![Output(p)] = [by |-> p, whole |-> temp[p] = "whole"]]
          /\ temp' = [temp EXCEPT ![p] = "none"]
          /\ Go(p, "remove") /\ UNCHANGED code
       \/ (Fail(p) /\ UNCHANGED <<temp, target>>)
    /\ UNCHANGED <<inv, reply>>

\* A mutant: the temporary file is only removed where writing it failed.
Removed_UnlessWhole(p) == IF temp[p] = "whole" THEN "whole" ELSE "none"

Removed(p) == "none"

Remove(p) ==
    /\ pc[p] = "remove"
    /\ temp' = [temp EXCEPT ![p] = Removed(p)]
    /\ Exit(p, code[p])
    /\ UNCHANGED <<inv, reply, target>>

Kill(p) ==
    /\ pc[p] \notin {"exited", "killed"}
    /\ Go(p, "killed")
    /\ UNCHANGED <<inv, reply, code, temp, target>>

Over(p) == pc[p] \in {"exited", "killed"}

\* The steps a process takes by itself; reading standard input may take for ever.
OwnSteps(p) ==
    \/ CheckUsage(p) \/ (inv[p].body # "stdin" /\ BodyIsThere(p)) \/ CheckCall(p)
    \/ Dial(p) \/ CallTimesOut(p) \/ Receive(p)
    \/ CreateTemp(p) \/ Write(p) \/ Close(p) \/ Rename(p) \/ Remove(p)

CommandSteps(p) ==
    \/ CheckUsage(p) \/ BodyIsThere(p) \/ BodyFails(p) \/ CheckCall(p)
    \/ CallFails(p) \/ CallTimesOut(p) \/ Receive(p)
    \/ CreateTemp(p) \/ Write(p) \/ Close(p) \/ Rename(p) \/ Remove(p)
    \/ Kill(p)

-----------------------------------------------------------------------------
CommandType ==
    /\ pc \in [Processes -> Stages] /\ inv \in [Processes -> Invocations]
    /\ reply \in [Processes -> Replies] /\ code \in [Processes -> 0 .. 2]
    /\ temp \in [Processes -> {"none", "empty", "part", "whole"}]
    /\ target \in [Paths -> File]

\* Whoever looks at an output path, while commands write it side by side, fail
\* or are killed at any step, finds a whole file: the one that was there or
\* that of one of the commands (writeFileAtomic).
TargetIsWhole == \A path \in Paths : target[path].whole

\* A command that came to its end, well or not, left no temporary file beside
\* the target, and so there never are more of them than killed and running ones.
TempsAreRemoved == \A p \in Processes : pc[p] = "exited" => temp[p] = "none"

=============================================================================
