----------------------------- MODULE MCCommands -----------------------------
(***************************************************************************)
(* Two commands and four keyrings for checking Commands.                   *)
(***************************************************************************)
EXTENDS Commands, TLC

CONSTANTS p1, p2, path

Line(cmd) == [command |-> cmd, wellFormed |-> TRUE, json |-> FALSE, socket |-> TRUE,
              output |-> NoPath, body |-> "text", recipients |-> TRUE, targets |-> 1]

Download == [Line("attachment") EXCEPT !.output = path]

\* Downloads to one file and as JSON; a ping; drafts with
\* their text in a flag, in a file and on standard input; what is refused early.
MCInvocations ==
    { Download, [Download EXCEPT !.json = TRUE], Line("system"),
      [Line("drafts reply") EXCEPT !.body = "stdin"],
      [Line("drafts create") EXCEPT !.body = "file", !.recipients = FALSE],
      [Line("drafts create") EXCEPT !.body = "both"],
      [Line("drafts reply") EXCEPT !.targets = 2] }

\* The system's keyring on Linux and on macOS, and a file with and without password.
MCStoreConfigs ==
    { [backend |-> "system", password |-> FALSE, os |-> "linux"],
      [backend |-> "system", password |-> FALSE, os |-> "darwin"],
      [backend |-> "file", password |-> TRUE, os |-> "linux"],
      [backend |-> "file", password |-> FALSE, os |-> "linux"] }

=============================================================================
