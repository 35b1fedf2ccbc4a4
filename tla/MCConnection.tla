---------------------------- MODULE MCConnection ----------------------------
(***************************************************************************)
(* Small sets of clients for checking Connection.  A tick is 7.5 s: the    *)
(* client's patience and the read and write deadlines are two ticks, the   *)
(* dispatch deadline four.                                                 *)
(***************************************************************************)
EXTENDS Connection, TLC

CONSTANTS cli, other, stranger

\* The repository's client, twice; and a process of another user, once.
CliAndStranger == [c \in Clients |-> IF c = cli THEN 2 ELSE 1]

\* The repository's client gives up after 15 s; another reader never does.
OwnPatience == [c \in Clients |-> IF c = other THEN 0 ELSE 2]

OneCall == [c \in Clients |-> 1]

=============================================================================
