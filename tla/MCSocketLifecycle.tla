-------------------------- MODULE MCSocketLifecycle -------------------------
(***************************************************************************)
(* Names for the runs of the broker that SocketLifecycle's runs            *)
(* instantiate.                                                            *)
(***************************************************************************)
EXTENDS SocketLifecycle, TLC

CONSTANTS first, second, third, nobody

=============================================================================
