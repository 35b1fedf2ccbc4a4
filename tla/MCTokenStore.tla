---------------------------- MODULE MCTokenStore ----------------------------
(***************************************************************************)
(* Names for the requests, login runs and tokens that TokenStore's runs    *)
(* instantiate.                                                            *)
(***************************************************************************)
EXTENDS TokenStore, TLC

CONSTANTS r1, r2, l1, l2, first, blank

=============================================================================
