------------------------------- MODULE MCGateway -------------------------------
(***************************************************************************)
(* Two calls to any two routes.                                            *)
(***************************************************************************)
EXTENDS Gateway

=============================================================================
