------------------------------ MODULE MCNonces ------------------------------
(***************************************************************************)
(* Two processes, each started twice at most, and two chains.              *)
(***************************************************************************)
EXTENDS Nonces
=============================================================================
