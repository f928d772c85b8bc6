----------------------------- MODULE MCExchange -----------------------------
(***************************************************************************)
(* MessageExchange for model checking.                                     *)
(***************************************************************************)
EXTENDS MessageExchange, TLC

\* Clients differ only in the order in which they act. Not for liveness.
ClientSymmetry == Permutations(Clients)
=============================================================================
