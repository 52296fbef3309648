------------------------------- MODULE MCPure -------------------------------
(***************************************************************************)
(* One run for all pure functions: as x runs through the inputs, each      *)
(* module looks at those that are in the domain of its functions.          *)
(***************************************************************************)
EXTENDS BitTricks, HashFunctions, HashMixing

=============================================================================
