-------------------------- MODULE MCProviderExecution --------------------------
(* Instances of ProviderExecution for TLC.                                 *)
EXTENDS ProviderExecution

\* A success may come without its results.
ResultsMissing == {"missing"}
=============================================================================
