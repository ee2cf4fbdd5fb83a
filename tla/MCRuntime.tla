------------------------------ MODULE MCRuntime ------------------------------
(* XodeRuntime with a genesis validator g and a candidate x, who may delegate
   to both; the freezer's calls come from Root.                            *)
EXTENDS XodeRuntime

CONSTANTS g, x

GenesisValidators == <<g>>

RootOnly == {[root |-> TRUE, ayes |-> 0, seats |-> 0]}
=============================================================================
