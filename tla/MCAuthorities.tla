---------------------------- MODULE MCAuthorities ----------------------------
(* Authorities on small instances: g is the genesis validator, x a
   candidate.                                                              *)
EXTENDS Authorities

CONSTANTS g, x

GenesisValidators == <<g>>
=============================================================================
