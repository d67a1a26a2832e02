------------------------------ MODULE MCEngine ------------------------------
(* Bounded instances of Engine for TLC; the .cfg files choose among them.  *)
EXTENDS EngineClaims, PolicyDefaults
=============================================================================
