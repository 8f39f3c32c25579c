---------------------------- MODULE MCLoadDriver ----------------------------
(* Instances of LoadDriver for TLC; the values are in the configurations.   *)
EXTENDS LoadDriver
=============================================================================
