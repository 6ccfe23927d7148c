------------------------- MODULE MCEndpointLifecycle -------------------------
(* Instances of EndpointLifecycle for TLC; every constant is set in a .cfg.  *)
EXTENDS EndpointLifecycle
=============================================================================
