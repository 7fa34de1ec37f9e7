------------------------ MODULE MCCoordinatorRunner ------------------------
(* A small instance of CoordinatorRunner for TLC: the GUTA, the register   *)
(* users and the deploy contracts gatherer.                                *)
EXTENDS CoordinatorRunner

MCGatherers == {"guta", "register_users", "deploy_contracts"}
=============================================================================
