------------------------ MODULE MCCoordinatorCommit ------------------------
(* Small instances of CoordinatorCommit for TLC.                           *)
EXTENDS CoordinatorCommit

\* An empty batch, contracts, realm updates alone, and users with realm updates.
MCBatches == {{}, {"contract"}, {"guta"}, {"user", "guta"}}
MCGenesisParts == {"user", "guta"}
=============================================================================
