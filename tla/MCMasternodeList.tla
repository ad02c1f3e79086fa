-------------------------- MODULE MCMasternodeList --------------------------
(* The constants of MasternodeList are numbers the configuration gives.      *)
EXTENDS MasternodeList
=============================================================================
