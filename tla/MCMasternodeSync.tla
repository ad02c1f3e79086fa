-------------------------- MODULE MCMasternodeSync --------------------------
(* The first of two peers is too old; one item of each kind of data. *)
EXTENDS MasternodeSync, TLC

OldPeers == {1}
Items == {"x"}
=============================================================================
