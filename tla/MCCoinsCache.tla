---------------------------- MODULE MCCoinsCache ----------------------------
(* Two transactions of two outputs each, two block hashes. *)
EXTENDS CoinsCache, TLC

CONSTANTS x, y, h1, h2

MCTxId == {x, y}
MCOutput == {0, 1}
MCHash == {h1, h2}
=============================================================================
