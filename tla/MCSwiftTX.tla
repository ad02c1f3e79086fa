----------------------------- MODULE MCSwiftTX -----------------------------
(* Two transactions that share an input (the second also spends another) and *)
(* two masternodes, both needed; or one transaction, three masternodes and   *)
(* votes for the wrong height.                                               *)
EXTENDS SwiftTX, TLC

CONSTANTS t1, t2, o1, o2, m1, m2, m3

TwoTx == {t1, t2}
OneTx == {t1}
TwoVin == (t1 :> {o1}) @@ (t2 :> {o1, o2})
OneVin == t1 :> {o1}
MCOutpoint == {o1, o2}
TwoMasternodes == {m1, m2}
ThreeMasternodes == {m1, m2, m3}
MCSelf == {m1}
OneHeight == {1}
TwoHeights == {1, 2}
AnyHeight == {0, 1, 2}
=============================================================================
