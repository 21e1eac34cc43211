---------------------------- MODULE MCMessageSync ----------------------------
(* MessageSync on small instances: one active conversation and one or two   *)
(* that rotate.                                                             *)
EXTENDS MessageSync, TLC

CONSTANTS t1, t2, t3

OneTxn == {t1}
OneListed == <<t1>>
TwoTxns == {t1, t2}
TwoListed == <<t1, t2>>
ThreeTxns == {t1, t2, t3}
ThreeListed == <<t2, t1, t3>>
FirstActive == {t1}
=============================================================================
