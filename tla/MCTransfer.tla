------------------------------- MODULE MCTransfer -------------------------------
(* Coins of different and of equal worth, two with and three without the asset; *)
(* amounts below, at and above what they add up to, and at the type's limit.    *)
EXTENDS Transfer

MCCoin    == 1 .. 5
MCSats    == <<5, 1, 7, 3, 3>>
MCAsset   == <<3, 2, 0, 0, 0>>
MCAmounts == {0, 2, 4, 6, 31}

(* One coin of each kind, for transfers that follow each other. *)
PairCoin  == 1 .. 2
PairSats  == <<3, 3>>
PairAsset == <<2, 0>>
=============================================================================
