------------------------------ MODULE MCChainSync ------------------------------
(* Two transactions with four outputs of the contract, one of them paid to a   *)
(* nested address.  The outputs are found in an order that differs from the    *)
(* outpoints' own; two of them carry RGB assets.                               *)
EXTENDS ChainSync

Policy(i) == [kind |-> "policy", index |-> i]
Nested(i) == [kind |-> "nested", index |-> i]
Tweak(i)  == [kind |-> "tweak", index |-> i]

MCOutpoint == 1 .. 4
MCTxOf     == <<1, 2, 2, 2>>
MCScriptOf == <<Policy(1), Policy(0), Tweak(1), Nested(0)>>
MCValue    == <<5, 3, 1, 2>>
MCAmount   == <<<<7, 0>>, <<0, 0>>, <<2, 4>>, <<0, 0>>>>
MCTweaks   == {3}

(* Two outputs of two transactions, for the larger behaviours: blocks that are *)
(* replaced, and liveness.                                                     *)
PairOutpoint == 1 .. 2
PairTxOf     == <<1, 2>>
PairScriptOf == <<Policy(1), Policy(0)>>
PairValue    == <<5, 3>>
PairAmount   == <<<<7>>, <<0>>>>
=============================================================================
