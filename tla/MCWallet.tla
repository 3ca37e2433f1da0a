-------------------------------- MODULE MCWallet --------------------------------
(* One contract with two addresses in reach and one coin to begin with. *)
EXTENDS Wallet

MCFunds == {[tx |-> 0, index |-> 0, kind |-> "policy"]}
=============================================================================
