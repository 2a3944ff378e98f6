---------------------------- MODULE MCTransfers ----------------------------
(* Instances of Transfers for TLC.                                         *)
EXTENDS Transfers, TLC

\* A fungible token from the configuration, and a non-fungible one of nearly its name, at
\* another address, that is added to the table.
Coin == [name |-> "Coin", address |-> "A", type |-> "FT"]
CoiN == [name |-> "CoiN", address |-> "B", type |-> "NFT"]

MCAlike == {"Coin", "CoiN"} \X {"Coin", "CoiN"}

\* All to an account that is on the watch list now and then.
MCRequested == ("w1" :> [to |-> "in", name |-> "Coin"]) @@ ("w2" :> [to |-> "in", name |-> "CoiN"])
MCOutside == ("o1" :> [to |-> "in", contract |-> Coin, times |-> 2, raw |-> FALSE])
             @@ ("o2" :> [to |-> "in", contract |-> CoiN, times |-> 1, raw |-> TRUE])
MCSetUp == {<<"in", "Coin">>}
MCContracts == {Coin, CoiN}
MCEnabled == {Coin}
MCAdded == {CoiN}
MCInitTokens == <<>>

Symmetry == Permutations(Threads)
=============================================================================
