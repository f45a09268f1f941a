------------------------------ MODULE MCWallet ------------------------------
(* Small instances of Wallet for TLC.                                      *)
EXTENDS Wallet, TLC

\* Every deposit pays two units to user 1 and can be mined in any block.
MCOwner == [d \in Deposits |-> 1]
MCMinedIn == [d \in Deposits |-> Blocks]
MCDepositAmount == [d \in Deposits |-> 2]

\* Ids and keys are only ever compared for equality.
MCSymmetry == Permutations(TransferIds \ ForeignIds) \cup Permutations(Keys)
=============================================================================
