---------------------------- MODULE MCPriceMarket ----------------------------
(***************************************************************************)
(* PriceMarket on a small instance: one round, one stake a side, and a     *)
(* feed that may publish before, at and after the close.                   *)
(***************************************************************************)
EXTENDS PriceMarket

CONSTANTS user1, owner

MCUsers == {user1}
MCTreasuries == {owner}
MCAccounts == MCUsers \cup MCTreasuries \cup {Market}
MCFunding == [a \in MCAccounts |-> IF a \in MCUsers THEN 10 ELSE 0]
=============================================================================
