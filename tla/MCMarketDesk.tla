----------------------------- MODULE MCMarketDesk -----------------------------
(***************************************************************************)
(* MarketDesk on a small instance: one round, one holder who may fill both *)
(* sides, a feed that may publish late, twice at once or skip an id.       *)
(***************************************************************************)
EXTENDS MarketDesk

CONSTANTS user1, owner, stranger

MCUsers == {user1}
MCTreasuries == {owner}
MCAccounts == MCUsers \cup MCTreasuries \cup {Market}
MCScheduled ==
  {[openTime |-> o, lockTime |-> 3, closeTime |-> 4] : o \in {0, 1}}
MCFilled == {[side \in Sides |-> 5]}
MCStaked == MCFilled \cup {[side \in Sides |-> IF side = "Up" THEN 5 ELSE 0]}
MCFunding == [a \in MCAccounts |-> IF a \in MCUsers THEN 10 ELSE 0]
=============================================================================
