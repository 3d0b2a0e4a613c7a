---------------------------- MODULE MCEventMarket ----------------------------
(***************************************************************************)
(* EventMarket on a small instance: one round, two reporters of whom one   *)
(* holds a position on both sides, and two candidates for arbiter.         *)
(***************************************************************************)
EXTENDS EventMarket

CONSTANTS user1, user2, owner, committee1, committee2

MCUsers == {user1, user2}
MCTreasuries == {owner}
MCArbiters == {committee1, committee2}
MCAccounts == MCUsers \cup MCTreasuries \cup {Market, Question}
MCFunding == [a \in MCAccounts |-> CASE a = user1 -> 5 [] a = user2 -> 4 [] OTHER -> 0]
=============================================================================
