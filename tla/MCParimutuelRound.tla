-------------------------- MODULE MCParimutuelRound --------------------------
(***************************************************************************)
(* ParimutuelRound on a small instance: two rounds, a rake of a tenth,     *)
(* stakes that do not divide evenly, and a floor the smaller stake misses  *)
(* by one.  One holder has tokens for both sides, the other stakes on      *)
(* credit alone.                                                           *)
(***************************************************************************)
EXTENDS ParimutuelRound

CONSTANTS user1, user2, router, owner, guardian

MCUsers == {user1, user2}
MCRouters == {router}
MCTreasuries == {owner}
MCGuardians == {guardian}
MCAccounts == MCUsers \cup MCRouters \cup MCTreasuries \cup {Market}
MCFunding == [a \in MCAccounts |-> CASE a = user1 -> 11 [] a = router -> 7 [] OTHER -> 0]
=============================================================================
