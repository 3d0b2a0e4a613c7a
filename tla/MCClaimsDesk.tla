----------------------------- MODULE MCClaimsDesk -----------------------------
EXTENDS ClaimsDesk

MCRounds == 1..3
\* An old win, a recent one entered on both sides, and a round still running.
MCMine == <<[up |-> 2, down |-> 0], [up |-> 1, down |-> 2], [up |-> 4, down |-> 0]>>
MCOthers == <<[up |-> 0, down |-> 3], [up |-> 3, down |-> 2], [up |-> 0, down |-> 4]>>
\* As MCMine, with most of the second round's stake on the side that loses.
MCHedged == <<[up |-> 2, down |-> 0], [up |-> 3, down |-> 1], [up |-> 4, down |-> 0]>>
MCResults == <<{}, {}, {"up", "down", "void"}>>
MCBefore == <<[kind |-> "settled", round |-> 1, result |-> "up"],
              [kind |-> "paid", round |-> 1, by |-> "other"],
              [kind |-> "settled", round |-> 2, result |-> "down"]>>
MCBands == {"safe", "danger"}
===============================================================================
