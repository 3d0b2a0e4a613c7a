--------------------------- MODULE MCLendingDesk ---------------------------
(* Numbers of two and three digits: a rate of a few per cent a tick, so that two
   ticks stay within the margin and ten or twenty put a loan under water. *)
EXTENDS LendingDesk

McPages == {"stake", "borrow", "lend", "liquidate", "stocks", "stockLend", "portfolio"}

\* One poll on each page.
McPolls == [p \in McPages |-> 1]

\* No loan; a healthy one; one past the liquidation line, and the same under a price that
\* has fallen below it; one past the deposit.
McStarts ==
  {[loan |-> 0, age |-> 0, price |-> 105], [loan |-> 40, age |-> 0, price |-> 105],
   [loan |-> 58, age |-> 14, price |-> 105], [loan |-> 58, age |-> 14, price |-> 41],
   [loan |-> 58, age |-> 30, price |-> 105]}

\* The stock page alone, on a loan of 50 with its fee against tokens worth 170.
McStocksOnly == {"stocks"}
McOnePoll == [p \in McStocksOnly |-> 1]
McPledged == {[loan |-> 50, age |-> 0, price |-> 17]}

=============================================================================
