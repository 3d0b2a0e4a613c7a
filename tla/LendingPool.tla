---------------------------- MODULE LendingPool ----------------------------
(* BorrowLiquidityPool: balances scaled by two indexes, as operators on a pool's
   state. Interest is charged by Accrue; a view reads the indexes as stored. *)
EXTENDS Integers, Sequences, FiniteSets, FiniteSetsExt

CONSTANTS WAD, RAY, BaseRate, Slope1, Slope2, Kink, ReserveFactor

ASSUME ScalesAreUnits == {WAD, RAY} \subseteq Nat \ {0}
ASSUME CurveIsValid == {BaseRate, Slope1, Slope2} \subseteq Nat /\ Kink \in 1..WAD-1 /\ ReserveFactor \in 0..WAD-1

MulDiv(a, b, c) == (a * b) \div c
MulDivUp(a, b, c) == (a * b + c - 1) \div c
Lower(a, b) == IF a < b THEN a ELSE b

NewPool(users) ==
  [entries |-> "open", cash |-> 0, supplyIndex |-> RAY, borrowIndex |-> RAY, accruedAt |-> 0,
   supply |-> [u \in users |-> 0], totalSupplyScaled |-> 0,
   debt |-> [u \in users |-> 0], totalBorrowScaled |-> 0,
   reserves |-> 0, unsocialised |-> 0]

TotalSupplied(p) == MulDiv(p.totalSupplyScaled, p.supplyIndex, RAY)
TotalBorrowed(p) == MulDiv(p.totalBorrowScaled, p.borrowIndex, RAY)
BalanceOfSupply(p, u) == MulDiv(p.supply[u], p.supplyIndex, RAY)
BalanceOfDebt(p, u) == MulDiv(p.debt[u], p.borrowIndex, RAY)

Utilization(p) ==
  IF TotalBorrowed(p) = 0 THEN 0 ELSE MulDiv(TotalBorrowed(p), WAD, p.cash + TotalBorrowed(p))

\* The kinked curve.
BorrowRateAt(u) ==
  BaseRate + (IF u <= Kink THEN MulDiv(Slope1, u, Kink) ELSE Slope1 + MulDiv(Slope2, u - Kink, WAD - Kink))
SupplyRateAt(u) == MulDiv(MulDiv(BorrowRateAt(u), u, WAD), WAD - ReserveFactor, WAD)

\* accrue: both indexes at the rates of the utilization before it.
Accrue(p, now) ==
  LET borrowGrowth == BorrowRateAt(Utilization(p)) * (now - p.accruedAt)
      supplyGrowth == SupplyRateAt(Utilization(p)) * (now - p.accruedAt) IN
  [p EXCEPT !.accruedAt = now,
            !.reserves = @ + MulDiv(MulDiv(TotalBorrowed(p), borrowGrowth, WAD), ReserveFactor, WAD),
            !.borrowIndex = @ + MulDiv(@, borrowGrowth, WAD),
            !.supplyIndex = @ + MulDiv(@, supplyGrowth, WAD)]

\* The functions below are of a pool that has just accrued.

\* Its guardian may pause the pool's entries, apart from the vault's own pause.
CanSupply(p, a) == p.entries = "open" /\ a > 0
Supply(p, u, a) ==
  LET scaled == MulDiv(a, RAY, p.supplyIndex) IN
  [p EXCEPT !.supply[u] = @ + scaled, !.totalSupplyScaled = @ + scaled, !.cash = @ + a]

CanWithdraw(p, u, a) == a > 0 /\ a <= BalanceOfSupply(p, u) /\ a <= p.cash
Withdraw(p, u, a) ==
  LET scaled == Lower(MulDivUp(a, RAY, p.supplyIndex), p.supply[u]) IN
  [p EXCEPT !.supply[u] = @ - scaled, !.totalSupplyScaled = @ - scaled, !.cash = @ - a]

\* Mutant: a loan is not bounded by the cash.
LendsAnything(p, a) == p.entries = "open" /\ a > 0
CanBorrow(p, a) == p.entries = "open" /\ a > 0 /\ a <= p.cash
Borrow(p, u, a) ==
  LET scaled == MulDivUp(a, RAY, p.borrowIndex) IN
  [p EXCEPT !.debt[u] = @ + scaled, !.totalBorrowScaled = @ + scaled, !.cash = @ - a]

CanRepay(p, u, a) == a > 0 /\ a <= BalanceOfDebt(p, u)

\* What a repayment burns: all of it when it pays the balance, however it rounds.
Repaid(p, u, a) ==
  LET scaled == MulDiv(a, RAY, p.borrowIndex) IN
  IF a = BalanceOfDebt(p, u) \/ scaled >= p.debt[u] THEN p.debt[u] ELSE scaled
Repay(p, u, a) ==
  LET scaled == Repaid(p, u, a) IN
  [p EXCEPT !.debt[u] = @ - scaled, !.totalBorrowScaled = @ - scaled, !.cash = @ + a]

\* Mutant: what the reserves do not cover is nobody's loss.
SparesSuppliers(p, u) ==
  [p EXCEPT !.totalBorrowScaled = @ - p.debt[u], !.debt[u] = 0,
            !.reserves = @ - Lower(BalanceOfDebt(p, u), @)]

\* absorbBadDebt: reserves first, then every supplier's index, then the record.
Absorb(p, u) ==
  LET loss == BalanceOfDebt(p, u)
      fromReserves == Lower(loss, p.reserves)
      supplied == TotalSupplied(p)
      socialised == Lower(loss - fromReserves, supplied)
      next == IF socialised = 0 THEN p.supplyIndex ELSE MulDiv(p.supplyIndex, supplied - socialised, supplied) IN
  [p EXCEPT !.totalBorrowScaled = @ - p.debt[u], !.debt[u] = 0,
            !.reserves = @ - fromReserves,
            !.supplyIndex = IF next = 0 THEN 1 ELSE next,
            !.unsocialised = @ + (loss - fromReserves - socialised)]

\* Suppliers are senior: reserves leave only out of cash beyond every claim.
CanWithdrawReserves(p, a) == a > 0 /\ a <= p.reserves /\ a + TotalSupplied(p) <= p.cash
WithdrawReserves(p, a) == [p EXCEPT !.reserves = @ - a, !.cash = @ - a]

\* pauseEntries and unpauseEntries.
SwitchEntries(p) == [p EXCEPT !.entries = IF @ = "open" THEN "paused" ELSE "open"]

=============================================================================
