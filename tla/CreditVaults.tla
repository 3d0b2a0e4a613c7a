---------------------------- MODULE CreditVaults ----------------------------
(* The two lenders over the pool: CollateralVault (a staked deposit backs a loan,
   the router's settlements repay it) and StockLoanVault (priced tokens back it).
   Operators on the chain's state: the pool, what each account deposited, its
   wallet, the allowances, the prices and the clock. A share of the vault is
   worth one asset: nobody donates to it. A token's uiMultiplier is taken as 1:
   no split happens, and the rounding of its product is left out. *)
EXTENDS LendingPool

CONSTANTS MaxLTV, LiquidationThreshold, LiquidationBonus, CloseFactor, YieldRate,
          Tokens,            \* the stock vault's collaterals
          TokenUnit,         \* 10^decimals of every token
          FeedScale,         \* a price's decimals beyond the stablecoin's
          NoDebt,            \* type(uint256).max, the health of an account that owes nothing
          OriginationFee, ProtocolShare, MaxAge, LiquidationMaxAge

\* What both constructors enforce, and a loan to value that lends something: StockLoanVault
\* refuses 0 as well, and a bonus the threshold leaves no room for, which nothing here needs.
ASSUME RiskIsValid ==
  0 < MaxLTV /\ MaxLTV < LiquidationThreshold /\ LiquidationThreshold < WAD /\ CloseFactor \in 1..WAD /\ LiquidationBonus < WAD
ASSUME AgesAreOrdered == {MaxAge, LiquidationMaxAge} \subseteq Nat /\ MaxAge <= LiquidationMaxAge
ASSUME RatesAreShares ==
  {MaxLTV, LiquidationThreshold, LiquidationBonus, CloseFactor, YieldRate, OriginationFee, ProtocolShare} \subseteq Nat
ASSUME HealthIsDecimal == NoDebt \in Nat /\ 2 * WAD <= NoDebt /\ WAD % 10 = 0
ASSUME TokensAreListed == IsFiniteSet(Tokens) /\ {TokenUnit, FeedScale} \subseteq Nat \ {0}

FullLiquidationThreshold == MulDiv(LiquidationThreshold, WAD + LiquidationBonus, WAD)

Accrued(c) == [c EXCEPT !.pool = Accrue(@, c.now)]
LienOf(c, u) == BalanceOfDebt(c.pool, u)
EffectiveCloseFactor(hf) == IF hf < FullLiquidationThreshold THEN WAD ELSE CloseFactor

\* An ERC-20 transferFrom by a contract the account has allowed, a limit apart.
CanPull(c, u, spender, a) == a <= c.wallet[u] /\ a <= c.allowed[u][spender]
Pull(c, u, spender, a) == [c EXCEPT !.wallet[u] = @ - a, !.allowed[u][spender] = @ - a]

-----------------------------------------------------------------------------
\* CollateralVault. The ledger beside the shares: principal, banked yield, since when.

AccruedYield(c, u) == MulDiv(c.position[u].principal, YieldRate * (c.now - c.position[u].since), WAD)
TotalLedgerValue(c, u) == c.position[u].principal + c.position[u].settled + AccruedYield(c, u)
CollateralValue(c, u) == Lower(TotalLedgerValue(c, u), c.shares[u])
Settle(c, u) ==
  [c EXCEPT !.position[u].settled = @ + AccruedYield(c, u), !.position[u].since = c.now]

HealthFactor(c, u) ==
  IF LienOf(c, u) = 0 THEN NoDebt ELSE MulDiv(CollateralValue(c, u), LiquidationThreshold, LienOf(c, u))
MaxBorrowable(c, u) ==
  LET ceiling == MulDiv(CollateralValue(c, u), MaxLTV, WAD) IN
  IF ceiling > LienOf(c, u) THEN ceiling - LienOf(c, u) ELSE 0

\* Mutant: shares burn and the ledger stays.
BurnsWithoutLedger(c, u, shares) == [c EXCEPT !.shares[u] = @ - shares]

\* _burn with _reducePositionProRata: the ledger shrinks with the shares.
Burn(c, u, shares) ==
  LET held == c.shares[u]
      left == c.position[u] IN
  [c EXCEPT !.shares[u] = @ - shares,
            !.position[u] = IF shares >= held THEN [left EXCEPT !.principal = 0, !.settled = 0]
                            ELSE [left EXCEPT !.principal = @ - MulDiv(@, shares, held),
                                              !.settled = @ - MulDiv(@, shares, held)]]

CanDeposit(c, u, a) == ~c.paused /\ CanPull(c, u, "vault", a)
Deposit(c, u, a) ==
  [Pull(Settle(c, u), u, "vault", a) EXCEPT !.shares[u] = @ + a, !.position[u].principal = @ + a]

\* _withdraw: free without a lien; with one, everything or nothing, the lien repaid on the way.
CanVaultWithdraw(c, u, a) ==
  LET lien == LienOf(Accrued(c), u) IN
  /\ a <= c.shares[u]
  /\ lien > 0 => a = c.shares[u] /\ a >= lien
VaultWithdraw(c, u, a) ==
  LET d == Burn(Settle(IF LienOf(c, u) > 0 THEN Accrued(c) ELSE c, u), u, a)
      lien == LienOf(d, u) IN
  [d EXCEPT !.wallet[u] = @ + (a - lien), !.pool = IF lien > 0 THEN Repay(@, u, lien) ELSE @]

CanVaultBorrow(c, u, a) ==
  LET d == Accrued(Settle(c, u)) IN
  /\ ~c.paused
  /\ LienOf(d, u) + a <= MulDiv(CollateralValue(d, u), MaxLTV, WAD)
  /\ CanBorrow(d.pool, a)
VaultBorrow(c, u, a) ==
  [Accrued(Settle(c, u)) EXCEPT !.pool = Borrow(@, u, a), !.wallet[u] = @ + a]

\* repay of either vault: what is offered, up to what is owed once accrued.
Due(c, u, a) == Lower(a, LienOf(Accrued(c), u))
CanLoanRepay(c, u, a) == Due(c, u, a) > 0 /\ CanPull(c, u, "vault", Due(c, u, a))
LoanRepay(c, u, a) ==
  LET d == Accrued(c) IN [Pull(d, u, "vault", Due(c, u, a)) EXCEPT !.pool = Repay(@, u, Due(c, u, a))]

\* liquidate: the most allowed, when the caller names no amount.
MaxRepay(c, u) ==
  LET d == Accrued(Settle(c, u)) IN MulDiv(LienOf(d, u), EffectiveCloseFactor(HealthFactor(d, u)), WAD)
CanLiquidate(c, by, u) ==
  LET d == Accrued(Settle(c, u)) IN
  HealthFactor(d, u) < WAD /\ MaxRepay(c, u) > 0 /\ MaxRepay(c, u) <= c.wallet[by]
Seized(c, u) == Lower(MaxRepay(c, u) + MulDiv(MaxRepay(c, u), LiquidationBonus, WAD), c.shares[u])
Liquidate(c, by, u) ==
  LET d == Accrued(Settle(c, u)) IN
  [Burn(d, u, Seized(c, u)) EXCEPT !.pool = Repay(@, u, MaxRepay(c, u)),
                                   !.wallet[by] = (@ - MaxRepay(c, u)) + Seized(c, u)]

\* writeOffBadDebt: what the shares still cover, then the pool's loss.
CanWriteOff(c, u) == LienOf(Accrued(c), u) > c.shares[u]
WriteOff(c, u) ==
  LET d == Accrued(Settle(c, u))
      repaid == IF d.shares[u] > 0 THEN Repay(d.pool, u, d.shares[u]) ELSE d.pool IN
  [Burn(d, u, d.shares[u]) EXCEPT !.pool = Absorb(repaid, u)]

\* Mutant: the lien is read before interest accrues.
RepaysBeforeAccruing(c, u, proceeds) ==
  LET owed == LienOf(c, u)
      d == Accrued(c) IN
  [d EXCEPT !.pool = IF Lower(proceeds, owed) > 0 THEN Repay(@, u, Lower(proceeds, owed)) ELSE @,
            !.wallet[u] = @ + (proceeds - Lower(proceeds, owed))]

\* onPositionSettled: a round's proceeds repay the lien, the rest is the holder's.
OnPositionSettled(c, u, proceeds) ==
  LET d == Accrued(c)
      repaid == Lower(proceeds, LienOf(d, u)) IN
  [d EXCEPT !.pool = IF repaid > 0 THEN Repay(@, u, repaid) ELSE @, !.wallet[u] = @ + (proceeds - repaid)]

-----------------------------------------------------------------------------
\* StockLoanVault.

PriceAge(c, t) == c.now - c.feed[t].at
Priced(c, t, maxAge) == c.feed[t].price > 0 /\ PriceAge(c, t) <= maxAge
ValueOf(c, t, a) == MulDiv(a, c.feed[t].price, TokenUnit * FeedScale)
TokensFor(c, t, value) == MulDiv(value, TokenUnit * FeedScale, c.feed[t].price)

Held(c, u) == {t \in Tokens : c.stock[u][t] > 0}
AllPriced(c, u, maxAge) == \A t \in Held(c, u) : Priced(c, t, maxAge)
StockValue(c, u) == SumFunction([t \in Held(c, u) |-> ValueOf(c, t, c.stock[u][t])])
StockLine(c, u, ratio) == SumFunction([t \in Held(c, u) |-> MulDiv(ValueOf(c, t, c.stock[u][t]), ratio, WAD)])
StockHealth(c, u) ==
  IF LienOf(c, u) = 0 THEN NoDebt ELSE MulDiv(StockLine(c, u, LiquidationThreshold), WAD, LienOf(c, u))

CanStockDeposit(c, u, t, a) == ~c.paused /\ a > 0 /\ a <= c.stockWallet[u][t] /\ a <= c.allowed[u][t]
StockDeposit(c, u, t, a) ==
  [c EXCEPT !.stockWallet[u][t] = @ - a, !.allowed[u][t] = @ - a, !.stock[u][t] = @ + a]

\* withdraw: what is left must still back the debt, at prices fresh enough to borrow on.
CanStockWithdraw(c, u, t, a) ==
  LET d == [Accrued(c) EXCEPT !.stock[u][t] = @ - a] IN
  /\ a > 0 /\ a <= c.stock[u][t]
  /\ LienOf(d, u) > 0 => AllPriced(d, u, MaxAge) /\ LienOf(d, u) <= StockLine(d, u, MaxLTV)
StockWithdraw(c, u, t, a) ==
  [Accrued(c) EXCEPT !.stock[u][t] = @ - a, !.stockWallet[u][t] = @ + a]

FeeOn(a) == MulDivUp(a, OriginationFee, WAD)
CanStockBorrow(c, u, a) ==
  LET d == Accrued(c) IN
  /\ ~c.paused /\ a > 0
  /\ AllPriced(d, u, MaxAge)
  /\ LienOf(d, u) + a + FeeOn(a) <= StockLine(d, u, MaxLTV)
  /\ CanBorrow(d.pool, a + FeeOn(a))
StockBorrow(c, u, a) == [Accrued(c) EXCEPT !.pool = Borrow(@, u, a + FeeOn(a)), !.wallet[u] = @ + a]

StockMaxRepay(c, u) ==
  LET d == Accrued(c) IN MulDiv(LienOf(d, u), EffectiveCloseFactor(StockHealth(d, u)), WAD)
StockFee(c, u) == MulDiv(StockMaxRepay(c, u), LiquidationBonus * ProtocolShare, WAD * WAD)
StockSeized(c, u, t) ==
  Lower(TokensFor(c, t, StockMaxRepay(c, u) + MulDiv(StockMaxRepay(c, u), LiquidationBonus, WAD)), c.stock[u][t])
CanStockLiquidate(c, by, u, t) ==
  LET d == Accrued(c) IN
  /\ AllPriced(d, u, LiquidationMaxAge)
  /\ StockHealth(d, u) < WAD /\ StockMaxRepay(c, u) > 0 /\ c.stock[u][t] > 0
  /\ StockMaxRepay(c, u) + StockFee(c, u) <= c.wallet[by]
StockLiquidate(c, by, u, t) ==
  [Accrued(c) EXCEPT !.pool = Repay(@, u, StockMaxRepay(c, u)),
                     !.wallet[by] = @ - StockMaxRepay(c, u) - StockFee(c, u),
                     !.stock[u][t] = @ - StockSeized(c, u, t),
                     !.stockWallet[by][t] = @ + StockSeized(c, u, t)]

\* writeOffBadDebt: everything held is sold to the caller at the bonus, the rest is the pool's loss.
SalePrice(c, u) == IF Held(c, u) = {} THEN 0 ELSE MulDiv(StockValue(c, u), WAD, WAD + LiquidationBonus)
CanStockWriteOff(c, by, u) ==
  LET d == Accrued(c) IN
  AllPriced(d, u, LiquidationMaxAge) /\ StockValue(d, u) < LienOf(d, u) /\ SalePrice(d, u) <= c.wallet[by]
StockWriteOff(c, by, u) ==
  LET d == Accrued(c)
      paid == SalePrice(d, u) IN
  [d EXCEPT !.pool = Absorb(IF paid > 0 THEN Repay(@, u, paid) ELSE @, u),
            !.wallet[by] = @ - paid,
            !.stock[u] = [t \in Tokens |-> 0],
            !.stockWallet[by] = [t \in Tokens |-> @[t] + c.stock[u][t]]]

=============================================================================
